--------------------------- MODULE MCMediaOperator ---------------------------
(* A pause, a resume and a run, requested by three calls on two processes, over one job. *)
EXTENDS MediaOperator

CONSTANTS j1, a1, pause, resume, run, x1, p1, p2

MCAssetOf == [j \in Job |-> a1]
MCKindOf == [c \in Command |-> CASE c = pause -> "pause" [] c = resume -> "resume" [] c = run -> "run"]
MCProcessOf == [x \in Call |-> IF x = x1 THEN p1 ELSE p2]
=============================================================================
