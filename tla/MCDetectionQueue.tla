-------------------------- MODULE MCDetectionQueue --------------------------
(* Small instances of the queue: one asset with a job per revision, two executions. *)
EXTENDS DetectionQueue

CONSTANTS a1, e1, e2, w1, w2

\* Job j is the asset at its revision j.
MCJob == 1..MaxRevision
MCAssetOf == [j \in Job |-> a1]
MCRevisionOf == [j \in Job |-> j]

\* The backlog command gives every worker a name of its own.
NamesOwn == [e \in Exec |-> IF e = e1 THEN w1 ELSE w2]

\* The server's commands all run the worker under its default name.
NamesShared == [e \in Exec |-> w1]

\* Executions are alike, with their names.
Alike ==
    {[v \in Exec \cup Worker |->
         IF v \in Exec THEN swap[v] ELSE NamesOwn[swap[CHOOSE e \in Exec : NamesOwn[e] = v]]] :
       swap \in {p \in [Exec -> Exec] : \A a, b \in Exec : p[a] = p[b] => a = b}}
=============================================================================
