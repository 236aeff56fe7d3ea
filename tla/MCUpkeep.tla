------------------------------- MODULE MCUpkeep -------------------------------
(***************************************************************************)
(* What is kept up to date, as one run: the projections that the           *)
(* maintenance lane refreshes, and the embeddings of existing faces, where *)
(* executions race each other or, over a longer history, take turns.  A    *)
(* behaviour picks one part and takes its steps.                           *)
(***************************************************************************)
EXTENDS CoalescingLane, FaceRecognition

CONSTANTS
    e1, w1, w2, f1, g1,
    RaceUpsets          \* upsets while executions race

MCPriority == {10, 20}

\* The backlog command gives every worker a name of its own.
NamesOwn == [e \in Exec |-> IF e = e1 THEN w1 ELSE w2]

MCFaceAsset == [f \in Face |-> IF f = f1 THEN 1 ELSE 2]

\* A job is what its work key binds.
MCJob ==
    UNION {[asset : {a}, rev : Revision, content : Revision, regions : Geometry(a)] : a \in Asset}
MCAssetOf == [j \in Job |-> j.asset]

ASSUME RecognitionAssumption

VARIABLE part

upkeepVars == <<part, laneVars, recognitionVars>>

UpkeepInit ==
    /\ part \in {"lane", "race", "turns"}
    /\ LaneInit
    /\ RecognitionInit
    /\ face = [f \in Face |-> g1]     \* regions are alike
    /\ part # "turns" => embedding = [f \in Face |-> None]
    /\ part = "lane" => accepted = {}

\* While executions race, less happens outside; otherwise one of them is at work at a time.
May(e) == part = "race" \/ \A o \in Exec \ {e} : exec[o].pc = "idle"
Fits == part = "race" => upsets' <= RaceUpsets

RecognitionStep ==
    \/ \E a \in Asset : RecordPage(a) \/ CompleteRun(a)
    \/ \E a \in Asset : (LibraryEdits(a) \/ ListingChanges(a)) /\ Fits
    \/ \E f \in Face : AcceptFace(f) /\ Fits
    \/ \E f \in Face, g \in Region : (CorrectFace(f, g) \/ UndoMove(f)) /\ Fits
    \/ \E e \in Exec : May(e) /\ (ExecStep(e) \/ Stop(e))
    \/ LeaseTick

UpkeepNext ==
    \/ part = "lane" /\ LaneNext /\ UNCHANGED <<part, recognitionVars>>
    \/ part # "lane" /\ RecognitionStep /\ UNCHANGED <<part, laneVars>>

UpkeepSpec == UpkeepInit /\ [][UpkeepNext]_upkeepVars

\* Executions are alike, with their names.
Alike ==
    {[v \in Exec \cup Worker |->
         IF v \in Exec THEN swap[v] ELSE NamesOwn[swap[CHOOSE e \in Exec : NamesOwn[e] = v]]] :
       swap \in {p \in [Exec -> Exec] : \A a, b \in Exec : p[a] = p[b] => a = b}}
===============================================================================
