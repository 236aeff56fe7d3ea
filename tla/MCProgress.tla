------------------------------ MODULE MCProgress ------------------------------
(***************************************************************************)
(* What gets done in the end, as one run: the requests of the maintenance  *)
(* lane, the detection of one photo, and the recognition of faces, where   *)
(* two executions contend for the work of one photo or take turns at that  *)
(* of two.                                                                 *)
(***************************************************************************)
EXTENDS MCDetectionQueue, CoalescingLane

CONSTANTS
    k1,
    Face, FaceAsset, Region, MaxUpsets, f1      \* of FaceRecognition

MCPriority == {10, 20}

Photo == {1, 2}
MCFaceAsset == [f \in Face |-> IF f = f1 THEN 1 ELSE 2]
MCGeometry(p) ==
    UNION {[faces -> Region] : faces \in SUBSET {f \in Face : FaceAsset[f] = p} \ {{}}}
MCWork ==
    UNION {[asset : {p}, rev : Revision, content : Revision, regions : MCGeometry(p)] :
              p \in Photo}
MCPhotoOf == [j \in MCWork |-> j.asset]

VARIABLES
    part,
    work, photo, photoReceipt, reopened,        \* the ledger of recognition jobs
    photoLibrary, photoProjection, turn,        \* library, projection and exec of FaceRecognition
    face, moved, accepted, head, pipeline, embedding, upsets

R == INSTANCE FaceRecognition WITH
        Job <- MCWork, Asset <- Photo, AssetOf <- MCPhotoOf,
        job <- work, asset <- photo, receipt <- photoReceipt, requeued <- reopened,
        library <- photoLibrary, projection <- photoProjection, exec <- turn

ASSUME R!RecognitionAssumption

recVars == <<work, photo, photoReceipt, reopened, photoLibrary, photoProjection, turn,
             face, moved, accepted, head, pipeline, embedding, upsets>>
progressVars == <<part, laneVars, queueVars, recVars>>

ProgressInit ==
    /\ part \in {"lane", "detection", "contention", "turns"}
    /\ LaneInit
    /\ QueueInit
    /\ R!RecognitionInit
    /\ embedding = [f \in Face |-> None]
    /\ part \in {"lane", "detection"} => accepted = {}
    /\ part = "contention" => accepted \subseteq {f1}

\* Contention is about the first photo alone; otherwise one execution is at work at a time.
OfFirst == accepted' \subseteq {f1} /\ photoLibrary'[2] = photoLibrary[2]
May(e) ==
    \/ part = "contention"
    \/ part = "turns" /\ \A o \in Exec \ {e} : turn[o].pc = "idle"
Recognizes(e) == May(e) /\ R!ExecStep(e)

\* No edits and no corrections: one revision, one region.
RecognitionStep ==
    \/ \E p \in Photo : R!ListingChanges(p) \/ R!RecordPage(p) \/ R!CompleteRun(p)
    \/ \E f \in Face : R!AcceptFace(f)
    \/ \E e \in Exec : Recognizes(e) \/ (May(e) /\ R!Stop(e))
    \/ R!LeaseTick

ProgressNext ==
    \/ part = "lane" /\ LaneNext /\ UNCHANGED <<part, queueVars, recVars>>
    \/ part = "detection" /\ QueueNext /\ UNCHANGED <<part, laneVars, recVars>>
    \/ /\ part \in {"contention", "turns"} /\ RecognitionStep
       /\ part = "contention" => OfFirst
       /\ UNCHANGED <<part, laneVars, queueVars>>

\* LaneSpec, QueueFairSpec and RecognitionFairSpec.
ProgressSpec ==
    /\ ProgressInit /\ [][ProgressNext]_progressVars
    /\ WF_laneVars(part = "lane" /\ Drain)
    /\ \A k \in Key : WF_laneVars(part = "lane" /\ Advances(k))
    /\ WF_queueVars(part = "detection" /\ LeaseTick)
    /\ \A e \in Exec : WF_queueVars(part = "detection" /\ WorkerStep(e))
    /\ WF_recVars(part \in {"contention", "turns"} /\ R!LeaseTick)
    /\ \A e \in Exec : WF_recVars(Recognizes(e))

-------------------------------------------------------------------------------

\* TopServed, of one key: keys are alike.
KeyTopServed == TopServedFor(k1)

\* FaceRecognition's property, of its instance.
FacesRecognized == R!FacesRecognized
===============================================================================
