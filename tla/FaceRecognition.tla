--------------------------- MODULE FaceRecognition ---------------------------
(***************************************************************************)
(* Recognition of faces that have an accepted identity: a scheduler finds  *)
(* the first asset with such a face and no recognition of it, reads the    *)
(* photo, freezes source and geometry in a pipeline with a job, and a      *)
(* worker claims the job, reads everything again, runs the recogniser      *)
(* twice and commits the embeddings.  The rows are MediaJobLedger's.       *)
(*                                                                         *)
(* A job is what its work key binds: the asset, the revision inventory     *)
(* recorded, the content that was read for it and the geometry of its      *)
(* faces.  An execution is one turn of the operator's loop or of the       *)
(* backlog command, first the scheduler's and then the worker's part.      *)
(*                                                                         *)
(* Left out: rejected faces and withdrawn identities, visibility, more     *)
(* than 32 faces, other provider configurations, superseded embeddings,    *)
(* presence pages and listings that are out of date (DetectionQueue).      *)
(***************************************************************************)
EXTENDS MediaJobLedger

CONSTANTS
    Exec,           \* executions, each run again and again
    WorkerName,     \* the lease_owner name each execution uses
    Face,           \* valid faces
    FaceAsset,      \* the asset of each face
    Region,         \* regions a face may have
    MaxRevision,    \* bound on the revisions of an asset
    MaxAttempts,    \* maxAttempts of a recognition job
    MaxUpsets       \* bound on what happens outside of recognition

Revision == 1..MaxRevision
FacesOf(a) == {f \in Face : FaceAsset[f] = a}
Geometry(a) == UNION {[faces -> Region] : faces \in (SUBSET FacesOf(a)) \ {{}}}

\* A face_embedding row, with whether a correction crossed the commit that stored it, and whether
\* an undo has taken back the move it was stored after.
EmbeddingRow ==
    [job : Job \cup {None}, region : Region, bytes : Revision, crossed : BOOLEAN,
     undone : BOOLEAN]

\* An observation_correction_operation: the region before the move, the embedding of that time.
MoveRow == [prior : Region, kept : EmbeddingRow \cup {None}]

\* What the constants are.
RecognitionAssumption ==
    /\ Asset \subseteq Nat      \* asset ids are ordered
    /\ FaceAsset \in [Face -> Asset]
    /\ WorkerName \in [Exec -> Worker]
    /\ MaxRevision \in Nat \ {0} /\ MaxUpsets \in Nat
    /\ MaxAttempts \in AttemptLimits
    /\ Job = UNION {[asset : {a}, rev : Revision, content : Revision, regions : Geometry(a)] :
                       a \in Asset}
    /\ AssetOf = [j \in Job |-> j.asset]
    /\ Receipt = Digest
    /\ None \notin EmbeddingRow

VARIABLES
    library,    \* [Asset -> the asset in Immich: revision, and whether it is listed]
    projection, \* [Asset -> its immich_asset_projection row]
    face,       \* [Face -> its region]
    moved,      \* [Face -> its move that can be undone, or None]
    accepted,   \* faces with an accepted identity
    head,       \* [Asset -> [Revision -> content of its asset_source_revision_head, or None]]
    pipeline,   \* [Job -> state of its media_pipeline_run]
    embedding,  \* [Face -> its active face_embedding, or None]
    exec,       \* [Exec -> where the execution is]
    upsets      \* what happened outside so far

sourceVars == <<library, projection, face, moved, accepted>>
storeVars == <<head, pipeline, embedding>>
recognitionVars == <<ledgerVars, sourceVars, storeVars, exec, upsets>>

-----------------------------------------------------------------------------

Idle == [pc |-> "idle", asset |-> None, faces |-> {}, rev |-> None, bytes |-> None,
         expected |-> None, job |-> None, crop |-> <<>>, crossed |-> FALSE]

\* The embedding a face may have from the recognition that follows its detection.
Detected(f) ==
    [job |-> None, region |-> face[f], bytes |-> 1, crossed |-> FALSE, undone |-> FALSE]

RecognitionInit ==
    /\ LedgerInit
    /\ asset = [a \in Asset |-> "active"]
    /\ library = [a \in Asset |-> [rev |-> 1, listed |-> TRUE]]
    /\ projection = [a \in Asset |-> [rev |-> 1, state |-> "active"]]
    /\ face \in [Face -> Region]
    /\ moved = [f \in Face |-> None]
    /\ accepted \in SUBSET Face
    /\ head = [a \in Asset |-> [r \in Revision |-> None]]
    /\ pipeline = [j \in Job |-> "none"]
    /\ \E faces \in SUBSET Face :
          embedding = [f \in Face |-> IF f \in faces THEN Detected(f) ELSE None]
    /\ exec = [e \in Exec |-> Idle]
    /\ upsets = 0

\* The row locks of a commit, between its checks and its writes.
Locked(j) == \E e \in Exec : exec[e].pc = "committing" /\ exec[e].job = j

-----------------------------------------------------------------------------
(* Immich, inventory, identities and corrections *)

Upset == upsets < MaxUpsets /\ upsets' = upsets + 1

LibraryEdits(a) ==
    /\ Upset /\ library[a].rev < MaxRevision
    /\ library' = [library EXCEPT ![a].rev = @ + 1]
    /\ UNCHANGED <<ledgerVars, projection, face, moved, accepted, storeVars, exec>>

\* In or out of the trash, or a page that misses it because the library shifts.
ListingChanges(a) ==
    /\ Upset
    /\ library' = [library EXCEPT ![a].listed = ~@]
    /\ UNCHANGED <<ledgerVars, projection, face, moved, accepted, storeVars, exec>>

\* An inventory transaction that takes jobs away waits for the rows a commit has locked.
TakesAway(a, code) ==
    /\ \A j \in Job : AssetOf[j] = a => ~Locked(j)
    /\ SuspendJobs({j \in Job : AssetOf[j] = a}, code)

\* recordPage.  A job's input_revision is of the bytes and the binding, never the library's: a
\* new revision takes every recognition job of the asset away.  Nothing here gives one back.
RecordPage(a) ==
    /\ library[a].listed
    /\ projection[a] # [rev |-> library[a].rev, state |-> "active"]
    /\ IF projection[a].rev # library[a].rev THEN TakesAway(a, "INPUT_REVISION_SUPERSEDED")
       ELSE UNCHANGED job
    /\ projection' = [projection EXCEPT ![a] = [rev |-> library[a].rev, state |-> "active"]]
    /\ asset' = [asset EXCEPT ![a] = "active"]
    /\ UNCHANGED <<receipt, requeued, library, face, moved, accepted, storeVars, exec, upsets>>

\* complete_scoped_immich_inventory_run, after a complete listing without the asset.
CompleteRun(a) ==
    /\ ~library[a].listed /\ projection[a].state = "active"
    /\ TakesAway(a, "ASSET_NOT_VISIBLE")
    /\ projection' = [projection EXCEPT ![a].state = "missing"]
    /\ asset' = [asset EXCEPT ![a] = "missing"]
    /\ UNCHANGED <<receipt, requeued, library, face, moved, accepted, storeVars, exec, upsets>>

AcceptFace(f) ==
    /\ Upset /\ f \notin accepted
    /\ accepted' = accepted \cup {f}
    /\ UNCHANGED <<ledgerVars, library, projection, face, moved, storeVars, exec>>

\* A commit that has read the face holds no lock on it.
Crossed(f) ==
    [e \in Exec |-> IF exec[e].pc = "committing" /\ f \in DOMAIN exec[e].crop
                    THEN [exec[e] EXCEPT !.crossed = TRUE] ELSE exec[e]]

\* correctGeometry: the active embedding of the old crop goes, into the snapshot of the move.
CorrectFace(f, region) ==
    /\ Upset /\ region # face[f]
    /\ face' = [face EXCEPT ![f] = region]
    /\ moved' = [moved EXCEPT ![f] = [prior |-> face[f], kept |-> embedding[f]]]
    /\ embedding' = [embedding EXCEPT ![f] = None]
    /\ exec' = Crossed(f)
    /\ UNCHANGED <<ledgerVars, library, projection, accepted, head, pipeline>>

\* undo, of the latest move alone: the snapshot's embedding is active again, unless another one was
\* stored meanwhile.  That one stays, of the crop that is taken back.
UndoMove(f) ==
    /\ Upset /\ moved[f] # None
    /\ face' = [face EXCEPT ![f] = moved[f].prior]
    /\ moved' = [moved EXCEPT ![f] = None]
    /\ embedding' = [embedding EXCEPT ![f] = IF @ = None THEN moved[f].kept
                                             ELSE [@ EXCEPT !.undone = TRUE]]
    /\ exec' = Crossed(f)
    /\ UNCHANGED <<ledgerVars, library, projection, accepted, head, pipeline>>

-----------------------------------------------------------------------------
(* The scheduler *)

Name(e) == WorkerName[e]
Mine(e) == exec[e].job

Goes(e, pc) == exec' = [exec EXCEPT ![e].pc = pc]
Ends(e) == exec' = [exec EXCEPT ![e] = Idle]
Fails(e) == exec' = [exec EXCEPT ![e] = [Idle EXCEPT !.pc = "failing", !.job = Mine(e)]]

Unchanged == UNCHANGED <<ledgerVars, sourceVars, storeVars, upsets>>

\* current_asset_source_revision: a head per binding, those of earlier revisions included.
HeadIs(j) == head[j.asset][j.rev] = j.content

Recognized(f) == \E j \in Job : f \in DOMAIN j.regions /\ pipeline[j] = "recognized" /\ HeadIs(j)

Available(a) == asset[a] = "active" /\ projection[a].state = "active"
MissingUnscheduled ==
    {f \in accepted : /\ Available(FaceAsset[f])
                      /\ \A j \in Job : f \in DOMAIN j.regions => pipeline[j] = "none"}
Missing == {f \in accepted : Available(FaceAsset[f]) /\ ~Recognized(f)}

\* enqueueNext: the faces of the first asset, whatever became of their last pipeline.
IsFirst(a) ==
    /\ \E f \in Missing : FaceAsset[f] = a
    /\ \A f \in Missing : FaceAsset[f] >= a

Select(e) ==
    /\ exec[e].pc = "idle"
    /\ \E a \in Asset :
          /\ IsFirst(a)
          /\ exec' = [exec EXCEPT ![e] = [Idle EXCEPT !.pc = "selected", !.asset = a,
                                              !.faces = Missing \cap FacesOf(a),
                                              !.rev = projection[a].rev]]
    /\ Unchanged

\* The metadata's revision is compared, then the bytes are read.
Describes(a, rev) == library[a].listed /\ library[a].rev = rev

DescribeSource(e) ==
    /\ exec[e].pc = "selected"
    /\ IF Describes(exec[e].asset, exec[e].rev) THEN Goes(e, "described") ELSE Ends(e)
    /\ Unchanged

ReadSource(e) ==
    LET a == exec[e].asset IN
    /\ exec[e].pc = "described"
    /\ IF library[a].listed
       THEN exec' = [exec EXCEPT ![e].pc = "fetched", ![e].bytes = library[a].rev]
       ELSE Ends(e)
    /\ Unchanged

Prepare(e) ==
    LET a == exec[e].asset IN
    /\ exec[e].pc = "fetched"
    /\ IF asset[a] = "active"
       THEN exec' = [exec EXCEPT ![e].pc = "prepared", ![e].expected = head[a][exec[e].rev]]
       ELSE Ends(e)
    /\ Unchanged

Identity(e) ==
    [asset |-> exec[e].asset, rev |-> exec[e].rev, content |-> exec[e].bytes,
     regions |-> [f \in exec[e].faces |-> face[f]]]

\* commitValidatedAssetSourceRead: the head is what was expected, or what is being written.
HeadExpected(e) == head[exec[e].asset][exec[e].rev] \in {exec[e].bytes, exec[e].expected}

\* enqueueExistingFaceRecognitionPipeline, one transaction over head, faces, pipeline and job.  A
\* pipeline that exists is returned as it is, without a word to its job.
EnqueuePipeline(e) ==
    LET j == Identity(e) IN
    /\ exec[e].pc = "prepared"
    /\ \/ /\ asset[j.asset] # "active" \/ ~HeadExpected(e)
          /\ Ends(e)
          /\ Unchanged
       \/ /\ asset[j.asset] = "active" /\ HeadExpected(e) /\ ~Locked(j)
          /\ head' = [head EXCEPT ![j.asset][j.rev] = j.content]
          /\ \/ /\ pipeline[j] = "none"
                /\ Enqueue(j, MaxAttempts)
                /\ pipeline' = [pipeline EXCEPT ![j] = "recognition_pending"]
             \/ /\ pipeline[j] # "none"
                /\ UNCHANGED <<ledgerVars, pipeline>>
          /\ exec' = [exec EXCEPT ![e] = IF pipeline[j] = "recognized" THEN Idle
                                         ELSE [Idle EXCEPT !.pc = "scheduled"]]
          /\ UNCHANGED <<sourceVars, embedding, upsets>>

-----------------------------------------------------------------------------
(* The worker *)

\* claim_existing_face_recognition_jobs.  Its sweep waits for a row that a commit has locked.
SweepPasses == \A j \in Job : LeaseLapsed(job[j]) => ~Locked(j)
ClaimableHere == {j \in Claimable : pipeline[j] = "recognition_pending"}

ClaimJob(e) ==
    /\ exec[e].pc = "scheduled" /\ SweepPasses
    /\ \E j \in ClaimableHere :
          /\ ClaimProviderJob(Name(e), j)
          /\ exec' = [exec EXCEPT ![e] = [Idle EXCEPT !.pc = "claimed", !.job = j]]
    /\ UNCHANGED <<sourceVars, storeVars, upsets>>

FindNoJob(e) ==
    /\ exec[e].pc = "scheduled" /\ SweepPasses
    /\ ClaimableHere = {}
    /\ job' = Swept
    /\ Ends(e)
    /\ UNCHANGED <<asset, receipt, requeued, sourceVars, storeVars, upsets>>

\* A read that finds what the job binds, or the attempt fails.
Step(e, from, to, found) ==
    /\ exec[e].pc = from
    /\ IF found THEN Goes(e, to) ELSE Fails(e)
    /\ Unchanged

LoadPipeline(e) ==
    LET j == Mine(e) IN
    Step(e, "claimed", "bound", pipeline[j] = "recognition_pending" /\ HeadIs(j))

Crop(j) == [f \in DOMAIN j.regions |-> face[f]]

LoadFaces(e) ==
    LET j == Mine(e) IN
    /\ exec[e].pc = "bound"
    /\ IF Crop(j) = j.regions
       THEN exec' = [exec EXCEPT ![e].pc = "loaded", ![e].crop = Crop(j)]
       ELSE Fails(e)
    /\ Unchanged

\* createCurrentImmichAssetReader: the projection and the head give the revision the job must
\* have; then the metadata, and the bytes.
Current(j) ==
    Available(j.asset) /\ projection[j.asset].rev = j.rev /\ HeadIs(j)

LocateSource(e) == Step(e, "loaded", "located", Current(Mine(e)))
DescribeAgain(e) == Step(e, "located", "redescribed", Describes(Mine(e).asset, Mine(e).rev))

ReadBytes(e) ==
    LET j == Mine(e) IN
    /\ exec[e].pc = "redescribed"
    /\ IF library[j.asset].listed /\ library[j.asset].rev = j.content
       THEN exec' = [exec EXCEPT ![e].pc = "read", ![e].bytes = library[j.asset].rev]
       ELSE Fails(e)
    /\ Unchanged

\* The checkpoint waits for a row that a commit has locked, as every writer of the row does.
VerifyInventory(e) ==
    /\ exec[e].pc = "read" /\ ~Locked(Mine(e))
    /\ \/ /\ Checkpoint(Name(e), Mine(e), InventoryVerified)
          /\ Goes(e, "verified")
       \/ /\ ~LeaseCurrent(job[Mine(e)], Name(e))
          /\ Fails(e)
          /\ UNCHANGED ledgerVars
    /\ UNCHANGED <<sourceVars, storeVars, upsets>>

\* Two runs that agree, or the attempt fails.
RecognizeTwice(e) == \E agree \in BOOLEAN : Step(e, "verified", "recognized", agree)

CheckSource(e) ==
    LET j == Mine(e) IN
    Step(e, "recognized", "checked", Current(j) /\ Describes(j.asset, j.rev))

\* commitRecognitionJobResult waits for the row, locks job and pipeline, then reads head and faces.
CommitReadsBlindly(e) ==
    LET j == Mine(e) IN
    /\ ~Locked(j)
    /\ Step(e, "checked", "committing",
            /\ LeaseCurrent(job[j], Name(e))
            /\ pipeline[j] = "recognition_pending"
            /\ HeadIs(j))

CommitReads(e) ==
    LET j == Mine(e) IN
    /\ ~Locked(j)
    /\ Step(e, "checked", "committing",
            /\ LeaseCurrent(job[j], Name(e))
            /\ pipeline[j] = "recognition_pending"
            /\ HeadIs(j) /\ Crop(j) = j.regions)

\* A face the recogniser did not embed keeps the embedding it has.
EmbeddedAll(e, faces) ==
    [f \in Face |-> IF f \in DOMAIN exec[e].crop \ faces THEN None
                    ELSE IF f \in faces
                    THEN [job |-> Mine(e), region |-> exec[e].crop[f], bytes |-> exec[e].bytes,
                          crossed |-> exec[e].crossed, undone |-> FALSE]
                    ELSE embedding[f]]

Embedded(e, faces) ==
    [f \in Face |-> IF f \in faces
                    THEN [job |-> Mine(e), region |-> exec[e].crop[f], bytes |-> exec[e].bytes,
                          crossed |-> exec[e].crossed, undone |-> FALSE]
                    ELSE embedding[f]]

\* Receipt, embeddings, last checkpoint, completion and pipeline.  now() is still that of the
\* transaction's start, so the lease is not looked at again.
CommitWrites(e, d) ==
    LET j == Mine(e) IN
    /\ exec[e].pc = "committing"
    /\ \E faces \in SUBSET DOMAIN exec[e].crop : embedding' = Embedded(e, faces)
    /\ receipt' = [receipt EXCEPT ![d] = d]
    /\ job' = [job EXCEPT ![j] = Completed([@ EXCEPT !.stage = ObservationsRecorded], d, d)]
    /\ pipeline' = [pipeline EXCEPT ![j] = "recognized"]
    /\ Ends(e)
    /\ UNCHANGED <<asset, requeued, sourceVars, head, upsets>>

\* A statement fails: also the insert, when another commit has stored an embedding of the face.
CommitAborts(e) == exec[e].pc = "committing" /\ Fails(e) /\ Unchanged

\* The failure report waits for the row; "lease is not current" is swallowed.  The pipeline is
\* marked by a statement of its own, when the report has failed the job for good.
ReportFailureMarking(e) ==
    LET j == Mine(e) IN
    /\ exec[e].pc = "failing" /\ ~Locked(j)
    /\ IF LeaseNamed(job[j], Name(e)) THEN Fail(Name(e), j, "WORKER_ERROR")
       ELSE UNCHANGED ledgerVars
    /\ Goes(e, "marking")
    /\ UNCHANGED <<sourceVars, storeVars, upsets>>

ReportFailure(e) ==
    LET j == Mine(e) IN
    /\ exec[e].pc = "failing" /\ ~Locked(j)
    /\ IF LeaseNamed(job[j], Name(e)) THEN Fail(Name(e), j, "WORKER_ERROR")
       ELSE UNCHANGED ledgerVars
    /\ IF LeaseNamed(job[j], Name(e)) /\ Exhausted(job[j]) THEN Goes(e, "marking") ELSE Ends(e)
    /\ UNCHANGED <<sourceVars, storeVars, upsets>>

MarkFailed(e) ==
    LET j == Mine(e) IN
    /\ exec[e].pc = "marking" /\ ~Locked(j)
    /\ pipeline' = [pipeline EXCEPT ![j] = IF @ = "recognition_pending" THEN "recognition_failed"
                                           ELSE @]
    /\ Ends(e)
    /\ UNCHANGED <<ledgerVars, sourceVars, head, embedding, upsets>>

\* The process dies with a job.  A scheduler that dies leaves what the next one finds anyway.
Stop(e) == Mine(e) # None /\ Ends(e) /\ Unchanged

LeaseTick == Tick /\ UNCHANGED <<sourceVars, storeVars, exec, upsets>>

ExecStep(e) ==
    \/ Select(e) \/ DescribeSource(e) \/ ReadSource(e) \/ Prepare(e) \/ EnqueuePipeline(e)
    \/ ClaimJob(e) \/ FindNoJob(e) \/ LoadPipeline(e) \/ LoadFaces(e)
    \/ LocateSource(e) \/ DescribeAgain(e) \/ ReadBytes(e) \/ VerifyInventory(e)
    \/ RecognizeTwice(e) \/ CheckSource(e) \/ CommitReads(e) \/ CommitAborts(e)
    \/ ReportFailure(e) \/ MarkFailed(e)
    \/ \E d \in Digest : CommitWrites(e, d)

RecognitionNext ==
    \/ \E a \in Asset : LibraryEdits(a) \/ ListingChanges(a) \/ RecordPage(a) \/ CompleteRun(a)
    \/ \E f \in Face : AcceptFace(f) \/ UndoMove(f) \/ \E region \in Region : CorrectFace(f, region)
    \/ \E e \in Exec : ExecStep(e) \/ Stop(e)
    \/ LeaseTick

RecognitionSpec == RecognitionInit /\ [][RecognitionNext]_recognitionVars

\* Time passes and executions run, one after another; nothing is asked of Immich or inventory.
RecognitionFairSpec ==
    /\ RecognitionSpec
    /\ WF_recognitionVars(LeaseTick)
    /\ \A e \in Exec : WF_recognitionVars(ExecStep(e))

-----------------------------------------------------------------------------
(* Properties *)

ExecPhase ==
    {"idle", "selected", "described", "fetched", "prepared", "scheduled", "claimed", "bound",
     "loaded", "located", "redescribed", "read", "verified", "recognized", "checked",
     "committing", "failing", "marking"}

\* The regions of some faces.
FaceRegions == UNION {[faces -> Region] : faces \in SUBSET Face}

\* Where an execution is, what it has read, and the job it works on.
ExecRow ==
    [pc : ExecPhase, asset : Asset \cup {None}, faces : SUBSET Face, rev : Revision \cup {None},
     bytes : Revision \cup {None}, expected : Revision \cup {None}, job : Job \cup {None},
     crop : FaceRegions \cup {<<>>}, crossed : BOOLEAN]

RecognitionTypeOK ==
    /\ LedgerTypeOK
    /\ library \in [Asset -> [rev : Revision, listed : BOOLEAN]]
    /\ projection \in [Asset -> [rev : Revision, state : {"active", "missing"}]]
    /\ face \in [Face -> Region] /\ accepted \subseteq Face
    /\ moved \in [Face -> MoveRow \cup {None}]
    /\ head \in [Asset -> [Revision -> Revision \cup {None}]]
    /\ pipeline \in [Job -> {"none", "recognition_pending", "recognized", "recognition_failed"}]
    /\ embedding \in [Face -> EmbeddingRow \cup {None}]
    /\ exec \in [Exec -> ExecRow]
    /\ upsets \in 0..MaxUpsets

\* A pipeline is what its job says, though two statements and two processes write them: recognised
\* exactly when the job is completed, and never given up while the job can still succeed.
PipelinesFollowJobs ==
    \A j \in Job :
        /\ pipeline[j] = "none" <=> job[j].state = "absent"
        /\ pipeline[j] = "recognized" <=> job[j].state = "completed"
        /\ pipeline[j] = "recognition_failed" => job[j].state = "failed"

\* The state keeps its type, and pipelines and jobs agree.
RecognitionConsistent == RecognitionTypeOK /\ PipelinesFollowJobs

\* What an embedding row of a face says, when the face is at a region.
Shows(row, f, region) ==
    /\ row.region = region \/ row.crossed \/ row.undone
    /\ row.job # None => row.bytes = row.job.rev /\ row.region = row.job.regions[f]

\* An embedding is of the bytes of the revision it is stored for and of the region its pipeline
\* froze, however the library, the inventory and the face moved during the attempt, and moved
\* back; and it shows the face as it is, with two exceptions that contradict service/README.md:
\* 1130-1132 (a geometry change supersedes the active embeddings): a correction or an undo fell
\* between the reads of its commit and its writes, or an undo took back the move it was stored
\* after.
EmbeddingsTrue == \A f \in Face : embedding[f] # None => Shows(embedding[f], f, face[f])

\* "A face the recognizer returned as non-embedded must keep its prior active embedding": only a
\* correction of the face leaves it without one.  recognition-job-commit.mjs:249-251.
EmbeddingKept ==
    [][\A f \in Face : embedding[f] # None /\ embedding'[f] = None
                          => face'[f] # face[f]]_recognitionVars

\* The job the scheduler asks for now has been taken away or given up: it is never handed out.
FirstIsStuck ==
    \E a \in Asset :
        /\ IsFirst(a)
        /\ \E j \in Job :
              /\ j = [asset |-> a, rev |-> projection[a].rev, content |-> projection[a].rev,
                      regions |-> [f \in Missing \cap FacesOf(a) |-> face[f]]]
              /\ job[j].state \in {"paused", "failed"}

SourceMoved == \E a \in Asset : projection[a].rev # library[a].rev \/ ~library[a].listed

\* The backlog is worked off: time and again every accepted face of a current photo is recognised,
\* one photo after the other, however often workers die, unless the photo's source has moved or
\* what the scheduler asks for is stuck.
FacesRecognized ==
    []<>(\/ \A f \in accepted : Available(FaceAsset[f]) => Recognized(f)
         \/ SourceMoved \/ FirstIsStuck)
=============================================================================
