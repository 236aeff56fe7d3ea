------------------------ MODULE FaceRecognitionProofs ------------------------
(***************************************************************************)
(* Safety of the recognition of accepted faces for every number of assets, *)
(* faces, regions, revisions, executions and names.  The rows move by the  *)
(* ledger's operators; an execution carries what it has read, and each of  *)
(* its reads ties that to the revision of the library, which only grows;   *)
(* a commit holds the rows of its job, and nothing else.                   *)
(***************************************************************************)
EXTENDS FaceRecognition, MediaJobLedgerProofs

\* Where the scheduler, and where the worker, is at work.
Scheduling == {"selected", "described", "fetched", "prepared"}
Committing == {"checked", "committing"}
HasBytes == {"read", "verified", "recognized"} \cup Committing
HasMetadata == {"redescribed"} \cup HasBytes
HasCrop == {"loaded", "located"} \cup HasMetadata
Working == {"claimed", "bound", "failing", "marking"} \cup HasCrop

\* What an execution carries: the faces and the source of a job to be, or a job, the crop it
\* froze, and bytes that are its content; before the commit, content and revision are the same.
ExecFits(x) ==
    /\ x \in ExecRow
    /\ x.pc \in Scheduling =>
          x.asset \in Asset /\ x.faces \in (SUBSET FacesOf(x.asset)) \ {{}} /\ x.rev \in Revision
    /\ x.pc \in {"fetched", "prepared"} => x.bytes \in Revision
    /\ x.pc \in Working => x.job \in Job
    /\ x.pc \in HasCrop => x.crop = x.job.regions
    /\ x.pc \in HasBytes => x.bytes = x.job.content /\ x.job.rev <= x.job.content
    /\ x.pc \in Committing => x.job.content = x.job.rev

\* The library has reached what the execution has read of it.
Reached(x) ==
    /\ x.pc \in HasMetadata => x.job.rev <= library[x.job.asset].rev
    /\ x.pc \in HasBytes => x.job.content <= library[x.job.asset].rev

\* A commit still has its job, and the faces as it read them, unless a correction crossed it.
CommitHolds(x) ==
    x.pc = "committing" =>
        /\ job[x.job].state = "processing" /\ pipeline[x.job] = "recognition_pending"
        /\ x.crossed \/ \A f \in DOMAIN x.crop : x.crop[f] = face[f]

\* A pipeline is only ever given up when its job is.
MarkHolds(x) == x.pc = "marking" => job[x.job].state = "failed"

ExecHolds(x) == ExecFits(x) /\ Reached(x) /\ CommitHolds(x) /\ MarkHolds(x)

\* The locks of a commit are its own.
CommitsExclusive ==
    \A e, o \in Exec :
        exec[e].pc = "committing" /\ exec[o].pc = "committing" /\ exec[e].job = exec[o].job
            => e = o

ExecsFit ==
    /\ exec = [e \in Exec |-> exec[e]]
    /\ \A e \in Exec : ExecHolds(exec[e])
    /\ CommitsExclusive

WorldFits ==
    /\ library \in [Asset -> [rev : Revision, listed : BOOLEAN]]
    /\ projection \in [Asset -> [rev : Revision, state : {"active", "missing"}]]
    /\ face \in [Face -> Region] /\ accepted \subseteq Face
    /\ head \in [Asset -> [Revision -> Revision \cup {None}]]
    /\ upsets \in 0..MaxUpsets

RowsFit ==
    /\ LedgerInv
    /\ pipeline \in [Job -> {"none", "recognition_pending", "recognized", "recognition_failed"}]
    /\ PipelinesFollowJobs

\* What the snapshot of a move holds is as true of the region before the move.
SnapshotsTrue ==
    \A f \in Face : moved[f] # None /\ moved[f].kept # None =>
        Shows(moved[f].kept, f, moved[f].prior)

EmbeddingsFit ==
    /\ embedding \in [Face -> EmbeddingRow \cup {None}] /\ EmbeddingsTrue
    /\ moved \in [Face -> MoveRow \cup {None}] /\ SnapshotsTrue

RecognitionInv == RowsFit /\ WorldFits /\ ExecsFit /\ EmbeddingsFit

-----------------------------------------------------------------------------
(* Jobs *)

\* The region of each face of a geometry.
LEMMA GeometryParts ==
    ASSUME NEW a, NEW g \in Geometry(a)
    PROVE  /\ DOMAIN g \in (SUBSET FacesOf(a)) \ {{}} /\ DOMAIN g \subseteq Face
           /\ g \in [DOMAIN g -> Region]
  <1>1. PICK faces \in (SUBSET FacesOf(a)) \ {{}} : g \in [faces -> Region]
    BY DEF Geometry
  <1>2. DOMAIN g = faces
    BY <1>1
  <1> QED BY <1>1, <1>2 DEF FacesOf

\* What a work key binds.
LEMMA JobParts ==
    ASSUME RecognitionAssumption, NEW j \in Job
    PROVE  /\ j.asset \in Asset /\ j.rev \in Revision /\ j.content \in Revision
           /\ j.regions \in Geometry(j.asset) /\ AssetOf[j] = j.asset
  <1>1. PICK a \in Asset :
            j \in [asset : {a}, rev : Revision, content : Revision, regions : Geometry(a)]
    BY DEF RecognitionAssumption
  <1>2. j.asset = a /\ j.rev \in Revision /\ j.content \in Revision /\ j.regions \in Geometry(a)
    BY <1>1
  <1>3. AssetOf[j] = j.asset
    BY DEF RecognitionAssumption
  <1> QED BY <1>2, <1>3

\* Faces of an asset, as they are, with a revision and a content make a job.
LEMMA IdentityIsJob ==
    ASSUME RecognitionAssumption, NEW a \in Asset, NEW r \in Revision, NEW c \in Revision,
           NEW faces \in (SUBSET FacesOf(a)) \ {{}}, face \in [Face -> Region]
    PROVE  [asset |-> a, rev |-> r, content |-> c, regions |-> [f \in faces |-> face[f]]] \in Job
  <1> DEFINE g == [f \in faces |-> face[f]]
  <1>1. g \in [faces -> Region]
    BY DEF FacesOf
  <1>2. g \in Geometry(a)
    BY <1>1 DEF Geometry
  <1> HIDE DEF g
  <1>3. [asset |-> a, rev |-> r, content |-> c, regions |-> g] \in
            [asset : {a}, rev : Revision, content : Revision, regions : Geometry(a)]
    BY <1>2
  <1>4. Job = UNION {[asset : {b}, rev : Revision, content : Revision, regions : Geometry(b)] :
                        b \in Asset}
    BY DEF RecognitionAssumption
  <1>5. [asset |-> a, rev |-> r, content |-> c, regions |-> g] \in Job
    BY <1>3, <1>4
  <1> QED BY <1>5 DEF g

\* The faces of a job are faces, and its regions are a crop.
LEMMA JobRegions ==
    ASSUME RecognitionAssumption, NEW j \in Job
    PROVE  /\ DOMAIN j.regions \subseteq Face
           /\ j.regions \in FaceRegions
  <1>1. DOMAIN j.regions \subseteq Face /\ j.regions \in [DOMAIN j.regions -> Region]
    BY JobParts, GeometryParts
  <1> QED BY <1>1 DEF FaceRegions

-----------------------------------------------------------------------------
(* Rows *)

\* A change of a row's state under which its pipeline may stay as it is.
Follows(old, new) ==
    /\ old = "absent" <=> new = "absent"
    /\ old = "completed" <=> new = "completed"
    /\ old = "failed" => new = "failed"

\* If every row does so, pipelines keep following.
LEMMA PipelinesKept ==
    ASSUME RowsFit, LedgerInv', UNCHANGED pipeline,
           \A k \in Job : Follows(job[k].state, job'[k].state)
    PROVE  RowsFit'
  BY DEF RowsFit, PipelinesFollowJobs, Follows

\* What the row operators make of a state.
LEMMA OperatorStates ==
    ASSUME NEW r \in JobRow
    PROVE  /\ \A e : AttemptLost(r, e).state \in {"pending", "failed"}
           /\ \A e : Suspended(r, e).state = "paused"
           /\ \A w : Leased(r, w).state = "processing"
           /\ \A d : Completed(r, d, d).state = "completed"
  BY DEF JobRow, AttemptLost, Suspended, Leased, Completed, Unleased

\* What is known of one row.
LEMMA RowHere ==
    ASSUME RowsFit, NEW k \in Job
    PROVE  job[k] \in JobRow /\ job = [j \in Job |-> job[j]] /\ pipeline = [j \in Job |-> pipeline[j]]
  BY DEF RowsFit, LedgerInv, LedgerTypeOK

\* The sweep of a claim keeps the rest of the table.
LEMMA SweptFollows ==
    ASSUME RowsFit, NEW k \in Job
    PROVE  /\ Follows(job[k].state, Swept[k].state)
           /\ ~LeaseLapsed(job[k]) => Swept[k] = job[k]
           /\ Swept[k] \in JobRow
  <1>1. Swept[k] = IF LeaseLapsed(job[k]) THEN AttemptLost(job[k], "WORKER_LEASE_EXPIRED")
                   ELSE job[k]
    BY DEF Swept
  <1>2. LeaseLapsed(job[k]) => Follows(job[k].state, Swept[k].state)
    BY <1>1, RowHere, OperatorStates DEF LeaseLapsed, Follows
  <1>3. Swept[k] \in JobRow
    BY SweptFits DEF RowsFit, Row
  <1> QED BY <1>1, <1>2, <1>3 DEF Follows

-----------------------------------------------------------------------------
(* Executions *)

\* The executions that stay where they are, when nothing they rely on is taken from them.
LEMMA ExecKept ==
    ASSUME NEW x, ExecHolds(x), RecognitionAssumption,
           \A a \in Asset : library[a].rev \in Revision /\ library'[a].rev \in Revision
                            /\ library[a].rev <= library'[a].rev,
           x.pc = "committing" =>
               /\ job'[x.job].state = "processing" /\ pipeline'[x.job] = "recognition_pending"
               /\ x.crossed \/ \A f \in DOMAIN x.crop : x.crop[f] = face'[f],
           x.pc = "marking" => job'[x.job].state = "failed"
    PROVE  ExecHolds(x)'
  <1>1. ExecFits(x)' /\ CommitHolds(x)' /\ MarkHolds(x)'
    BY DEF ExecHolds, ExecFits, CommitHolds, MarkHolds, ExecRow, ExecPhase, Revision
  <1>2. Reached(x)'
    <2>1. x.pc \in HasMetadata => x.job \in Job
      BY DEF ExecHolds, ExecFits, Working, HasCrop
    <2>2. x.pc \in HasMetadata =>
              x.job.asset \in Asset /\ x.job.rev \in Revision /\ x.job.content \in Revision
      BY <2>1, JobParts
    <2>3. HasBytes \subseteq HasMetadata
      BY DEF HasMetadata
    <2> QED BY <2>2, <2>3 DEF ExecHolds, Reached, Revision
  <1> QED BY <1>1, <1>2 DEF ExecHolds

\* An execution at rest.
LEMMA IdleHolds == ExecFits(Idle) /\ ExecHolds(Idle) /\ Idle.pc = "idle"
  <1>1. ExecFits(Idle)
    BY DEF ExecFits, ExecRow, ExecPhase, Idle, Scheduling, Working, HasCrop, HasMetadata, HasBytes,
       Committing
  <1> QED BY <1>1 DEF ExecHolds, Reached, CommitHolds, MarkHolds, Idle, HasMetadata, HasBytes,
          Committing

\* An execution that goes on keeps what it carries.
LEMMA PcMoves ==
    ASSUME NEW x \in ExecRow, NEW pc \in ExecPhase
    PROVE  LET next == [x EXCEPT !.pc = pc] IN
           /\ next \in ExecRow /\ next.pc = pc
           /\ next.asset = x.asset /\ next.faces = x.faces /\ next.rev = x.rev
           /\ next.bytes = x.bytes /\ next.expected = x.expected /\ next.job = x.job
           /\ next.crop = x.crop /\ next.crossed = x.crossed
  BY DEF ExecRow

\* One that fails has its job, and nothing else.
Failing(x) == [Idle EXCEPT !.pc = "failing", !.job = x.job]

LEMMA FailingHolds ==
    ASSUME NEW x, x.job \in Job
    PROVE  ExecHolds(Failing(x)) /\ Failing(x).pc = "failing"
  <1>1. Failing(x) \in ExecRow
    BY DEF Failing, Idle, ExecRow, ExecPhase
  <1>2. Failing(x).pc = "failing" /\ Failing(x).job = x.job
    BY DEF Failing, Idle
  <1>3. ExecFits(Failing(x))
    BY <1>1, <1>2 DEF ExecFits, Scheduling, Working, HasCrop, HasMetadata, HasBytes, Committing
  <1> QED BY <1>2, <1>3 DEF ExecHolds, Reached, CommitHolds, MarkHolds, HasMetadata, HasBytes,
          Committing

\* One execution moves.
LEMMA OneMoves ==
    ASSUME ExecsFit, NEW e \in Exec, NEW next, exec' = [exec EXCEPT ![e] = next],
           ExecHolds(next)',
           next.pc = "committing" =>
               \A o \in Exec \ {e} : exec[o].pc = "committing" => exec[o].job # next.job,
           \A o \in Exec \ {e} : \A x : x = exec[o] => ExecHolds(x)'
    PROVE  ExecsFit'
  <1>1. /\ exec' = [o \in Exec |-> exec'[o]]
        /\ \A o \in Exec : exec'[o] = IF o = e THEN next ELSE exec[o]
    BY DEF ExecsFit
  <1>2. ASSUME NEW o \in Exec PROVE ExecHolds(exec[o])'
    <2>1. CASE o = e
      BY <1>1, <2>1
    <2>2. CASE o # e
      BY <1>1, <2>2
    <2> QED BY <2>1, <2>2
  <1>3. CommitsExclusive'
    BY <1>1 DEF ExecsFit, CommitsExclusive
  <1> QED BY <1>1, <1>2, <1>3 DEF ExecsFit

\* A step of one execution that only reads.
LEMMA QuietStep ==
    ASSUME RecognitionInv, NEW e \in Exec, NEW next, exec' = [exec EXCEPT ![e] = next],
           ExecHolds(next),
           next.pc = "committing" =>
               \A o \in Exec \ {e} : exec[o].pc = "committing" => exec[o].job # next.job,
           Unchanged
    PROVE  RecognitionInv'
  <1>1. ASSUME NEW x, ExecHolds(x) PROVE ExecHolds(x)'
    BY <1>1 DEF ExecHolds, ExecFits, Reached, CommitHolds, MarkHolds, ExecRow, ExecPhase, Revision,
       Unchanged, ledgerVars, sourceVars, storeVars, FacesOf
  <1>2. ExecsFit'
    BY <1>1, OneMoves DEF RecognitionInv, ExecsFit
  <1>3. RowsFit' /\ WorldFits' /\ EmbeddingsFit'
    BY DEF RecognitionInv, RowsFit, LedgerInv, LedgerTypeOK, RowsConsistent, RetriesBounded,
       PipelinesFollowJobs, WorldFits, EmbeddingsFit, EmbeddingsTrue, SnapshotsTrue, Shows,
       Unchanged, ledgerVars, sourceVars, storeVars
  <1> QED BY <1>2, <1>3 DEF RecognitionInv

\* What is known of an execution.
LEMMA ExecHere ==
    ASSUME RecognitionInv, NEW e \in Exec
    PROVE  ExecHolds(exec[e]) /\ ExecFits(exec[e]) /\ exec[e] \in ExecRow
  BY DEF RecognitionInv, ExecsFit, ExecHolds, ExecFits

\* Failing and ending are quiet.
LEMMA FailsKeeps ==
    ASSUME RecognitionInv, NEW e \in Exec, Mine(e) \in Job, Fails(e), Unchanged
    PROVE  RecognitionInv'
  <1>1. exec' = [exec EXCEPT ![e] = Failing(exec[e])]
    BY DEF Fails, Failing, Mine
  <1> HIDE DEF Failing
  <1> QED BY <1>1, FailingHolds, QuietStep DEF Mine

LEMMA EndsKeeps ==
    ASSUME RecognitionInv, NEW e \in Exec, Ends(e), Unchanged PROVE RecognitionInv'
  BY IdleHolds, QuietStep DEF Ends

-----------------------------------------------------------------------------
(* The scheduler *)

\* Going on.
LEMMA GoesKeeps ==
    ASSUME RecognitionInv, NEW e \in Exec, NEW pc \in ExecPhase \ {"committing"},
           ExecHolds([exec[e] EXCEPT !.pc = pc]), Goes(e, pc), Unchanged
    PROVE  RecognitionInv'
  <1> DEFINE next == [exec[e] EXCEPT !.pc = pc]
  <1>1. exec' = [exec EXCEPT ![e] = next] /\ next.pc # "committing"
    BY ExecHere, PcMoves DEF Goes
  <1> HIDE DEF next
  <1> QED BY <1>1, QuietStep DEF next

\* The scheduler's steps ask nothing of the rows.
LEMMA SchedulingHolds ==
    ASSUME NEW x, ExecFits(x), x.pc \in {"idle", "scheduled"} \cup Scheduling PROVE ExecHolds(x)
  BY DEF ExecHolds, Reached, CommitHolds, MarkHolds, Scheduling, HasMetadata, HasBytes, Committing

\* The faces of the first asset, and its revision.
LEMMA SelectKeeps ==
    ASSUME RecognitionInv, NEW e \in Exec, Select(e) PROVE RecognitionInv'
  <1>1. PICK a \in Asset :
            /\ IsFirst(a)
            /\ exec' = [exec EXCEPT ![e] = [Idle EXCEPT !.pc = "selected", !.asset = a,
                                               !.faces = Missing \cap FacesOf(a),
                                               !.rev = projection[a].rev]]
    BY DEF Select
  <1> DEFINE faces == Missing \cap FacesOf(a)
             next == [Idle EXCEPT !.pc = "selected", !.asset = a, !.faces = faces,
                                  !.rev = projection[a].rev]
  <1>2. faces \in (SUBSET FacesOf(a)) \ {{}}
    <2>1. PICK f \in Missing : FaceAsset[f] = a
      BY <1>1 DEF IsFirst
    <2>2. f \in Face
      BY DEF Missing, RecognitionInv, WorldFits
    <2> QED BY <2>1, <2>2 DEF FacesOf
  <1>3. projection[a].rev \in Revision
    BY DEF RecognitionInv, WorldFits
  <1> HIDE DEF faces
  <1>4. /\ next \in ExecRow /\ next.pc = "selected"
        /\ next.asset = a /\ next.faces = faces /\ next.rev = projection[a].rev
    BY <1>2, <1>3 DEF Idle, ExecRow, ExecPhase, FacesOf
  <1> HIDE DEF next
  <1>5. ExecFits(next)
    BY <1>2, <1>3, <1>4 DEF ExecFits, Working, HasCrop, HasMetadata, HasBytes, Committing
  <1>6. ExecHolds(next)
    BY <1>4, <1>5, SchedulingHolds DEF Scheduling
  <1>7. exec' = [exec EXCEPT ![e] = next]
    BY <1>1 DEF next, faces
  <1>8. Unchanged
    BY DEF Select
  <1> QED BY <1>4, <1>6, <1>7, <1>8, QuietStep

\* The metadata.
LEMMA DescribeSourceKeeps ==
    ASSUME RecognitionInv, NEW e \in Exec, DescribeSource(e) PROVE RecognitionInv'
  <1> DEFINE next == [exec[e] EXCEPT !.pc = "described"]
  <1>1. ExecFits(exec[e]) /\ exec[e] \in ExecRow /\ exec[e].pc = "selected"
    BY ExecHere DEF DescribeSource
  <1>2. ExecHolds(next)
    <2>1. /\ next \in ExecRow /\ next.pc = "described"
          /\ next.asset = exec[e].asset /\ next.faces = exec[e].faces /\ next.rev = exec[e].rev
      BY <1>1 DEF ExecRow, ExecPhase
    <2> HIDE DEF next
    <2>2. ExecFits(next)
      BY <1>1, <2>1 DEF ExecFits, Scheduling, Working, HasCrop, HasMetadata, HasBytes, Committing
    <2> QED BY <2>1, <2>2, SchedulingHolds DEF Scheduling
  <1>3. CASE Goes(e, "described")
    BY <1>2, <1>3, GoesKeeps DEF DescribeSource, ExecPhase
  <1>4. CASE Ends(e)
    BY <1>4, EndsKeeps DEF DescribeSource
  <1> QED BY <1>3, <1>4 DEF DescribeSource

\* The bytes are those of some revision.
LEMMA ReadSourceKeeps ==
    ASSUME RecognitionInv, NEW e \in Exec, ReadSource(e) PROVE RecognitionInv'
  <1> DEFINE a == exec[e].asset
             next == [exec[e] EXCEPT !.pc = "fetched", !.bytes = library[a].rev]
  <1>1. ExecFits(exec[e]) /\ exec[e] \in ExecRow /\ exec[e].pc = "described" /\ Unchanged
    BY ExecHere DEF ReadSource
  <1>2. a \in Asset /\ library[a].rev \in Revision
    BY <1>1 DEF ExecFits, Scheduling, RecognitionInv, WorldFits
  <1>3. CASE Ends(e)
    BY <1>1, <1>3, EndsKeeps
  <1>4. CASE exec' = [exec EXCEPT ![e].pc = "fetched", ![e].bytes = library[a].rev]
    <2>1. exec' = [exec EXCEPT ![e] = next]
      BY <1>4 DEF RecognitionInv, ExecsFit
    <2>2. /\ next \in ExecRow /\ next.pc = "fetched" /\ next.bytes = library[a].rev
          /\ next.asset = exec[e].asset /\ next.faces = exec[e].faces /\ next.rev = exec[e].rev
      BY <1>1, <1>2 DEF ExecRow, ExecPhase
    <2> HIDE DEF next
    <2>3. ExecFits(next)
      BY <1>1, <1>2, <2>2
      DEF ExecFits, Scheduling, Working, HasCrop, HasMetadata, HasBytes, Committing
    <2>4. ExecHolds(next)
      BY <2>2, <2>3, SchedulingHolds DEF Scheduling
    <2> QED BY <1>1, <2>1, <2>2, <2>4, QuietStep
  <1> QED BY <1>3, <1>4 DEF ReadSource

\* What the head is expected to be.
LEMMA PrepareKeeps ==
    ASSUME RecognitionInv, NEW e \in Exec, Prepare(e) PROVE RecognitionInv'
  <1> DEFINE a == exec[e].asset
             expected == head[a][exec[e].rev]
             next == [exec[e] EXCEPT !.pc = "prepared", !.expected = expected]
  <1>1. ExecFits(exec[e]) /\ exec[e] \in ExecRow /\ exec[e].pc = "fetched" /\ Unchanged
    BY ExecHere DEF Prepare
  <1>2. expected \in Revision \cup {None}
    BY <1>1 DEF ExecFits, Scheduling, RecognitionInv, WorldFits
  <1>3. CASE Ends(e)
    BY <1>1, <1>3, EndsKeeps
  <1>4. CASE exec' = [exec EXCEPT ![e].pc = "prepared", ![e].expected = expected]
    <2>1. exec' = [exec EXCEPT ![e] = next]
      BY <1>4 DEF RecognitionInv, ExecsFit
    <2> HIDE DEF expected
    <2>2. /\ next \in ExecRow /\ next.pc = "prepared" /\ next.bytes = exec[e].bytes
          /\ next.asset = exec[e].asset /\ next.faces = exec[e].faces /\ next.rev = exec[e].rev
      BY <1>1, <1>2 DEF ExecRow, ExecPhase
    <2> HIDE DEF next
    <2>3. ExecFits(next)
      BY <1>1, <1>2, <2>2
      DEF ExecFits, Scheduling, Working, HasCrop, HasMetadata, HasBytes, Committing
    <2>4. ExecHolds(next)
      BY <2>2, <2>3, SchedulingHolds DEF Scheduling
    <2> QED BY <1>1, <2>1, <2>2, <2>4, QuietStep
  <1> QED BY <1>3, <1>4 DEF Prepare

-----------------------------------------------------------------------------
(* The worker's reads *)

\* Places that ask nothing of the rows.
Unlocked == ExecPhase \ {"committing", "marking"}

\* An execution that goes on and still carries what its place requires.
LEMMA ReadOn ==
    ASSUME NEW x, ExecHolds(x), NEW pc \in Unlocked,
           pc \in Scheduling => x.pc \in Scheduling,
           pc \notin {"fetched", "prepared"},
           pc \in Working => x.pc \in Working,
           pc \in HasCrop => x.pc \in HasCrop,
           pc \in HasMetadata => x.pc \in HasMetadata \/ x.job.rev <= library[x.job.asset].rev,
           pc \in HasBytes => x.pc \in HasBytes,
           pc \in Committing => x.job.content = x.job.rev
    PROVE  ExecHolds([x EXCEPT !.pc = pc])
  <1> DEFINE next == [x EXCEPT !.pc = pc]
  <1>1. x \in ExecRow /\ ExecFits(x) /\ Reached(x)
    BY DEF ExecHolds, ExecFits
  <1>2. /\ next \in ExecRow /\ next.pc = pc
        /\ next.asset = x.asset /\ next.faces = x.faces /\ next.rev = x.rev
        /\ next.bytes = x.bytes /\ next.expected = x.expected /\ next.job = x.job
        /\ next.crop = x.crop /\ next.crossed = x.crossed
    BY <1>1, PcMoves DEF Unlocked
  <1> HIDE DEF next
  <1>3. ExecFits(next)
    BY <1>1, <1>2 DEF ExecFits
  <1>4. Reached(next)
    BY <1>1, <1>2 DEF Reached
  <1>5. CommitHolds(next) /\ MarkHolds(next)
    BY <1>2 DEF CommitHolds, MarkHolds, Unlocked
  <1>6. ExecHolds(next)
    BY <1>3, <1>4, <1>5 DEF ExecHolds
  <1> QED BY <1>6 DEF next

\* An execution at work has a job.
LEMMA MineHere ==
    ASSUME RecognitionAssumption, RecognitionInv, NEW e \in Exec, exec[e].pc \in Working
    PROVE  /\ Mine(e) \in Job
           /\ Mine(e).asset \in Asset /\ Mine(e).rev \in Revision /\ Mine(e).content \in Revision
           /\ library[Mine(e).asset].rev \in Revision
  <1>1. Mine(e) \in Job
    BY ExecHere DEF ExecFits, Mine
  <1> QED BY <1>1, JobParts DEF RecognitionInv, WorldFits

\* A read that found what the job binds, or a failure.
LEMMA StepKeepsInv ==
    ASSUME RecognitionAssumption, RecognitionInv, NEW e \in Exec,
           NEW from \in Working, NEW to \in Working \cap Unlocked, NEW found \in BOOLEAN,
           Step(e, from, to, found),
           found => ExecHolds([exec[e] EXCEPT !.pc = to])
    PROVE  RecognitionInv'
  <1>1. exec[e].pc = from /\ Unchanged /\ (IF found THEN Goes(e, to) ELSE Fails(e))
    BY DEF Step
  <1>2. CASE found
    BY <1>1, <1>2, GoesKeeps DEF Unlocked
  <1>3. CASE ~found
    BY <1>1, <1>3, FailsKeeps, MineHere
  <1> QED BY <1>2, <1>3

\* The reads that only look: of the pipeline, of the projection, of the recogniser's two answers.
LEMMA LookingKeeps ==
    ASSUME RecognitionAssumption, RecognitionInv, NEW e \in Exec,
           LoadPipeline(e) \/ LocateSource(e) \/ RecognizeTwice(e)
    PROVE  RecognitionInv'
  <1> USE DEF Scheduling, Committing, HasBytes, HasMetadata, HasCrop, Working
  <1>1. ASSUME NEW from \in Working, NEW to \in {"bound", "located", "recognized"},
               to = "located" => from = "loaded", to = "recognized" => from = "verified",
               NEW found \in BOOLEAN, Step(e, from, to, found)
        PROVE  RecognitionInv'
    <2>1. exec[e].pc = from
      BY <1>1 DEF Step
    <2>2. to \in Working \cap Unlocked /\ to \in Unlocked
      BY DEF Unlocked, ExecPhase
    <2>3. ExecHolds([exec[e] EXCEPT !.pc = to])
      BY <1>1, <2>1, <2>2, ExecHere, ReadOn
    <2> QED BY <1>1, <2>2, <2>3, StepKeepsInv
  <1>2. CASE LoadPipeline(e)
    <2> DEFINE found == pipeline[Mine(e)] = "recognition_pending" /\ HeadIs(Mine(e))
    <2>1. Step(e, "claimed", "bound", found) /\ found \in BOOLEAN
      BY <1>2 DEF LoadPipeline, HeadIs
    <2> HIDE DEF found
    <2> QED BY <1>1, <2>1
  <1>3. CASE LocateSource(e)
    <2> DEFINE found == Current(Mine(e))
    <2>1. Step(e, "loaded", "located", found) /\ found \in BOOLEAN
      BY <1>3 DEF LocateSource, Current
    <2> HIDE DEF found
    <2> QED BY <1>1, <2>1
  <1>4. CASE RecognizeTwice(e)
    BY <1>1, <1>4 DEF RecognizeTwice
  <1> QED BY <1>2, <1>3, <1>4

\* The crop is what the job froze.
LEMMA LoadFacesKeeps ==
    ASSUME RecognitionAssumption, RecognitionInv, NEW e \in Exec, LoadFaces(e)
    PROVE  RecognitionInv'
  <1> DEFINE j == Mine(e)
             next == [exec[e] EXCEPT !.pc = "loaded", !.crop = Crop(j)]
  <1> USE DEF Scheduling, Committing, HasBytes, HasMetadata, HasCrop, Working
  <1>1. exec[e].pc = "bound" /\ Unchanged /\ j \in Job /\ exec[e] \in ExecRow
    BY MineHere, ExecHere DEF LoadFaces
  <1>2. CASE Crop(j) = j.regions
    <2>1. exec' = [exec EXCEPT ![e] = next]
      BY <1>2 DEF LoadFaces, RecognitionInv, ExecsFit
    <2>2. Crop(j) \in FaceRegions
      BY <1>1, <1>2, JobRegions
    <2>3. /\ next \in ExecRow /\ next.pc = "loaded" /\ next.job = j /\ next.crop = j.regions
      BY <1>1, <1>2, <2>2 DEF ExecRow, ExecPhase, Mine
    <2> HIDE DEF next
    <2>4. ExecHolds(next)
      BY <1>1, <2>3 DEF ExecHolds, ExecFits, Reached, CommitHolds, MarkHolds
    <2> QED BY <1>1, <2>1, <2>3, <2>4, QuietStep
  <1>3. CASE Crop(j) # j.regions
    BY <1>1, <1>3, FailsKeeps DEF LoadFaces
  <1> QED BY <1>2, <1>3

\* The metadata is of the job's revision.
LEMMA DescribeAgainKeeps ==
    ASSUME RecognitionAssumption, RecognitionInv, NEW e \in Exec, DescribeAgain(e)
    PROVE  RecognitionInv'
  <1> DEFINE found == Describes(Mine(e).asset, Mine(e).rev)
  <1> USE DEF Scheduling, Committing, HasBytes, HasMetadata, HasCrop, Working
  <1>1. Step(e, "located", "redescribed", found) /\ exec[e].pc = "located"
    BY DEF DescribeAgain, Step
  <1>2. /\ "redescribed" \in Unlocked /\ "redescribed" \in Working \cap Unlocked
        /\ "located" \in Working /\ found \in BOOLEAN
    BY DEF Unlocked, ExecPhase, Describes
  <1>3. ASSUME found PROVE ExecHolds([exec[e] EXCEPT !.pc = "redescribed"])
    <2>1. exec[e].job.rev <= library[exec[e].job.asset].rev
      BY <1>1, <1>3, MineHere DEF Describes, Mine, Revision
    <2> QED BY <1>1, <1>2, <2>1, ExecHere, ReadOn
  <1> HIDE DEF found
  <1> QED BY <1>1, <1>2, <1>3, StepKeepsInv

\* The bytes are the job's content, and no older than the metadata.
LEMMA ReadBytesKeeps ==
    ASSUME RecognitionAssumption, RecognitionInv, NEW e \in Exec, ReadBytes(e)
    PROVE  RecognitionInv'
  <1> DEFINE j == Mine(e)
             now == library[j.asset].rev
             next == [exec[e] EXCEPT !.pc = "read", !.bytes = now]
  <1> USE DEF Scheduling, Committing, HasBytes, HasMetadata, HasCrop, Working
  <1>1. /\ exec[e].pc = "redescribed" /\ Unchanged /\ j \in Job /\ exec[e] \in ExecRow
        /\ now \in Revision /\ j.rev \in Revision /\ j.content \in Revision
    BY MineHere, ExecHere DEF ReadBytes
  <1>2. j.rev <= now /\ exec[e].crop = j.regions
    BY <1>1, ExecHere DEF ExecHolds, ExecFits, Reached, Mine
  <1>3. CASE library[j.asset].listed /\ now = j.content
    <2>1. exec' = [exec EXCEPT ![e] = next]
      BY <1>3 DEF ReadBytes, RecognitionInv, ExecsFit
    <2>2. /\ next \in ExecRow /\ next.pc = "read" /\ next.job = j /\ next.crop = j.regions
          /\ next.bytes = j.content
      BY <1>1, <1>2, <1>3 DEF ExecRow, ExecPhase, Mine
    <2> HIDE DEF next
    <2>3. ExecFits(next)
      BY <1>1, <1>2, <1>3, <2>2 DEF ExecFits
    <2>4. Reached(next)
      BY <1>1, <1>2, <1>3, <2>2 DEF Reached, Revision
    <2>5. ExecHolds(next)
      BY <2>2, <2>3, <2>4 DEF ExecHolds, CommitHolds, MarkHolds
    <2> QED BY <1>1, <2>1, <2>2, <2>5, QuietStep
  <1>4. CASE ~(library[j.asset].listed /\ now = j.content)
    BY <1>1, <1>4, FailsKeeps DEF ReadBytes
  <1> QED BY <1>3, <1>4

\* The library has not moved past the content, and the content is no older than the revision:
\* they are the same.
LEMMA CheckSourceKeeps ==
    ASSUME RecognitionAssumption, RecognitionInv, NEW e \in Exec, CheckSource(e)
    PROVE  RecognitionInv'
  <1> DEFINE j == Mine(e)
             found == Current(j) /\ Describes(j.asset, j.rev)
  <1> USE DEF Scheduling, Committing, HasBytes, HasMetadata, HasCrop, Working
  <1>1. Step(e, "recognized", "checked", found) /\ exec[e].pc = "recognized"
    BY DEF CheckSource, Step
  <1>2. /\ "checked" \in Unlocked /\ "checked" \in Working \cap Unlocked
        /\ "recognized" \in Working /\ found \in BOOLEAN
    BY DEF Unlocked, ExecPhase
  <1>3. ASSUME found PROVE ExecHolds([exec[e] EXCEPT !.pc = "checked"])
    <2>1. /\ exec[e].job.rev <= exec[e].job.content
          /\ exec[e].job.content <= library[exec[e].job.asset].rev
      BY <1>1, ExecHere DEF ExecHolds, ExecFits, Reached
    <2>2. exec[e].job.content = exec[e].job.rev
      BY <1>1, <1>3, <2>1, MineHere DEF Describes, Mine, Revision
    <2> QED BY <1>1, <1>2, <2>2, ExecHere, ReadOn
  <1> HIDE DEF found
  <1> QED BY <1>1, <1>2, <1>3, StepKeepsInv

-----------------------------------------------------------------------------
(* Steps that write rows *)

\* What commits and marks rely on: a locked job is at work, and stays so with its pipeline; a job
\* that has failed has failed.
LocksRespected(k) ==
    /\ Locked(k) => job'[k].state = "processing" /\ pipeline'[k] = "recognition_pending"
    /\ job[k].state = "failed" => job'[k].state = "failed"

\* The executions under a step that leaves library and faces alone and respects the locks.
LEMMA OthersHold ==
    ASSUME RecognitionAssumption, RecognitionInv, UNCHANGED <<library, face>>,
           \A k \in Job : LocksRespected(k), NEW o \in Exec, NEW x, x = exec[o]
    PROVE  ExecHolds(x)'
  <1>1. ExecHolds(x) /\ ExecFits(x)
    BY ExecHere
  <1>2. \A a \in Asset : library[a].rev \in Revision /\ library'[a].rev \in Revision
                         /\ library[a].rev <= library'[a].rev
    BY DEF RecognitionInv, WorldFits, Revision
  <1>3. x.pc = "committing" =>
            /\ job'[x.job].state = "processing" /\ pipeline'[x.job] = "recognition_pending"
            /\ x.crossed \/ \A f \in DOMAIN x.crop : x.crop[f] = face'[f]
    <2> SUFFICES ASSUME x.pc = "committing"
                 PROVE  /\ job'[x.job].state = "processing"
                        /\ pipeline'[x.job] = "recognition_pending"
                        /\ x.crossed \/ \A f \in DOMAIN x.crop : x.crop[f] = face'[f]
      OBVIOUS
    <2>1. x.job \in Job /\ Locked(x.job)
      BY <1>1 DEF ExecFits, Working, HasCrop, HasMetadata, HasBytes, Committing, Locked
    <2>2. x.crossed \/ \A f \in DOMAIN x.crop : x.crop[f] = face'[f]
      BY <1>1 DEF ExecHolds, CommitHolds
    <2> QED BY <2>1, <2>2 DEF LocksRespected
  <1>4. x.pc = "marking" => job'[x.job].state = "failed"
    BY <1>1 DEF ExecHolds, ExecFits, MarkHolds, Working, LocksRespected
  <1> QED BY <1>1, <1>2, <1>3, <1>4, ExecKept

\* Such a step of one execution.
LEMMA RowStepOfOne ==
    ASSUME RecognitionAssumption, RecognitionInv, UNCHANGED <<library, face>>,
           \A k \in Job : LocksRespected(k),
           NEW e \in Exec, NEW next, exec' = [exec EXCEPT ![e] = next],
           ExecHolds(next)', next.pc # "committing",
           RowsFit', WorldFits', EmbeddingsFit'
    PROVE  RecognitionInv'
  <1>1. \A o \in Exec \ {e} : \A x : x = exec[o] => ExecHolds(x)'
    BY OthersHold
  <1>2. ExecsFit'
    BY <1>1, OneMoves DEF RecognitionInv
  <1> QED BY <1>2 DEF RecognitionInv

\* And of nobody: inventory and the clock.
LEMMA RowStepOfNone ==
    ASSUME RecognitionAssumption, RecognitionInv, UNCHANGED <<library, face, exec>>,
           \A k \in Job : LocksRespected(k),
           RowsFit', WorldFits', EmbeddingsFit'
    PROVE  RecognitionInv'
  <1>1. ASSUME NEW o \in Exec PROVE ExecHolds(exec[o])'
    <2> DEFINE x == exec[o]
    <2>1. ExecHolds(x)'
      BY OthersHold
    <2> QED BY <2>1
  <1>2. ExecsFit'
    BY <1>1 DEF RecognitionInv, ExecsFit, CommitsExclusive
  <1> QED BY <1>2 DEF RecognitionInv

\* What is outside of the rows stays.
LEMMA WorldKept ==
    ASSUME RecognitionInv, UNCHANGED <<sourceVars, head, upsets>> PROVE WorldFits'
  BY DEF RecognitionInv, WorldFits, sourceVars

LEMMA EmbeddingsKept ==
    ASSUME RecognitionInv, UNCHANGED <<face, moved, embedding>> PROVE EmbeddingsFit'
  BY DEF RecognitionInv, EmbeddingsFit, EmbeddingsTrue, SnapshotsTrue, Shows

\* A locked job is at work.
LEMMA LockedHere ==
    ASSUME RecognitionInv, NEW k, Locked(k)
    PROVE  k \in Job /\ job[k].state = "processing" /\ pipeline[k] = "recognition_pending"
  <1>1. PICK e \in Exec : exec[e].pc = "committing" /\ exec[e].job = k
    BY DEF Locked
  <1> QED BY <1>1, ExecHere
          DEF ExecHolds, ExecFits, CommitHolds, Working, HasCrop, HasMetadata, HasBytes, Committing

\* Rows that are written are not locked, and do not leave a final state.
LEMMA LocksKept ==
    ASSUME RecognitionInv, NEW k \in Job, UNCHANGED pipeline,
           job'[k] # job[k] => ~Locked(k) /\ Follows(job[k].state, job'[k].state)
    PROVE  LocksRespected(k) /\ Follows(job[k].state, job'[k].state)
  BY LockedHere DEF LocksRespected, Follows

\* A step that writes rows, and no pipeline: those it writes are not locked and follow.
LEMMA OnlyRows ==
    ASSUME RecognitionAssumption, RecognitionInv, LedgerInv',
           UNCHANGED <<sourceVars, storeVars, upsets>>,
           \A k \in Job :
               job'[k] # job[k] => ~Locked(k) /\ Follows(job[k].state, job'[k].state)
    PROVE  /\ \A k \in Job : LocksRespected(k)
           /\ RowsFit' /\ WorldFits' /\ EmbeddingsFit'
           /\ UNCHANGED <<library, face>>
  <1>1. \A k \in Job : LocksRespected(k) /\ Follows(job[k].state, job'[k].state)
    BY LocksKept DEF storeVars
  <1>2. RowsFit'
    BY <1>1, PipelinesKept DEF RecognitionInv, storeVars
  <1>3. UNCHANGED <<sourceVars, head, upsets>> /\ UNCHANGED <<face, moved, embedding>>
    BY DEF sourceVars, storeVars
  <1>4. WorldFits' /\ EmbeddingsFit'
    BY <1>3, WorldKept, EmbeddingsKept
  <1>5. UNCHANGED <<library, face>>
    BY DEF sourceVars
  <1> QED BY <1>1, <1>2, <1>4, <1>5

\* An execution that rests relies on nothing, before and after any step.
LEMMA RestingHolds ==
    ASSUME NEW x \in ExecRow, x.pc \in {"idle", "scheduled"} PROVE ExecHolds(x)'
  <1>1. ExecFits(x)
    BY DEF ExecFits, Scheduling, Working, HasCrop, HasMetadata, HasBytes, Committing
  <1>2. ExecFits(x)'
    BY <1>1 DEF ExecFits, ExecRow, ExecPhase, Revision, FacesOf
  <1>3. Reached(x)' /\ CommitHolds(x)' /\ MarkHolds(x)'
    BY DEF Reached, CommitHolds, MarkHolds, HasMetadata, HasBytes, Committing
  <1> QED BY <1>2, <1>3 DEF ExecHolds

\* A pipeline is asked for: it is new with its job, or there already.
LEMMA EnqueuePipelineKeeps ==
    ASSUME RecognitionAssumption, RecognitionInv, NEW e \in Exec, EnqueuePipeline(e)
    PROVE  RecognitionInv'
  <1> DEFINE j == Identity(e)
             next == IF pipeline[j] = "recognized" THEN Idle ELSE [Idle EXCEPT !.pc = "scheduled"]
  <1>1. j \in Job /\ j.asset \in Asset /\ j.rev \in Revision /\ j.content \in Revision
    <2>1. /\ exec[e].asset \in Asset /\ exec[e].rev \in Revision /\ exec[e].bytes \in Revision
          /\ exec[e].faces \in (SUBSET FacesOf(exec[e].asset)) \ {{}}
      BY ExecHere DEF EnqueuePipeline, ExecFits, Scheduling
    <2>2. j \in Job
      BY <2>1, IdentityIsJob DEF Identity, RecognitionInv, WorldFits
    <2> QED BY <2>2, JobParts
  <1>2. CASE Ends(e) /\ Unchanged
    BY <1>2, EndsKeeps
  <1>3. CASE /\ ~Locked(j)
             /\ head' = [head EXCEPT ![j.asset][j.rev] = j.content]
             /\ \/ /\ pipeline[j] = "none"
                   /\ Enqueue(j, MaxAttempts)
                   /\ pipeline' = [pipeline EXCEPT ![j] = "recognition_pending"]
                \/ /\ pipeline[j] # "none"
                   /\ UNCHANGED <<ledgerVars, pipeline>>
             /\ exec' = [exec EXCEPT ![e] = next]
             /\ UNCHANGED <<sourceVars, embedding, upsets>>
    <2>0. PICK x : x = next
      OBVIOUS
    <2>1. x \in ExecRow /\ x.pc \in {"idle", "scheduled"}
      <3>1. Idle \in ExecRow /\ Idle.pc = "idle"
        BY IdleHolds DEF ExecFits
      <3> QED BY <2>0, <3>1 DEF ExecRow, ExecPhase
    <2> HIDE DEF next, j
    <2>2. exec' = [exec EXCEPT ![e] = x] /\ ExecHolds(x)' /\ x.pc # "committing"
      BY <1>3, <2>0, <2>1, RestingHolds
    <2>3. WorldFits'
      <3>1. head' \in [Asset -> [Revision -> Revision \cup {None}]]
        <4>1. head \in [Asset -> [Revision -> Revision \cup {None}]]
          BY DEF RecognitionInv, WorldFits
        <4> QED BY <1>1, <1>3, <4>1
      <3> QED BY <1>3, <3>1 DEF RecognitionInv, WorldFits, sourceVars
    <2>4. EmbeddingsFit' /\ UNCHANGED <<library, face>>
      BY <1>3, EmbeddingsKept DEF sourceVars
    <2>5. CASE /\ pipeline[j] # "none"
               /\ UNCHANGED <<ledgerVars, pipeline>>
      <3>1. \A k \in Job : LocksRespected(k)
        BY <2>5, LockedHere DEF LocksRespected, ledgerVars
      <3>2. RowsFit'
        BY <2>5 DEF RecognitionInv, RowsFit, LedgerInv, LedgerTypeOK, RowsConsistent,
           RetriesBounded, PipelinesFollowJobs, ledgerVars
      <3> QED BY <2>2, <2>3, <2>4, <3>1, <3>2, RowStepOfOne
    <2>6. CASE /\ pipeline[j] = "none"
               /\ Enqueue(j, MaxAttempts)
               /\ pipeline' = [pipeline EXCEPT ![j] = "recognition_pending"]
      <3>1. LedgerInv'
        BY <1>1, <2>6, EnqueueKeeps DEF RecognitionAssumption, RecognitionInv, RowsFit
      <3>2. job[j].state = "absent" /\ RowsFit
        BY <1>1, <2>6 DEF RecognitionInv, RowsFit, PipelinesFollowJobs
      <3>3. job' = [job EXCEPT ![j] = NewRow(MaxAttempts)]
        <4>1. EnqueuedRow(j, MaxAttempts) = NewRow(MaxAttempts)
          BY <3>2 DEF EnqueuedRow, ReceiptMismatched
        <4> QED BY <2>6, <4>1 DEF Enqueue
      <3>4. NewRow(MaxAttempts).state = "pending"
        BY DEF NewRow, NoRow
      <3>5. ASSUME NEW k \in Job
            PROVE  /\ k = j => job'[k].state = "pending" /\ pipeline'[k] = "recognition_pending"
                   /\ k # j => job'[k] = job[k] /\ pipeline'[k] = pipeline[k]
        BY <1>1, <2>6, <3>2, <3>3, <3>4, RowHere
      <3>6. \A k \in Job : LocksRespected(k)
        BY <1>3, <3>2, <3>5, LockedHere DEF LocksRespected
      <3>7. RowsFit'
        <4>1. pipeline' \in
                  [Job -> {"none", "recognition_pending", "recognized", "recognition_failed"}]
          BY <1>1, <2>6, <3>2 DEF RowsFit
        <4>2. PipelinesFollowJobs'
          BY <3>2, <3>5 DEF RowsFit, PipelinesFollowJobs
        <4> QED BY <3>1, <4>1, <4>2 DEF RowsFit
      <3> QED BY <2>2, <2>3, <2>4, <3>6, <3>7, RowStepOfOne
    <2> QED BY <1>3, <2>5, <2>6
  <1> QED BY <1>2, <1>3 DEF EnqueuePipeline

\* The sweep leaves the rows of commits alone, as it waits for them.
LEMMA SweepSpares ==
    ASSUME RecognitionInv, SweepPasses, NEW k \in Job
    PROVE  /\ Locked(k) => Swept[k] = job[k] /\ k \notin Claimable
           /\ Follows(job[k].state, Swept[k].state)
  <1>1. RowsFit
    BY DEF RecognitionInv
  <1>2. Locked(k) => Swept[k] = job[k] /\ job[k].state = "processing"
    BY <1>1, SweptFollows, LockedHere DEF SweepPasses
  <1> QED BY <1>1, <1>2, SweptFollows DEF Claimable

\* A job that is claimed is at rest, and in the state it is left in after.
LEMMA ClaimJobKeeps ==
    ASSUME RecognitionAssumption, RecognitionInv, NEW e \in Exec, ClaimJob(e)
    PROVE  RecognitionInv'
  <1>1. PICK j \in ClaimableHere :
            /\ ClaimProviderJob(Name(e), j)
            /\ exec' = [exec EXCEPT ![e] = [Idle EXCEPT !.pc = "claimed", !.job = j]]
    BY DEF ClaimJob
  <1> DEFINE next == [Idle EXCEPT !.pc = "claimed", !.job = j]
  <1>2. j \in Job /\ j \in Claimable /\ Swept[j].state = "pending"
    BY <1>1 DEF ClaimableHere, Claimable
  <1>3. /\ next \in ExecRow /\ next.pc = "claimed" /\ next.job = j
    BY <1>2 DEF Idle, ExecRow, ExecPhase
  <1>4. /\ SweepPasses /\ UNCHANGED <<sourceVars, storeVars, upsets>>
        /\ exec' = [exec EXCEPT ![e] = next]
    BY <1>1 DEF ClaimJob
  <1> HIDE DEF next
  <1>5. ExecHolds(next)
    BY <1>2, <1>3 DEF ExecHolds, ExecFits, Reached, CommitHolds, MarkHolds, Scheduling, Working,
       HasCrop, HasMetadata, HasBytes, Committing
  <1>6. LedgerInv'
    <2>1. Name(e) \in Worker
      BY DEF Name, RecognitionAssumption
    <2> QED BY <1>1, <1>2, <2>1, ClaimKeeps DEF RecognitionInv, RowsFit
  <1>7. ASSUME NEW k \in Job
        PROVE  job'[k] # job[k] => ~Locked(k) /\ Follows(job[k].state, job'[k].state)
    <2>1. Follows(job[k].state, Swept[k].state) /\ (Locked(k) => Swept[k] = job[k] /\ k # j)
      BY <1>2, <1>4, SweepSpares
    <2>2. job'[k] = IF k = j THEN Leased(Swept[j], Name(e)) ELSE Swept[k]
      BY <1>1 DEF ClaimProviderJob, Swept
    <2>3. Leased(Swept[j], Name(e)).state = "processing"
      BY <1>2, SweptFollows, OperatorStates DEF RecognitionInv
    <2>4. CASE k = j
      BY <1>2, <2>1, <2>2, <2>3, <2>4 DEF Follows
    <2>5. CASE k # j
      BY <2>1, <2>2, <2>5
    <2> QED BY <2>4, <2>5
  <1>8. /\ \A k \in Job : LocksRespected(k)
        /\ RowsFit' /\ WorldFits' /\ EmbeddingsFit'
        /\ UNCHANGED <<library, face>>
    BY <1>4, <1>6, <1>7, OnlyRows
  <1>9. ExecHolds(next)'
    BY <1>3, <1>5 DEF ExecHolds, ExecFits, Reached, CommitHolds, MarkHolds, ExecRow, ExecPhase,
       Revision, FacesOf, Scheduling, Working, HasCrop, HasMetadata, HasBytes, Committing
  <1> QED BY <1>3, <1>4, <1>8, <1>9, RowStepOfOne

\* A sweep, and nothing to do.
LEMMA FindNoJobKeeps ==
    ASSUME RecognitionAssumption, RecognitionInv, NEW e \in Exec, FindNoJob(e)
    PROVE  RecognitionInv'
  <1>1. /\ SweepPasses /\ job' = Swept /\ UNCHANGED <<sourceVars, storeVars, upsets>>
        /\ UNCHANGED <<asset, receipt, requeued>> /\ exec' = [exec EXCEPT ![e] = Idle]
    BY DEF FindNoJob, Ends
  <1>2. LedgerInv'
    <2>1. job' = [k \in Job |-> job'[k]] /\ \A k \in Job : Row(job'[k], requeued[k])
      BY <1>1, SweptFits DEF Swept, RecognitionInv, RowsFit
    <2> QED BY <1>1, <2>1, RowsStep DEF RecognitionInv, RowsFit
  <1>3. \A k \in Job : job'[k] # job[k] => ~Locked(k) /\ Follows(job[k].state, job'[k].state)
    BY <1>1, SweepSpares
  <1>4. /\ \A k \in Job : LocksRespected(k)
        /\ RowsFit' /\ WorldFits' /\ EmbeddingsFit'
        /\ UNCHANGED <<library, face>>
    BY <1>1, <1>2, <1>3, OnlyRows
  <1>5. PICK x : x = Idle
    OBVIOUS
  <1>6. ExecHolds(x)' /\ x.pc # "committing" /\ exec' = [exec EXCEPT ![e] = x]
    BY <1>1, <1>5, IdleHolds, RestingHolds DEF ExecFits
  <1> QED BY <1>4, <1>6, RowStepOfOne

\* A row that is written alone.
LEMMA OneRowWritten ==
    ASSUME RecognitionAssumption, RecognitionInv, NEW j \in Job, ~Locked(j), NEW row,
           job' = [job EXCEPT ![j] = row], Row(row, requeued[j]),
           Follows(job[j].state, row.state),
           UNCHANGED <<asset, receipt, requeued, sourceVars, storeVars, upsets>>
    PROVE  /\ \A k \in Job : LocksRespected(k)
           /\ RowsFit' /\ WorldFits' /\ EmbeddingsFit'
           /\ UNCHANGED <<library, face>>
  <1>1. LedgerInv'
    BY OneRowStep DEF RecognitionInv, RowsFit
  <1>2. job = [k \in Job |-> job[k]]
    BY RowHere DEF RecognitionInv
  <1>3. \A k \in Job : job'[k] # job[k] => ~Locked(k) /\ Follows(job[k].state, job'[k].state)
    BY <1>2
  <1> QED BY <1>1, <1>3, OnlyRows

\* The first checkpoint.
LEMMA VerifyInventoryKeeps ==
    ASSUME RecognitionAssumption, RecognitionInv, NEW e \in Exec, VerifyInventory(e)
    PROVE  RecognitionInv'
  <1> DEFINE j == Mine(e)
  <1> USE DEF Scheduling, Committing, HasBytes, HasMetadata, HasCrop, Working
  <1>1. exec[e].pc = "read" /\ ~Locked(j) /\ j \in Job
    BY MineHere DEF VerifyInventory
  <1>2. CASE Fails(e) /\ UNCHANGED ledgerVars /\ UNCHANGED <<sourceVars, storeVars, upsets>>
    BY <1>1, <1>2, FailsKeeps DEF Unchanged
  <1>3. CASE /\ Checkpoint(Name(e), j, InventoryVerified) /\ Goes(e, "verified")
             /\ UNCHANGED <<sourceVars, storeVars, upsets>>
    <2> DEFINE row == [job[j] EXCEPT !.stage = InventoryVerified]
               next == [exec[e] EXCEPT !.pc = "verified"]
    <2>1. job' = [job EXCEPT ![j] = row] /\ job[j].state = "processing"
      BY <1>3 DEF Checkpoint, LeaseCurrent, LeaseNamed
    <2>2. Row(row, requeued[j])
      <3>1. InventoryVerified \in Stage
        BY DEF InventoryVerified, Stage
      <3> QED BY <1>1, <2>1, <3>1, RowFits, LeasedRowFits DEF RecognitionInv, RowsFit
    <2>3. Follows(job[j].state, row.state)
      BY <1>1, RowHere DEF JobRow, Follows, RecognitionInv
    <2>4. UNCHANGED <<asset, receipt, requeued>>
      BY <1>3 DEF Checkpoint
    <2> HIDE DEF row
    <2>5. /\ \A k \in Job : LocksRespected(k)
          /\ RowsFit' /\ WorldFits' /\ EmbeddingsFit'
          /\ UNCHANGED <<library, face>>
      BY <1>1, <1>3, <2>1, <2>2, <2>3, <2>4, OneRowWritten
    <2>6. exec' = [exec EXCEPT ![e] = next]
      BY <1>3 DEF Goes
    <2>7. ExecHolds(next) /\ next.pc = "verified"
      <3>1. "verified" \in Unlocked
        BY DEF Unlocked, ExecPhase
      <3>2. ExecHolds(next)
        BY <1>1, <3>1, ExecHere, ReadOn
      <3> QED BY <3>2, ExecHere, PcMoves DEF ExecPhase
    <2> HIDE DEF next
    <2>8. PICK x : x = next
      OBVIOUS
    <2>9. ExecHolds(x)'
      BY <2>5, <2>7, <2>8 DEF ExecHolds, ExecFits, Reached, CommitHolds, MarkHolds, ExecRow,
         ExecPhase, Revision, FacesOf
    <2> QED BY <2>5, <2>6, <2>7, <2>8, <2>9, RowStepOfOne
  <1> QED BY <1>2, <1>3 DEF VerifyInventory

-----------------------------------------------------------------------------
(* The commit *)

\* It reads the rows under its locks, which nobody else has.
LEMMA CommitReadsKeeps ==
    ASSUME RecognitionAssumption, RecognitionInv, NEW e \in Exec, CommitReads(e)
    PROVE  RecognitionInv'
  <1> DEFINE j == Mine(e)
             found == /\ LeaseCurrent(job[j], Name(e))
                      /\ pipeline[j] = "recognition_pending"
                      /\ HeadIs(j) /\ Crop(j) = j.regions
             next == [exec[e] EXCEPT !.pc = "committing"]
  <1> USE DEF Scheduling, Committing, HasBytes, HasMetadata, HasCrop, Working
  <1>1. /\ exec[e].pc = "checked" /\ ~Locked(j) /\ Unchanged /\ j \in Job
        /\ IF found THEN Goes(e, "committing") ELSE Fails(e)
    BY MineHere DEF CommitReads, Step
  <1>2. CASE ~found
    BY <1>1, <1>2, FailsKeeps
  <1>3. CASE found
    <2>1. /\ next \in ExecRow /\ next.pc = "committing" /\ next.job = j
          /\ next.bytes = exec[e].bytes /\ next.crop = exec[e].crop
      BY ExecHere, PcMoves DEF ExecPhase, Mine
    <2>2. exec' = [exec EXCEPT ![e] = next]
      BY <1>1, <1>3 DEF Goes
    <2>3. /\ exec[e].crop = j.regions /\ exec[e].bytes = j.content /\ j.rev <= j.content
          /\ j.content = j.rev /\ Reached(exec[e])
      BY <1>1, ExecHere DEF ExecHolds, ExecFits, Mine
    <2> HIDE DEF next
    <2>4. ExecFits(next) /\ Reached(next) /\ MarkHolds(next)
      BY <1>1, <2>1, <2>3 DEF ExecFits, Reached, MarkHolds, Mine
    <2>5. CommitHolds(next)
      <3>1. \A f \in DOMAIN j.regions : j.regions[f] = face[f]
        BY <1>3 DEF Crop
      <3>2. job[j].state = "processing" /\ pipeline[j] = "recognition_pending"
        BY <1>3 DEF LeaseCurrent, LeaseNamed
      <3> HIDE DEF j
      <3> QED BY <2>1, <2>3, <3>1, <3>2 DEF CommitHolds
    <2>6. \A o \in Exec \ {e} : exec[o].pc = "committing" => exec[o].job # next.job
      BY <1>1, <2>1 DEF Locked
    <2> QED BY <1>1, <2>2, <2>4, <2>5, <2>6, QuietStep DEF ExecHolds
  <1> QED BY <1>2, <1>3

\* What a commit may rely on when it writes.
LEMMA CommitHere ==
    ASSUME RecognitionAssumption, RecognitionInv, NEW e \in Exec, exec[e].pc = "committing"
    PROVE  /\ Mine(e) \in Job /\ Locked(Mine(e))
           /\ job[Mine(e)].state = "processing" /\ pipeline[Mine(e)] = "recognition_pending"
           /\ exec[e].crop = Mine(e).regions /\ exec[e].bytes = Mine(e).rev
           /\ Mine(e).rev \in Revision
           /\ exec[e].crossed \in BOOLEAN
           /\ exec[e].crossed \/ \A f \in DOMAIN exec[e].crop : exec[e].crop[f] = face[f]
           /\ DOMAIN exec[e].crop \subseteq Face
           /\ \A f \in DOMAIN exec[e].crop : exec[e].crop[f] \in Region
  <1> USE DEF Committing, HasBytes, HasMetadata, HasCrop, Working
  <1>1. Mine(e) \in Job /\ Mine(e).rev \in Revision /\ ExecHolds(exec[e]) /\ exec[e] \in ExecRow
    BY MineHere, ExecHere
  <1>2. /\ Mine(e).regions \in [DOMAIN Mine(e).regions -> Region]
        /\ DOMAIN Mine(e).regions \subseteq Face
    BY <1>1, JobParts, GeometryParts
  <1>3. exec[e].crop = Mine(e).regions /\ exec[e].bytes = Mine(e).rev
    BY <1>1 DEF ExecHolds, ExecFits, Mine
  <1>4. exec[e].crossed \in BOOLEAN
    BY <1>1 DEF ExecRow
  <1> QED BY <1>1, <1>2, <1>3, <1>4 DEF ExecHolds, CommitHolds, Locked, Mine

\* The embeddings it stores are true.
LEMMA EmbeddedFits ==
    ASSUME RecognitionAssumption, RecognitionInv, NEW e \in Exec, exec[e].pc = "committing",
           NEW faces \in SUBSET DOMAIN exec[e].crop, embedding' = Embedded(e, faces),
           UNCHANGED <<face, moved>>
    PROVE  EmbeddingsFit'
  <1> DEFINE row(f) == [job |-> Mine(e), region |-> exec[e].crop[f], bytes |-> exec[e].bytes,
                        crossed |-> exec[e].crossed, undone |-> FALSE]
  <1>1. ASSUME NEW f \in faces
        PROVE  /\ row(f) \in EmbeddingRow
               /\ Shows(row(f), f, face[f])
    BY CommitHere DEF EmbeddingRow, Shows
  <1>2. embedding' = [f \in Face |-> IF f \in faces THEN row(f) ELSE embedding[f]]
    BY DEF Embedded
  <1> HIDE DEF row
  <1>3. ASSUME NEW f \in Face
        PROVE  /\ embedding'[f] \in EmbeddingRow \cup {None}
               /\ embedding'[f] # None => Shows(embedding'[f], f, face'[f])
    <2>1. CASE f \in faces
      BY <1>1, <1>2, <2>1
    <2>2. CASE f \notin faces
      BY <1>2, <2>2 DEF RecognitionInv, EmbeddingsFit, EmbeddingsTrue
    <2> QED BY <2>1, <2>2
  <1>4. embedding' \in [Face -> EmbeddingRow \cup {None}]
    BY <1>2, <1>3
  <1>5. EmbeddingsTrue'
    BY <1>3 DEF EmbeddingsTrue, Shows
  <1>6. moved' \in [Face -> MoveRow \cup {None}] /\ SnapshotsTrue'
    BY DEF RecognitionInv, EmbeddingsFit, SnapshotsTrue, Shows
  <1> QED BY <1>4, <1>5, <1>6 DEF EmbeddingsFit

\* Receipt, row and pipeline, of one job.
LEMMA CommittedRowsFit ==
    ASSUME RecognitionAssumption, RowsFit, NEW j \in Job, NEW d \in Digest,
           job[j].state = "processing",
           receipt' = [receipt EXCEPT ![d] = d],
           job' = [job EXCEPT ![j] = Completed([@ EXCEPT !.stage = ObservationsRecorded], d, d)],
           pipeline' = [pipeline EXCEPT ![j] = "recognized"],
           UNCHANGED <<asset, requeued>>
    PROVE  RowsFit' /\ job'[j].state = "completed"
           /\ \A k \in Job \ {j} : job'[k] = job[k] /\ pipeline'[k] = pipeline[k]
  <1> DEFINE marked == [job[j] EXCEPT !.stage = ObservationsRecorded]
             row == Completed(marked, d, d)
  <1>1. d \in Receipt /\ LedgerInv
    BY DEF RecognitionAssumption, RowsFit
  <1>2. Row(marked, requeued[j]) /\ requeued[j] \in Nat
    <2>1. ObservationsRecorded \in Stage
      BY DEF ObservationsRecorded, Stage
    <2> QED BY <1>1, <2>1, RowFits, LeasedRowFits
  <1>3. marked.state = "processing" /\ marked.stage > Queued
    BY RowHere DEF JobRow, ObservationsRecorded, Queued
  <1> HIDE DEF marked
  <1>4. Row(row, requeued[j])
    BY <1>1, <1>2, <1>3, CompletedFits
  <1>5. row.state = "completed"
    BY <1>2, OperatorStates DEF Row
  <1>6. job' = [job EXCEPT ![j] = row]
    BY DEF marked
  <1> HIDE DEF row
  <1>7. /\ job = [k \in Job |-> job[k]] /\ pipeline = [k \in Job |-> pipeline[k]]
        /\ receipt \in [Receipt -> Digest \cup {None}]
    BY RowHere DEF RowsFit, LedgerInv, LedgerTypeOK
  <1>8. /\ job'[j].state = "completed" /\ pipeline'[j] = "recognized"
        /\ \A k \in Job \ {j} : job'[k] = job[k] /\ pipeline'[k] = pipeline[k]
    BY <1>5, <1>6, <1>7
  <1>9. LedgerInv'
    <2>1. \A k \in Job : Row(job'[k], requeued[k])
      BY <1>1, <1>4, <1>6, <1>7, RowFits
    <2>2. receipt' \in [Receipt -> Digest \cup {None}]
      BY <1>7
    <2>3. job' \in [Job -> JobRow]
      BY <1>6, <1>7, <2>1 DEF Row
    <2> QED BY <2>1, <2>2, <2>3
            DEF RowsFit, LedgerInv, LedgerTypeOK, RowsConsistent, RetriesBounded, Row
  <1>10. pipeline' \in [Job -> {"none", "recognition_pending", "recognized", "recognition_failed"}]
    BY DEF RowsFit
  <1>11. PipelinesFollowJobs'
    BY <1>8 DEF RowsFit, PipelinesFollowJobs
  <1> QED BY <1>8, <1>9, <1>10, <1>11 DEF RowsFit

\* The writes are of a job no other execution commits.
LEMMA CommitWritesKeeps ==
    ASSUME RecognitionAssumption, RecognitionInv, NEW e \in Exec, NEW d \in Digest,
           CommitWrites(e, d)
    PROVE  RecognitionInv'
  <1> DEFINE j == Mine(e)
  <1>1. /\ exec[e].pc = "committing"
        /\ receipt' = [receipt EXCEPT ![d] = d]
        /\ job' = [job EXCEPT ![j] = Completed([@ EXCEPT !.stage = ObservationsRecorded], d, d)]
        /\ pipeline' = [pipeline EXCEPT ![j] = "recognized"]
        /\ exec' = [exec EXCEPT ![e] = Idle]
        /\ UNCHANGED <<asset, requeued, sourceVars, head, upsets>>
    BY DEF CommitWrites, Ends
  <1>2. j \in Job /\ job[j].state = "processing" /\ pipeline[j] = "recognition_pending"
    BY <1>1, CommitHere
  <1>3. /\ RowsFit' /\ \A k \in Job \ {j} : job'[k] = job[k] /\ pipeline'[k] = pipeline[k]
    BY <1>1, <1>2, CommittedRowsFit DEF RecognitionInv
  <1>4. EmbeddingsFit'
    <2>1. PICK faces \in SUBSET DOMAIN exec[e].crop : embedding' = Embedded(e, faces)
      BY DEF CommitWrites
    <2> QED BY <1>1, <2>1, EmbeddedFits DEF sourceVars
  <1>5. WorldFits' /\ UNCHANGED <<library, face>>
    BY <1>1, WorldKept DEF sourceVars
  <1>6. PICK idle : idle = Idle
    OBVIOUS
  <1>7. ExecHolds(idle)' /\ idle.pc # "committing"
    BY <1>6, IdleHolds, RestingHolds DEF ExecFits
  <1>8. ASSUME NEW o \in Exec \ {e}, NEW x, x = exec[o] PROVE ExecHolds(x)'
    <2>1. ExecHolds(x) /\ ExecFits(x)
      BY <1>8, ExecHere
    <2>2. x.pc = "committing" => x.job # j
      BY <1>1, <1>8 DEF RecognitionInv, ExecsFit, CommitsExclusive, Mine
    <2>3. x.pc = "marking" => x.job # j
      BY <1>2, <2>1 DEF ExecHolds, MarkHolds
    <2>4. x.pc \in {"committing", "marking"} => x.job \in Job
      BY <2>1 DEF ExecFits, Working, HasCrop, HasMetadata, HasBytes, Committing
    <2>5. \A a \in Asset : library[a].rev \in Revision /\ library'[a].rev \in Revision
                           /\ library[a].rev <= library'[a].rev
      BY <1>5 DEF RecognitionInv, WorldFits, Revision
    <2>6. x.pc = "committing" =>
              /\ job'[x.job].state = "processing" /\ pipeline'[x.job] = "recognition_pending"
              /\ x.crossed \/ \A f \in DOMAIN x.crop : x.crop[f] = face'[f]
      BY <1>3, <1>5, <2>1, <2>2, <2>4 DEF ExecHolds, CommitHolds
    <2>7. x.pc = "marking" => job'[x.job].state = "failed"
      BY <1>3, <2>1, <2>3, <2>4 DEF ExecHolds, MarkHolds
    <2> QED BY <2>1, <2>5, <2>6, <2>7, ExecKept
  <1>9. ExecsFit'
    BY <1>1, <1>6, <1>7, <1>8, OneMoves DEF RecognitionInv
  <1> QED BY <1>3, <1>4, <1>5, <1>9 DEF RecognitionInv

\* A commit that fails writes nothing.
LEMMA CommitAbortsKeeps ==
    ASSUME RecognitionAssumption, RecognitionInv, NEW e \in Exec, CommitAborts(e)
    PROVE  RecognitionInv'
  <1>1. Mine(e) \in Job
    BY CommitHere DEF CommitAborts
  <1> QED BY <1>1, FailsKeeps DEF CommitAborts

-----------------------------------------------------------------------------
(* Failures, and the clock *)

\* An execution that goes to rest while it writes.
LEMMA EndsWriting ==
    ASSUME RecognitionAssumption, RecognitionInv, NEW e \in Exec, Ends(e),
           UNCHANGED <<library, face>>, \A k \in Job : LocksRespected(k),
           RowsFit', WorldFits', EmbeddingsFit'
    PROVE  RecognitionInv'
  <1>1. PICK x : x = Idle
    OBVIOUS
  <1>2. ExecHolds(x)' /\ x.pc # "committing" /\ exec' = [exec EXCEPT ![e] = x]
    BY <1>1, IdleHolds, RestingHolds DEF ExecFits, Ends
  <1> QED BY <1>2, RowStepOfOne

\* A failure report: the pipeline is marked next only if the job has failed for good.
LEMMA ReportFailureKeeps ==
    ASSUME RecognitionAssumption, RecognitionInv, NEW e \in Exec, ReportFailure(e)
    PROVE  RecognitionInv'
  <1> DEFINE j == Mine(e)
             row == AttemptLost(job[j], "WORKER_ERROR")
             named == LeaseNamed(job[j], Name(e))
  <1> USE DEF Scheduling, Committing, HasBytes, HasMetadata, HasCrop, Working
  <1>1. /\ exec[e].pc = "failing" /\ ~Locked(j) /\ j \in Job
        /\ IF named THEN Fail(Name(e), j, "WORKER_ERROR") ELSE UNCHANGED ledgerVars
        /\ IF named /\ Exhausted(job[j]) THEN Goes(e, "marking") ELSE Ends(e)
        /\ UNCHANGED <<sourceVars, storeVars, upsets>>
    BY MineHere DEF ReportFailure
  <1>2. CASE ~named
    BY <1>1, <1>2, EndsKeeps DEF Unchanged
  <1>3. CASE named
    <2>1. /\ job' = [job EXCEPT ![j] = row] /\ UNCHANGED <<asset, receipt, requeued>>
          /\ job[j].state = "processing"
      BY <1>1, <1>3 DEF Fail, LeaseNamed
    <2>2. Row(row, requeued[j])
      <3>1. "WORKER_ERROR" \in ErrorCode
        BY DEF ErrorCode, WorkerCode
      <3> QED BY <1>1, <2>1, <3>1, RowFits, AttemptLostFits DEF RecognitionInv, RowsFit
    <2>3. job[j] \in JobRow /\ job = [k \in Job |-> job[k]]
      BY <1>1, RowHere DEF RecognitionInv
    <2>4. /\ row.state \in {"pending", "failed"}
          /\ Exhausted(job[j]) => row.state = "failed"
      BY <2>3 DEF JobRow, AttemptLost, Unleased
    <2>5. Follows(job[j].state, row.state)
      BY <2>1, <2>4 DEF Follows
    <2> HIDE DEF row
    <2>6. /\ \A k \in Job : LocksRespected(k)
          /\ RowsFit' /\ WorldFits' /\ EmbeddingsFit'
          /\ UNCHANGED <<library, face>>
      BY <1>1, <2>1, <2>2, <2>5, OneRowWritten
    <2>7. CASE Exhausted(job[j])
      <3>1. PICK x : x = [exec[e] EXCEPT !.pc = "marking"]
        OBVIOUS
      <3>2. x \in ExecRow /\ x.pc = "marking" /\ x.job = j
        BY <3>1, ExecHere, PcMoves DEF ExecPhase, Mine
      <3>3. exec' = [exec EXCEPT ![e] = x]
        BY <1>1, <1>3, <2>7, <3>1 DEF Goes
      <3>4. ExecFits(x)
        BY <1>1, <3>2 DEF ExecFits
      <3>5. ExecFits(x)'
        BY <3>4 DEF ExecFits, ExecRow, ExecPhase, Revision, FacesOf
      <3>6. job'[x.job].state = "failed"
        BY <1>1, <2>1, <2>3, <2>4, <2>7, <3>2
      <3>7. ExecHolds(x)'
        BY <3>2, <3>5, <3>6 DEF ExecHolds, Reached, CommitHolds, MarkHolds
      <3> QED BY <2>6, <3>2, <3>3, <3>7, RowStepOfOne
    <2>8. CASE ~Exhausted(job[j])
      BY <1>1, <2>6, <2>8, EndsWriting
    <2> QED BY <2>7, <2>8
  <1> QED BY <1>2, <1>3

\* The statement that gives the pipeline up: its job has failed.
LEMMA MarkFailedKeeps ==
    ASSUME RecognitionAssumption, RecognitionInv, NEW e \in Exec, MarkFailed(e)
    PROVE  RecognitionInv'
  <1> DEFINE j == Mine(e)
             state == IF pipeline[j] = "recognition_pending" THEN "recognition_failed"
                      ELSE pipeline[j]
  <1>1. /\ ~Locked(j) /\ pipeline' = [pipeline EXCEPT ![j] = state] /\ Ends(e)
        /\ UNCHANGED <<ledgerVars, sourceVars, head, embedding, upsets>>
    BY DEF MarkFailed
  <1>2. j \in Job /\ job[j].state = "failed"
    <2>1. exec[e].pc = "marking"
      BY DEF MarkFailed
    <2> QED BY <2>1, MineHere, ExecHere DEF ExecHolds, MarkHolds, Mine, Working
  <1>3. RowsFit
    BY DEF RecognitionInv
  <1>4. state \in {"none", "recognition_pending", "recognized", "recognition_failed"}
    BY <1>2, <1>3 DEF RowsFit
  <1>5. (state = "none" <=> pipeline[j] = "none") /\ (state = "recognized" <=> pipeline[j] = "recognized")
    OBVIOUS
  <1> HIDE DEF state
  <1>6. /\ pipeline'[j] = state
        /\ \A k \in Job \ {j} : pipeline'[k] = pipeline[k]
        /\ UNCHANGED job
    BY <1>1, <1>2, <1>3 DEF RowsFit, ledgerVars
  <1>7. \A k \in Job : LocksRespected(k)
    BY <1>1, <1>6, LockedHere DEF LocksRespected
  <1>8. RowsFit'
    <2>1. LedgerInv'
      BY <1>1, <1>3 DEF RowsFit, LedgerInv, LedgerTypeOK, RowsConsistent, RetriesBounded, ledgerVars
    <2>2. pipeline' \in [Job -> {"none", "recognition_pending", "recognized", "recognition_failed"}]
      BY <1>1, <1>3, <1>4 DEF RowsFit
    <2>3. PipelinesFollowJobs'
      BY <1>2, <1>3, <1>5, <1>6 DEF RowsFit, PipelinesFollowJobs
    <2> QED BY <2>1, <2>2, <2>3 DEF RowsFit
  <1>9. WorldFits' /\ EmbeddingsFit' /\ UNCHANGED <<library, face>>
    BY <1>1, WorldKept, EmbeddingsKept DEF sourceVars
  <1> QED BY <1>1, <1>7, <1>8, <1>9, EndsWriting

\* A process that dies keeps nothing.
LEMMA StopKeeps ==
    ASSUME RecognitionInv, NEW e \in Exec, Stop(e) PROVE RecognitionInv'
  BY EndsKeeps DEF Stop

\* Time ages leases and moves no row, locked or not.
LEMMA LeaseTickKeeps ==
    ASSUME RecognitionAssumption, RecognitionInv, LeaseTick PROVE RecognitionInv'
  <1>1. Tick /\ UNCHANGED <<sourceVars, storeVars, exec, upsets>>
    BY DEF LeaseTick
  <1>2. LedgerInv'
    BY <1>1, TickKeeps DEF RecognitionInv, RowsFit
  <1>3. ASSUME NEW k \in Job PROVE job'[k].state = job[k].state
    BY <1>1, RowHere DEF Tick, JobRow, RecognitionInv
  <1>4. \A k \in Job : LocksRespected(k)
    BY <1>1, <1>3, LockedHere DEF LocksRespected, storeVars
  <1>5. RowsFit'
    BY <1>1, <1>2, <1>3, PipelinesKept DEF RecognitionInv, Follows, storeVars
  <1>6. WorldFits' /\ EmbeddingsFit' /\ UNCHANGED <<library, face, exec>>
    BY <1>1, WorldKept, EmbeddingsKept DEF sourceVars, storeVars
  <1> QED BY <1>4, <1>5, <1>6, RowStepOfNone

-----------------------------------------------------------------------------
(* The library, inventory and corrections *)

\* Nobody moves, and the library does not go back.
LEMMA LibraryMoves ==
    ASSUME RecognitionAssumption, RecognitionInv,
           library' \in [Asset -> [rev : Revision, listed : BOOLEAN]],
           \A a \in Asset : library[a].rev <= library'[a].rev,
           upsets' \in 0..MaxUpsets,
           UNCHANGED <<ledgerVars, projection, face, moved, accepted, storeVars, exec>>
    PROVE  RecognitionInv'
  <1>1. \A a \in Asset : library[a].rev \in Revision /\ library'[a].rev \in Revision
                         /\ library[a].rev <= library'[a].rev
    BY DEF RecognitionInv, WorldFits
  <1>2. ASSUME NEW e \in Exec PROVE ExecHolds(exec[e])'
    <2>1. PICK x : x = exec[e]
      OBVIOUS
    <2>2. ExecHolds(x)
      BY <2>1, ExecHere
    <2>3. ExecHolds(x)'
      BY <1>1, <2>2, ExecKept DEF ExecHolds, CommitHolds, MarkHolds, ledgerVars, storeVars
    <2> QED BY <2>1, <2>3
  <1>3. ExecsFit'
    BY <1>2 DEF RecognitionInv, ExecsFit, CommitsExclusive
  <1>4. RowsFit'
    BY DEF RecognitionInv, RowsFit, LedgerInv, LedgerTypeOK, RowsConsistent, RetriesBounded,
       PipelinesFollowJobs, ledgerVars, storeVars
  <1>5. WorldFits' /\ EmbeddingsFit'
    BY EmbeddingsKept DEF RecognitionInv, WorldFits, storeVars
  <1> QED BY <1>3, <1>4, <1>5 DEF RecognitionInv

\* One thing more happens outside.
LEMMA UpsetCounts == ASSUME RecognitionAssumption, RecognitionInv, Upset PROVE upsets' \in 0..MaxUpsets
  BY DEF Upset, RecognitionAssumption, RecognitionInv, WorldFits

\* A photo is edited, comes and goes.
LEMMA LibraryKeeps ==
    ASSUME RecognitionAssumption, RecognitionInv, NEW a \in Asset,
           LibraryEdits(a) \/ ListingChanges(a)
    PROVE  RecognitionInv'
  <1>1. library \in [Asset -> [rev : Revision, listed : BOOLEAN]]
    BY DEF RecognitionInv, WorldFits
  <1>2. CASE LibraryEdits(a)
    <2>1. /\ Upset /\ library[a].rev < MaxRevision
          /\ library' = [library EXCEPT ![a].rev = @ + 1]
          /\ UNCHANGED <<ledgerVars, projection, face, moved, accepted, storeVars, exec>>
      BY <1>2 DEF LibraryEdits
    <2>2. /\ library' \in [Asset -> [rev : Revision, listed : BOOLEAN]]
          /\ \A b \in Asset : library[b].rev <= library'[b].rev
      <3>1. MaxRevision \in Nat
        BY DEF RecognitionAssumption
      <3>2. [library[a] EXCEPT !.rev = @ + 1] \in [rev : Revision, listed : BOOLEAN]
        BY <1>1, <2>1, <3>1 DEF Revision
      <3>3. library' = [library EXCEPT ![a] = [library[a] EXCEPT !.rev = @ + 1]]
        BY <1>1, <2>1
      <3>4. \A b \in Asset : library[b].rev \in Revision
        BY <1>1
      <3> QED BY <1>1, <3>2, <3>3, <3>4 DEF Revision
    <2> QED BY <2>1, <2>2, UpsetCounts, LibraryMoves
  <1>3. CASE ListingChanges(a)
    <2>1. /\ Upset
          /\ library' = [library EXCEPT ![a].listed = ~@]
          /\ UNCHANGED <<ledgerVars, projection, face, moved, accepted, storeVars, exec>>
      BY <1>3 DEF ListingChanges
    <2>2. /\ library' \in [Asset -> [rev : Revision, listed : BOOLEAN]]
          /\ \A b \in Asset : library[b].rev <= library'[b].rev
      <3>1. \A b \in Asset : library[b].rev \in Revision /\ library'[b].rev = library[b].rev
        BY <1>1, <2>1
      <3>2. library' \in [Asset -> [rev : Revision, listed : BOOLEAN]]
        BY <1>1, <2>1
      <3> QED BY <3>1, <3>2 DEF Revision
    <2> QED BY <2>1, <2>2, UpsetCounts, LibraryMoves
  <1> QED BY <1>2, <1>3

\* A face is accepted.
LEMMA AcceptFaceKeeps ==
    ASSUME RecognitionAssumption, RecognitionInv, NEW f \in Face, AcceptFace(f)
    PROVE  RecognitionInv'
  <1>1. /\ Upset /\ accepted' = accepted \cup {f}
        /\ UNCHANGED <<ledgerVars, library, projection, face, moved, storeVars, exec>>
    BY DEF AcceptFace
  <1>2. \A k \in Job : LocksRespected(k)
    BY <1>1, LockedHere DEF LocksRespected, ledgerVars, storeVars
  <1>3. RowsFit'
    BY <1>1 DEF RecognitionInv, RowsFit, LedgerInv, LedgerTypeOK, RowsConsistent, RetriesBounded,
       PipelinesFollowJobs, ledgerVars, storeVars
  <1>4. WorldFits' /\ EmbeddingsFit'
    BY <1>1, UpsetCounts, EmbeddingsKept DEF RecognitionInv, WorldFits, storeVars
  <1> QED BY <1>1, <1>2, <1>3, <1>4, RowStepOfNone

\* Inventory takes jobs of an asset away, none of them locked, and says what the asset is.
LEMMA InventoryMoves ==
    ASSUME RecognitionAssumption, RecognitionInv, NEW a \in Asset, NEW code \in SuspendCode,
           TakesAway(a, code) \/ UNCHANGED job,
           NEW state \in {"active", "missing"}, asset' = [asset EXCEPT ![a] = state],
           projection' \in [Asset -> [rev : Revision, state : {"active", "missing"}]],
           UNCHANGED <<receipt, requeued, library, face, moved, accepted, storeVars, exec, upsets>>
    PROVE  RecognitionInv'
  <1>1. LedgerInv /\ RowsFit
    BY DEF RecognitionInv, RowsFit
  <1>2. ASSUME NEW k \in Job
        PROVE  /\ Row(job'[k], requeued[k]) /\ Follows(job[k].state, job'[k].state)
               /\ job'[k] # job[k] => ~Locked(k)
    <2>1. Row(job[k], requeued[k]) /\ requeued[k] \in Nat
      BY <1>1, RowFits
    <2>2. CASE job'[k] = job[k]
      BY <2>1, <2>2 DEF Follows
    <2>3. CASE job'[k] # job[k]
      <3>1. /\ TakesAway(a, code) /\ AssetOf[k] = a /\ job[k].state \in InFlight
            /\ job'[k] = Suspended(job[k], code)
        BY <2>3 DEF TakesAway, SuspendJobs
      <3>2. Suspended(job[k], code).state = "paused"
        BY <2>1, OperatorStates DEF Row
      <3>3. Row(Suspended(job[k], code), requeued[k])
        BY <2>1, <3>1, SuspendedFits
      <3>4. ~Locked(k)
        BY <3>1 DEF TakesAway
      <3> QED BY <3>1, <3>2, <3>3, <3>4 DEF Follows, InFlight
    <2> QED BY <2>2, <2>3
  <1>3. job' = [k \in Job |-> job'[k]]
    BY <1>1 DEF TakesAway, SuspendJobs, LedgerInv, LedgerTypeOK
  <1>4. LedgerInv'
    <2>1. \A k \in Job : Row(job'[k], requeued'[k])
      BY <1>2
    <2>2. asset' \in [Asset -> {"active", "missing"}]
      BY <1>1 DEF LedgerInv, LedgerTypeOK
    <2>3. receipt' \in [Receipt -> Digest \cup {None}] /\ requeued' \in [Job -> 0..MaxRequeues]
      BY <1>1 DEF LedgerInv, LedgerTypeOK
    <2>4. job' \in [Job -> JobRow]
      BY <1>3, <2>1 DEF Row
    <2> QED BY <2>1, <2>2, <2>3, <2>4
            DEF LedgerInv, LedgerTypeOK, RowsConsistent, RetriesBounded, Row
  <1>5. \A k \in Job : LocksRespected(k)
    BY <1>2, LocksKept DEF storeVars
  <1>6. RowsFit'
    BY <1>1, <1>2, <1>4, PipelinesKept DEF storeVars
  <1>7. WorldFits' /\ EmbeddingsFit'
    BY EmbeddingsKept DEF RecognitionInv, WorldFits, storeVars
  <1> QED BY <1>5, <1>6, <1>7, RowStepOfNone

\* A page is recorded, or a complete run ends without the asset.
LEMMA InventoryKeeps ==
    ASSUME RecognitionAssumption, RecognitionInv, NEW a \in Asset, RecordPage(a) \/ CompleteRun(a)
    PROVE  RecognitionInv'
  <1>1. /\ projection \in [Asset -> [rev : Revision, state : {"active", "missing"}]]
        /\ library[a].rev \in Revision
    BY DEF RecognitionInv, WorldFits
  <1>2. CASE RecordPage(a)
    <2>1. projection' \in [Asset -> [rev : Revision, state : {"active", "missing"}]]
      BY <1>1, <1>2 DEF RecordPage
    <2>2. /\ TakesAway(a, "INPUT_REVISION_SUPERSEDED") \/ UNCHANGED job
          /\ asset' = [asset EXCEPT ![a] = "active"]
          /\ UNCHANGED <<receipt, requeued, library, face, moved, accepted, storeVars, exec, upsets>>
      BY <1>2 DEF RecordPage
    <2> QED BY <2>1, <2>2, InventoryMoves DEF SuspendCode
  <1>3. CASE CompleteRun(a)
    <2>1. projection' \in [Asset -> [rev : Revision, state : {"active", "missing"}]]
      BY <1>1, <1>3 DEF CompleteRun
    <2>2. /\ TakesAway(a, "ASSET_NOT_VISIBLE")
          /\ asset' = [asset EXCEPT ![a] = "missing"]
          /\ UNCHANGED <<receipt, requeued, library, face, moved, accepted, storeVars, exec, upsets>>
      BY <1>3 DEF CompleteRun
    <2> QED BY <2>1, <2>2, InventoryMoves DEF SuspendCode
  <1> QED BY <1>2, <1>3

\* A commit that is crossed keeps all but the trust in its crop.
LEMMA CrossedHolds ==
    ASSUME NEW x, ExecHolds(x), x.pc = "committing", NEW y, y = [x EXCEPT !.crossed = TRUE],
           UNCHANGED <<library, job, pipeline>>
    PROVE  ExecHolds(y)' /\ y.pc = x.pc /\ y.job = x.job
  <1>1. x \in ExecRow
    BY DEF ExecHolds, ExecFits
  <1>2. /\ y \in ExecRow /\ y.pc = x.pc /\ y.asset = x.asset /\ y.faces = x.faces
        /\ y.rev = x.rev /\ y.bytes = x.bytes /\ y.job = x.job /\ y.crop = x.crop /\ y.crossed
    BY <1>1 DEF ExecRow
  <1>3. ExecFits(y)
    BY <1>2 DEF ExecHolds, ExecFits
  <1>4. ExecFits(y)'
    BY <1>3 DEF ExecFits, ExecRow, ExecPhase, Revision, FacesOf
  <1>5. Reached(y)' /\ CommitHolds(y)' /\ MarkHolds(y)'
    BY <1>2 DEF ExecHolds, Reached, CommitHolds, MarkHolds
  <1> QED BY <1>2, <1>4, <1>5 DEF ExecHolds

\* A face moves, by a correction or its undo, and crosses the commits that have read it.
LEMMA FaceMoves ==
    ASSUME RecognitionAssumption, RecognitionInv, NEW f \in Face, NEW region \in Region, Upset,
           face' = [face EXCEPT ![f] = region], exec' = Crossed(f), EmbeddingsFit',
           UNCHANGED <<ledgerVars, library, projection, accepted, head, pipeline>>
    PROVE  RecognitionInv'
  <1> DEFINE crosses(x) == x.pc = "committing" /\ f \in DOMAIN x.crop
             next(x) == IF crosses(x) THEN [x EXCEPT !.crossed = TRUE] ELSE x
  <1>1. exec' = [e \in Exec |-> next(exec[e])]
    BY DEF Crossed
  <1>2. face \in [Face -> Region]
    BY DEF RecognitionInv, WorldFits
  <1>3. ASSUME NEW x, ExecHolds(x), NEW y, y = next(x)
        PROVE  ExecHolds(y)' /\ y.pc = x.pc /\ y.job = x.job
    <2>1. CASE crosses(x)
      BY <1>1, <1>3, <2>1, CrossedHolds DEF ledgerVars
    <2>2. CASE ~crosses(x)
      <3>1. \A a \in Asset : library[a].rev \in Revision /\ library'[a].rev \in Revision
                             /\ library[a].rev <= library'[a].rev
        BY <1>1 DEF RecognitionInv, WorldFits, Revision
      <3>2. x.pc = "committing" => DOMAIN x.crop \subseteq Face \ {f}
        <4> SUFFICES ASSUME x.pc = "committing" PROVE DOMAIN x.crop \subseteq Face
          BY <2>2
        <4>1. x.job \in Job /\ x.crop = x.job.regions
          BY <1>3 DEF ExecHolds, ExecFits, Working, HasCrop, HasMetadata, HasBytes, Committing
        <4> QED BY <4>1, JobRegions
      <3>3. x.pc = "committing" =>
                /\ job'[x.job].state = "processing" /\ pipeline'[x.job] = "recognition_pending"
                /\ x.crossed \/ \A g \in DOMAIN x.crop : x.crop[g] = face'[g]
        BY <1>1, <1>2, <1>3, <3>2 DEF ExecHolds, CommitHolds, ledgerVars
      <3>4. x.pc = "marking" => job'[x.job].state = "failed"
        BY <1>1, <1>3 DEF ExecHolds, MarkHolds, ledgerVars
      <3>5. ExecHolds(x)'
        BY <1>3, <3>1, <3>3, <3>4, ExecKept
      <3> QED BY <1>3, <2>2, <3>5
    <2> QED BY <2>1, <2>2
  <1> HIDE DEF next
  <1>4. ASSUME NEW e \in Exec
        PROVE  ExecHolds(exec[e])' /\ exec'[e].pc = exec[e].pc /\ exec'[e].job = exec[e].job
    <2>1. PICK y : y = next(exec[e])
      OBVIOUS
    <2>2. PICK x : x = exec[e]
      OBVIOUS
    <2>3. ExecHolds(x)
      BY <2>2, ExecHere
    <2>4. ExecHolds(y)' /\ y.pc = x.pc /\ y.job = x.job
      BY <1>3, <2>1, <2>2, <2>3
    <2>5. exec'[e] = y
      BY <1>1, <2>1
    <2> QED BY <2>2, <2>4, <2>5
  <1>5. ExecsFit'
    <2>1. exec' = [e \in Exec |-> exec'[e]]
      BY <1>1
    <2> QED BY <1>4, <2>1 DEF RecognitionInv, ExecsFit, CommitsExclusive
  <1>6. RowsFit'
    BY <1>1 DEF RecognitionInv, RowsFit, LedgerInv, LedgerTypeOK, RowsConsistent, RetriesBounded,
       PipelinesFollowJobs, ledgerVars
  <1>7. WorldFits'
    BY <1>1, <1>2, UpsetCounts DEF RecognitionInv, WorldFits
  <1> QED BY <1>5, <1>6, <1>7 DEF RecognitionInv

\* A correction removes what was embedded of the old crop, and keeps it in a snapshot.
LEMMA CorrectFaceKeeps ==
    ASSUME RecognitionAssumption, RecognitionInv, NEW f \in Face, NEW region \in Region,
           CorrectFace(f, region)
    PROVE  RecognitionInv'
  <1>1. /\ Upset /\ face' = [face EXCEPT ![f] = region] /\ exec' = Crossed(f)
        /\ moved' = [moved EXCEPT ![f] = [prior |-> face[f], kept |-> embedding[f]]]
        /\ embedding' = [embedding EXCEPT ![f] = None]
        /\ UNCHANGED <<ledgerVars, library, projection, accepted, head, pipeline>>
    BY DEF CorrectFace
  <1>2. /\ face \in [Face -> Region] /\ embedding \in [Face -> EmbeddingRow \cup {None}]
        /\ moved \in [Face -> MoveRow \cup {None}] /\ EmbeddingsTrue /\ SnapshotsTrue
    BY DEF RecognitionInv, WorldFits, EmbeddingsFit
  <1>3. [prior |-> face[f], kept |-> embedding[f]] \in MoveRow
    BY <1>2 DEF MoveRow
  <1>4. /\ embedding' \in [Face -> EmbeddingRow \cup {None}]
        /\ moved' \in [Face -> MoveRow \cup {None}]
    BY <1>1, <1>2, <1>3
  <1>5. /\ embedding'[f] = None
        /\ moved'[f].prior = face[f] /\ moved'[f].kept = embedding[f]
        /\ \A g \in Face \ {f} : /\ embedding'[g] = embedding[g] /\ face'[g] = face[g]
                                /\ moved'[g] = moved[g]
    BY <1>1, <1>2
  <1>6. EmbeddingsTrue' /\ SnapshotsTrue'
    BY <1>2, <1>5 DEF EmbeddingsTrue, SnapshotsTrue, Shows
  <1>7. EmbeddingsFit'
    BY <1>4, <1>6 DEF EmbeddingsFit
  <1> QED BY <1>1, <1>7, FaceMoves

\* The undo of a move makes active what the snapshot holds, or marks what it keeps.
LEMMA UndoMoveKeeps ==
    ASSUME RecognitionAssumption, RecognitionInv, NEW f \in Face, UndoMove(f)
    PROVE  RecognitionInv'
  <1> DEFINE next == IF embedding[f] = None THEN moved[f].kept
                     ELSE [embedding[f] EXCEPT !.undone = TRUE]
  <1>1. /\ Upset /\ moved[f] # None
        /\ face' = [face EXCEPT ![f] = moved[f].prior] /\ exec' = Crossed(f)
        /\ moved' = [moved EXCEPT ![f] = None]
        /\ embedding' = [embedding EXCEPT ![f] = next]
        /\ UNCHANGED <<ledgerVars, library, projection, accepted, head, pipeline>>
    BY DEF UndoMove
  <1>2. /\ face \in [Face -> Region] /\ embedding \in [Face -> EmbeddingRow \cup {None}]
        /\ moved \in [Face -> MoveRow \cup {None}] /\ EmbeddingsTrue /\ SnapshotsTrue
    BY DEF RecognitionInv, WorldFits, EmbeddingsFit
  <1>3. moved[f].prior \in Region /\ moved[f].kept \in EmbeddingRow \cup {None}
    BY <1>1, <1>2 DEF MoveRow
  <1>4. /\ next \in EmbeddingRow \cup {None}
        /\ next # None => Shows(next, f, moved[f].prior)
    <2>1. CASE embedding[f] = None
      BY <1>1, <1>2, <1>3, <2>1 DEF SnapshotsTrue
    <2>2. CASE embedding[f] # None
      <3>1. embedding[f] \in EmbeddingRow /\ Shows(embedding[f], f, face[f])
        BY <1>2, <2>2 DEF EmbeddingsTrue
      <3>2. /\ next \in EmbeddingRow /\ next.undone
            /\ next.job = embedding[f].job /\ next.region = embedding[f].region
            /\ next.bytes = embedding[f].bytes
        BY <2>2, <3>1 DEF EmbeddingRow
      <3> QED BY <3>1, <3>2 DEF Shows
    <2> QED BY <2>1, <2>2
  <1> HIDE DEF next
  <1>5. /\ embedding' \in [Face -> EmbeddingRow \cup {None}]
        /\ moved' \in [Face -> MoveRow \cup {None}]
    BY <1>1, <1>2, <1>4
  <1>6. /\ embedding'[f] = next /\ face'[f] = moved[f].prior /\ moved'[f] = None
        /\ \A g \in Face \ {f} : /\ embedding'[g] = embedding[g] /\ face'[g] = face[g]
                                /\ moved'[g] = moved[g]
    BY <1>1, <1>2
  <1>7. EmbeddingsTrue' /\ SnapshotsTrue'
    BY <1>2, <1>4, <1>6 DEF EmbeddingsTrue, SnapshotsTrue, Shows
  <1>8. EmbeddingsFit'
    BY <1>5, <1>7 DEF EmbeddingsFit
  <1> QED BY <1>1, <1>3, <1>8, FaceMoves

-----------------------------------------------------------------------------
(* The invariant *)

LEMMA RecognitionInitFits ==
    ASSUME RecognitionAssumption, RecognitionInit PROVE RecognitionInv
  <1>1. RowsFit
    <2>1. LedgerInv
      BY InitEstablishes DEF RecognitionInit
    <2>2. \A j \in Job : job[j].state = "absent" /\ pipeline[j] = "none"
      BY DEF RecognitionInit, LedgerInit, NoRow
    <2> QED BY <2>1, <2>2 DEF RowsFit, RecognitionInit, PipelinesFollowJobs
  <1>2. 1 \in Revision /\ 0 \in 0..MaxUpsets
    BY DEF RecognitionAssumption, Revision
  <1>3. WorldFits
    BY <1>2 DEF RecognitionInit, WorldFits
  <1>4. ExecsFit
    BY IdleHolds DEF RecognitionInit, ExecsFit, CommitsExclusive
  <1>5. EmbeddingsFit
    <2>1. PICK faces \in SUBSET Face :
              embedding = [f \in Face |-> IF f \in faces THEN Detected(f) ELSE None]
      BY DEF RecognitionInit
    <2>2. ASSUME NEW f \in Face
          PROVE  /\ Detected(f) \in EmbeddingRow
                 /\ Detected(f).region = face[f] /\ Detected(f).job = None
      BY <1>2, <1>3 DEF Detected, EmbeddingRow, WorldFits
    <2> HIDE DEF Detected
    <2>3. moved = [f \in Face |-> None]
      BY DEF RecognitionInit
    <2> QED BY <2>1, <2>2, <2>3 DEF EmbeddingsFit, EmbeddingsTrue, SnapshotsTrue, Shows
  <1> QED BY <1>1, <1>3, <1>4, <1>5 DEF RecognitionInv

LEMMA ExecStepKeeps ==
    ASSUME RecognitionAssumption, RecognitionInv, NEW e \in Exec, ExecStep(e)
    PROVE  RecognitionInv'
  <1>1. CASE Select(e)           BY <1>1, SelectKeeps
  <1>2. CASE DescribeSource(e)   BY <1>2, DescribeSourceKeeps
  <1>3. CASE ReadSource(e)       BY <1>3, ReadSourceKeeps
  <1>4. CASE Prepare(e)          BY <1>4, PrepareKeeps
  <1>5. CASE EnqueuePipeline(e)  BY <1>5, EnqueuePipelineKeeps
  <1>6. CASE ClaimJob(e)         BY <1>6, ClaimJobKeeps
  <1>7. CASE FindNoJob(e)        BY <1>7, FindNoJobKeeps
  <1>8. CASE LoadPipeline(e) \/ LocateSource(e) \/ RecognizeTwice(e)
    BY <1>8, LookingKeeps
  <1>9. CASE LoadFaces(e)        BY <1>9, LoadFacesKeeps
  <1>10. CASE DescribeAgain(e)   BY <1>10, DescribeAgainKeeps
  <1>11. CASE ReadBytes(e)       BY <1>11, ReadBytesKeeps
  <1>12. CASE VerifyInventory(e) BY <1>12, VerifyInventoryKeeps
  <1>13. CASE CheckSource(e)     BY <1>13, CheckSourceKeeps
  <1>14. CASE CommitReads(e)     BY <1>14, CommitReadsKeeps
  <1>15. CASE CommitAborts(e)    BY <1>15, CommitAbortsKeeps
  <1>16. CASE ReportFailure(e)   BY <1>16, ReportFailureKeeps
  <1>17. CASE MarkFailed(e)      BY <1>17, MarkFailedKeeps
  <1>18. CASE \E d \in Digest : CommitWrites(e, d)
    BY <1>18, CommitWritesKeeps
  <1> QED
    BY <1>1, <1>2, <1>3, <1>4, <1>5, <1>6, <1>7, <1>8, <1>9, <1>10, <1>11, <1>12, <1>13, <1>14,
       <1>15, <1>16, <1>17, <1>18 DEF ExecStep

LEMMA RecognitionStepKeeps ==
    ASSUME RecognitionAssumption, RecognitionInv, [RecognitionNext]_recognitionVars
    PROVE  RecognitionInv'
  <1>1. CASE \E a \in Asset :
                LibraryEdits(a) \/ ListingChanges(a) \/ RecordPage(a) \/ CompleteRun(a)
    BY <1>1, LibraryKeeps, InventoryKeeps
  <1>2. CASE \E f \in Face : \/ AcceptFace(f) \/ UndoMove(f)
                             \/ \E region \in Region : CorrectFace(f, region)
    BY <1>2, AcceptFaceKeeps, UndoMoveKeeps, CorrectFaceKeeps
  <1>3. CASE \E e \in Exec : ExecStep(e) \/ Stop(e)
    BY <1>3, ExecStepKeeps, StopKeeps
  <1>4. CASE LeaseTick
    BY <1>4, LeaseTickKeeps
  <1>5. CASE UNCHANGED recognitionVars
    <2>1. /\ UNCHANGED <<ledgerVars, projection, face, moved, accepted, storeVars, exec>>
          /\ UNCHANGED <<library, upsets>>
      BY <1>5 DEF recognitionVars, sourceVars
    <2>2. /\ library' \in [Asset -> [rev : Revision, listed : BOOLEAN]]
          /\ \A a \in Asset : library[a].rev <= library'[a].rev
          /\ upsets' \in 0..MaxUpsets
      BY <2>1 DEF RecognitionInv, WorldFits, Revision
    <2> QED BY <2>1, <2>2, LibraryMoves
  <1> QED BY <1>1, <1>2, <1>3, <1>4, <1>5 DEF RecognitionNext

-----------------------------------------------------------------------------
(* What follows *)

\* The invariant: the rows, the world around them, what each execution carries, and embeddings.
THEOREM RecognitionInvariant == RecognitionAssumption => (RecognitionSpec => []RecognitionInv)
  <1> SUFFICES ASSUME RecognitionAssumption PROVE RecognitionSpec => []RecognitionInv
    OBVIOUS
  <1>1. RecognitionInit => RecognitionInv
    BY RecognitionInitFits
  <1>2. RecognitionInv /\ [RecognitionNext]_recognitionVars => RecognitionInv'
    BY RecognitionStepKeeps
  <1> QED BY <1>1, <1>2, PTL DEF RecognitionSpec

\* Pipelines and jobs, written by different statements of different processes, agree: a pipeline
\* is recognised exactly when its job is completed, and given up only when its job is.
THEOREM RecognitionIsConsistent ==
    RecognitionAssumption => (RecognitionSpec => []RecognitionConsistent)
  <1> SUFFICES ASSUME RecognitionAssumption PROVE RecognitionSpec => []RecognitionConsistent
    OBVIOUS
  <1>1. RecognitionInv => RecognitionConsistent
    <2> SUFFICES ASSUME RecognitionInv PROVE RecognitionConsistent
      OBVIOUS
    <2>1. exec \in [Exec -> ExecRow]
      BY DEF RecognitionInv, ExecsFit, ExecHolds, ExecFits
    <2> QED BY <2>1 DEF RecognitionInv, RowsFit, WorldFits, EmbeddingsFit, LedgerInv,
            RecognitionConsistent, RecognitionTypeOK
  <1> QED BY <1>1, RecognitionInvariant, PTL

\* Embeddings are true, of however many faces, assets and revisions, whatever moves, and moves
\* back, between the reads of an attempt, and whatever snapshots bring back; but for the commits
\* a correction crossed and for what an undo kept of the move it took back.
THEOREM RecognitionEmbeddingsTrue ==
    RecognitionAssumption => (RecognitionSpec => []EmbeddingsTrue)
  <1> SUFFICES ASSUME RecognitionAssumption PROVE RecognitionSpec => []EmbeddingsTrue
    OBVIOUS
  <1>1. RecognitionInv => EmbeddingsTrue
    BY DEF RecognitionInv, EmbeddingsFit
  <1> QED BY <1>1, RecognitionInvariant, PTL

EmbeddingStep ==
    \A f \in Face : embedding[f] # None /\ embedding'[f] = None => face'[f] # face[f]

\* A commit and an undo leave no face without an embedding, and a correction only the one it moves.
LEMMA StepKeepsEmbeddings ==
    ASSUME RecognitionAssumption, RecognitionInv, [RecognitionNext]_recognitionVars
    PROVE  EmbeddingStep
  <1>1. CASE UNCHANGED embedding
    BY <1>1 DEF EmbeddingStep
  <1>2. ASSUME NEW e \in Exec, NEW d \in Digest, CommitWrites(e, d) PROVE EmbeddingStep
    <2>1. PICK faces \in SUBSET DOMAIN exec[e].crop : embedding' = Embedded(e, faces)
      BY <1>2 DEF CommitWrites
    <2>2. exec[e].pc = "committing" /\ UNCHANGED face
      BY <1>2 DEF CommitWrites, sourceVars
    <2>3. EmbeddingsFit'
      BY <1>2, CommitWritesKeeps DEF RecognitionInv
    <2>4. ASSUME NEW f \in Face, f \in faces PROVE embedding'[f] # None
      <3> DEFINE row == [job |-> Mine(e), region |-> exec[e].crop[f], bytes |-> exec[e].bytes,
                         crossed |-> exec[e].crossed, undone |-> FALSE]
      <3>1. embedding'[f] = row
        BY <2>1, <2>4 DEF Embedded
      <3>2. row \in EmbeddingRow
        BY <2>2, <2>4, CommitHere DEF EmbeddingRow
      <3> QED BY <3>1, <3>2 DEF RecognitionAssumption
    <2>5. ASSUME NEW f \in Face, f \notin faces PROVE embedding'[f] = embedding[f]
      BY <2>1, <2>5 DEF Embedded
    <2> QED BY <2>4, <2>5 DEF EmbeddingStep
  <1>3. ASSUME NEW f \in Face, NEW region \in Region, CorrectFace(f, region) PROVE EmbeddingStep
    <2>1. face \in [Face -> Region] /\ embedding \in [Face -> EmbeddingRow \cup {None}]
      BY DEF RecognitionInv, WorldFits, EmbeddingsFit
    <2>2. /\ face'[f] # face[f]
          /\ \A g \in Face \ {f} : embedding'[g] = embedding[g]
      BY <1>3, <2>1 DEF CorrectFace
    <2> QED BY <2>2 DEF EmbeddingStep
  <1>4. ASSUME NEW f \in Face, UndoMove(f) PROVE EmbeddingStep
    <2>1. embedding \in [Face -> EmbeddingRow \cup {None}]
      BY DEF RecognitionInv, EmbeddingsFit
    <2>2. \A g \in Face \ {f} : embedding'[g] = embedding[g]
      BY <1>4, <2>1 DEF UndoMove
    <2>3. embedding[f] # None => embedding'[f] # None
      <3> SUFFICES ASSUME embedding[f] # None PROVE embedding'[f] # None
        OBVIOUS
      <3>1. embedding'[f] = [embedding[f] EXCEPT !.undone = TRUE] /\ embedding[f] \in EmbeddingRow
        BY <1>4, <2>1 DEF UndoMove
      <3>2. embedding'[f] \in EmbeddingRow
        BY <3>1 DEF EmbeddingRow
      <3> QED BY <3>2 DEF RecognitionAssumption
    <2> QED BY <2>2, <2>3 DEF EmbeddingStep
  <1>5. \/ UNCHANGED embedding
        \/ \E e \in Exec, d \in Digest : CommitWrites(e, d)
        \/ \E f \in Face, region \in Region : CorrectFace(f, region)
        \/ \E f \in Face : UndoMove(f)
    <2>1. CASE \E e \in Exec : ExecStep(e) \/ Stop(e)
      BY <2>1
      DEF ExecStep, Stop, Unchanged, storeVars, Select, DescribeSource, ReadSource, Prepare,
          EnqueuePipeline, ClaimJob, FindNoJob, LoadPipeline, LoadFaces, LocateSource,
          DescribeAgain, ReadBytes, VerifyInventory, RecognizeTwice, CheckSource, CommitReads,
          CommitAborts, ReportFailure, MarkFailed, Step
    <2>2. CASE \/ \E a \in Asset :
                     LibraryEdits(a) \/ ListingChanges(a) \/ RecordPage(a) \/ CompleteRun(a)
               \/ \E f \in Face : \/ AcceptFace(f) \/ UndoMove(f)
                                  \/ \E region \in Region : CorrectFace(f, region)
               \/ LeaseTick
      BY <2>2
      DEF LibraryEdits, ListingChanges, RecordPage, CompleteRun, AcceptFace, LeaseTick, storeVars
    <2>3. CASE UNCHANGED recognitionVars
      BY <2>3 DEF recognitionVars, storeVars
    <2> QED BY <2>1, <2>2, <2>3 DEF RecognitionNext
  <1> QED BY <1>1, <1>2, <1>3, <1>4, <1>5

\* "A face the recognizer returned as non-embedded must keep its prior active embedding": only a
\* correction of the face removes one, however many faces a commit is about.
THEOREM RecognitionEmbeddingKept ==
    RecognitionAssumption => (RecognitionSpec => EmbeddingKept)
  <1> SUFFICES ASSUME RecognitionAssumption PROVE RecognitionSpec => EmbeddingKept
    OBVIOUS
  <1>1. RecognitionInv /\ [RecognitionNext]_recognitionVars => [EmbeddingStep]_recognitionVars
    BY StepKeepsEmbeddings
  <1> QED BY <1>1, RecognitionInvariant, PTL DEF RecognitionSpec, EmbeddingKept, EmbeddingStep
==============================================================================
