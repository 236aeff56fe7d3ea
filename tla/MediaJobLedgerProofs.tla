------------------------ MODULE MediaJobLedgerProofs ------------------------
(***************************************************************************)
(* Safety of the ledger for every number of jobs, workers, receipts and    *)
(* attempt limits.  The inductive invariant says of each row that it is    *)
(* typed, consistent and within its budget; the row operators preserve it  *)
(* one by one, and every action applies them to some rows.                 *)
(***************************************************************************)
EXTENDS MediaJobLedger, TLAPS

Row(r, n) == r \in JobRow /\ RowConsistent(r) /\ WithinBudget(r, n)

LedgerInv == LedgerTypeOK /\ RowsConsistent /\ RetriesBounded

-----------------------------------------------------------------------------
(* What the row operators keep *)

\* Limits are positive numbers, so a budget never starts spent.
LEMMA LimitsPositive ==
    /\ AttemptLimits # {}
    /\ \A limit \in AttemptLimits : limit \in Nat /\ limit > 0
    /\ 0 \in -1..LeaseTicks /\ LeaseTicks \in -1..LeaseTicks /\ LeaseTicks > 0
  BY LedgerAssumption

\* A work identity nobody has enqueued yet is a consistent row.
LEMMA NoRowFits == ASSUME NEW n \in Nat PROVE Row(NoRow, n)
  <1>1. NoRow \in JobRow
    BY LimitsPositive DEF JobRow, JobState, Stage, NoRow, Queued
  <1>2. RowConsistent(NoRow)
    BY NoneAssumption DEF RowConsistent, NoRow
  <1>3. WithinBudget(NoRow, n)
    BY LimitsPositive DEF WithinBudget, NoRow
  <1> QED BY <1>1, <1>2, <1>3 DEF Row

\* enqueue_media_job's INSERT.
LEMMA NewRowFits == ASSUME NEW n \in Nat, NEW limit \in AttemptLimits PROVE Row(NewRow(limit), n)
  <1>1. NewRow(limit) \in JobRow
    <2>1. NoRow \in JobRow
      BY NoRowFits DEF Row
    <2> QED BY <2>1 DEF JobRow, JobState, NewRow
  <1>2. RowConsistent(NewRow(limit))
    BY LimitsPositive, NoneAssumption DEF RowConsistent, NoRow, NewRow, Queued
  <1>3. WithinBudget(NewRow(limit), n)
    BY LimitsPositive DEF WithinBudget, NoRow, NewRow
  <1> QED BY <1>1, <1>2, <1>3 DEF Row

\* A lost attempt (a lapsed lease or a failure report) leaves a retry only within the budget.
LEMMA AttemptLostFits ==
    ASSUME NEW n \in Nat, NEW r, Row(r, n), r.state = "processing", NEW e \in ErrorCode
    PROVE  Row(AttemptLost(r, e), n)
  <1>1. AttemptLost(r, e) \in JobRow
    BY LimitsPositive DEF Row, JobRow, JobState, AttemptLost, Unleased, Exhausted
  <1>2. RowConsistent(AttemptLost(r, e))
    BY NoneAssumption DEF Row, JobRow, RowConsistent, AttemptLost, Unleased, Exhausted
  <1>3. WithinBudget(AttemptLost(r, e), n)
    <2>1. PICK m \in AttemptLimits : r.attempts <= m + n
      BY DEF Row, WithinBudget
    <2>2. ~Exhausted(r) => r.attempts < r.limit + n /\ r.limit \in AttemptLimits
      BY LimitsPositive DEF Row, JobRow, Exhausted, RowConsistent
    <2>3. AttemptLost(r, e).attempts = r.attempts
      BY DEF Row, JobRow, AttemptLost, Unleased
    <2>4. AttemptLost(r, e).state = IF Exhausted(r) THEN "failed" ELSE "pending"
      BY DEF Row, JobRow, AttemptLost, Unleased
    <2> QED BY <2>1, <2>2, <2>3, <2>4 DEF WithinBudget
  <1> QED BY <1>1, <1>2, <1>3 DEF Row

\* A claim pays for its lease.
LEMMA LeasedFits ==
    ASSUME NEW n \in Nat, NEW r, Row(r, n), r.state = "pending", NEW w \in Worker
    PROVE  Row(Leased(r, w), n)
  <1>1. Leased(r, w) \in JobRow
    <2>1. r \in JobRow /\ r.attempts + 1 \in Nat /\ LeaseTicks \in -1..LeaseTicks
      BY LimitsPositive DEF Row, JobRow
    <2> QED BY <2>1 DEF JobRow, JobState, Leased
  <1>2. RowConsistent(Leased(r, w))
    BY LimitsPositive, NoneAssumption DEF Row, JobRow, RowConsistent, Leased
  <1>3. WithinBudget(Leased(r, w), n)
    <2>1. PICK m \in AttemptLimits : r.attempts < m + n
      BY DEF Row, WithinBudget
    <2>2. r.attempts + 1 <= m + n
      BY <2>1, LimitsPositive DEF Row, JobRow
    <2>3. Leased(r, w).attempts = r.attempts + 1 /\ Leased(r, w).state = "processing"
      BY DEF Row, JobRow, Leased
    <2> QED BY <2>2, <2>3 DEF WithinBudget
  <1> QED BY <1>1, <1>2, <1>3 DEF Row

\* Taking a job away gives its attempt back.
LEMMA SuspendedFits ==
    ASSUME NEW n \in Nat, NEW r, Row(r, n), r.state \in InFlight, NEW e \in SuspendCode
    PROVE  Row(Suspended(r, e), n)
  <1>1. Suspended(r, e) \in JobRow
    <2>1. r \in JobRow /\ (r.attempts > 0 => r.attempts - 1 \in Nat) /\ e \in ErrorCode
      BY DEF Row, JobRow, ErrorCode
    <2>2. Unleased(r, "paused", e) \in JobRow
      BY <2>1, LimitsPositive DEF JobRow, JobState, Unleased
    <2>3. Unleased(r, "paused", e).attempts = r.attempts
      BY <2>1 DEF JobRow, Unleased
    <2> QED BY <2>1, <2>2, <2>3 DEF JobRow, Suspended
  <1>2. RowConsistent(Suspended(r, e))
    BY NoneAssumption DEF Row, JobRow, RowConsistent, Suspended, Unleased, InFlight
  <1>3. WithinBudget(Suspended(r, e), n)
    BY LimitsPositive DEF Row, JobRow, RowConsistent, WithinBudget, Suspended, Unleased, InFlight
  <1> QED BY <1>1, <1>2, <1>3 DEF Row

\* complete_media_job, under its guards.
LEMMA CompletedFits ==
    ASSUME NEW n \in Nat, NEW r, Row(r, n), r.state = "processing", r.stage > Queued,
           NEW p \in Receipt, NEW d \in Digest
    PROVE  Row(Completed(r, p, d), n)
  <1>1. Completed(r, p, d) \in JobRow
    BY LimitsPositive DEF Row, JobRow, JobState, Completed, Unleased
  <1>2. RowConsistent(Completed(r, p, d))
    BY NoneAssumption DEF Row, JobRow, RowConsistent, Completed, Unleased
  <1>3. WithinBudget(Completed(r, p, d), n)
    BY LimitsPositive DEF Row, JobRow, WithinBudget, Completed, Unleased
  <1> QED BY <1>1, <1>2, <1>3 DEF Row

\* A re-opened completion keeps its attempts, and is counted for it.
LEMMA ReopenedFits ==
    ASSUME NEW n \in Nat, NEW r, Row(r, n), r.state = "completed", NEW limit \in AttemptLimits
    PROVE  Row(Reopened(r, limit), n + 1)
  <1>1. Reopened(r, limit) \in JobRow
    BY DEF Row, JobRow, JobState, ErrorCode, Reopened
  <1>2. RowConsistent(Reopened(r, limit))
    BY LimitsPositive DEF Row, JobRow, RowConsistent, Reopened
  <1>3. WithinBudget(Reopened(r, limit), n + 1)
    <2>1. PICK m \in AttemptLimits : r.attempts <= m + n
      BY DEF Row, WithinBudget
    <2>2. r.attempts < m + (n + 1)
      BY <2>1, LimitsPositive DEF Row, JobRow
    <2>3. Reopened(r, limit).attempts = r.attempts
      BY DEF Row, JobRow, Reopened
    <2> QED BY <2>2, <2>3, LimitsPositive DEF Row, JobRow, WithinBudget
  <1> QED BY <1>1, <1>2, <1>3 DEF Row

\* A paused job goes back to waiting, under whatever limit the request carries.
LEMMA ResumedFits ==
    ASSUME NEW n \in Nat, NEW r, Row(r, n), r.state = "paused"
    PROVE  /\ Row(Resumed(r), n)
           /\ \A limit \in AttemptLimits : Row([Resumed(r) EXCEPT !.limit = limit], n)
  <1>1. Row(Resumed(r), n)
    BY DEF Row, JobRow, JobState, RowConsistent, WithinBudget, Resumed
  <1>2. ASSUME NEW limit \in AttemptLimits PROVE Row([Resumed(r) EXCEPT !.limit = limit], n)
    BY LimitsPositive DEF Row, JobRow, JobState, RowConsistent, WithinBudget, Resumed
  <1> QED BY <1>1, <1>2

\* pauseQueue on a waiting job.
LEMMA OperatorPausedFits ==
    ASSUME NEW n \in Nat, NEW r, Row(r, n), r.state = "pending"
    PROVE  Row(OperatorPaused(r), n)
  BY DEF Row, JobRow, JobState, ErrorCode, RowConsistent, WithinBudget, OperatorPaused

\* A checkpoint, and the passing of time, on a leased job.
LEMMA LeasedRowFits ==
    ASSUME NEW n \in Nat, NEW r, Row(r, n), r.state = "processing"
    PROVE  /\ \A stage \in Stage : Row([r EXCEPT !.stage = stage], n)
           /\ r.lease >= 0 => Row([r EXCEPT !.lease = @ - 1], n)
  <1>1. ASSUME NEW stage \in Stage PROVE Row([r EXCEPT !.stage = stage], n)
    BY <1>1 DEF Row, JobRow, RowConsistent, WithinBudget
  <1>2. ASSUME r.lease >= 0 PROVE Row([r EXCEPT !.lease = @ - 1], n)
    <2>1. r.lease - 1 \in -1..LeaseTicks
      BY <1>2, LedgerAssumption DEF Row, JobRow
    <2> QED BY <2>1 DEF Row, JobRow, RowConsistent, WithinBudget
  <1> QED BY <1>1, <1>2

-----------------------------------------------------------------------------
(* The invariant, row by row *)

\* The ledger's invariant gives each row, at its own count of re-openings.
LEMMA RowsOfInv ==
    LedgerInv <=>
        /\ job = [j \in Job |-> job[j]] /\ \A j \in Job : Row(job[j], requeued[j])
        /\ asset \in [Asset -> {"active", "missing"}]
        /\ receipt \in [Receipt -> Digest \cup {None}]
        /\ requeued \in [Job -> 0..MaxRequeues]
  BY DEF LedgerInv, LedgerTypeOK, RowsConsistent, RetriesBounded, Row

\* An action that leaves asset, receipt and requeued alone is safe when every row it writes fits.
LEMMA RowsStep ==
    ASSUME LedgerInv, UNCHANGED <<asset, receipt, requeued>>,
           job' = [j \in Job |-> job'[j]],
           \A j \in Job : Row(job'[j], requeued[j])
    PROVE  LedgerInv'
  BY RowsOfInv, Zenon DEF LedgerInv, LedgerTypeOK, RowsConsistent, RetriesBounded, Row

\* The rows of a table that satisfies the invariant fit, one by one.
LEMMA RowFits ==
    ASSUME LedgerInv, NEW j \in Job PROVE Row(job[j], requeued[j]) /\ requeued[j] \in Nat
  BY LedgerAssumption DEF LedgerInv, LedgerTypeOK, RowsConsistent, RetriesBounded, Row

\* The sweep of a claim.
LEMMA SweptFits == ASSUME LedgerInv, NEW j \in Job PROVE Row(Swept[j], requeued[j])
  <1>1. Row(job[j], requeued[j]) /\ requeued[j] \in Nat
    BY RowFits
  <1>2. CASE LeaseLapsed(job[j])
    <2>1. Row(AttemptLost(job[j], "WORKER_LEASE_EXPIRED"), requeued[j])
      BY <1>1, <1>2, AttemptLostFits DEF LeaseLapsed, ErrorCode
    <2> QED BY <1>2, <2>1 DEF Swept
  <1>3. CASE ~LeaseLapsed(job[j])
    BY <1>1, <1>3 DEF Swept
  <1> QED BY <1>2, <1>3

\* An empty table satisfies the invariant.
LEMMA InitEstablishes == LedgerInit => LedgerInv
  <1> SUFFICES ASSUME LedgerInit PROVE LedgerInv
    OBVIOUS
  <1>1. \A j \in Job : Row(job[j], requeued[j])
    BY NoRowFits DEF LedgerInit
  <1>2. requeued \in [Job -> 0..MaxRequeues]
    BY LedgerAssumption DEF LedgerInit
  <1>3. receipt \in [Receipt -> Digest \cup {None}]
    BY DEF LedgerInit
  <1> QED BY <1>1, <1>2, <1>3, RowsOfInv DEF LedgerInit

\* enqueue_media_job: inserted, resumed, re-opened or returned as it is.
LEMMA EnqueueKeeps ==
    ASSUME LedgerInv, NEW j \in Job, NEW limit \in AttemptLimits, Enqueue(j, limit)
    PROVE  LedgerInv'
  <1> DEFINE n == requeued[j]
  <1>1. Row(job[j], n) /\ n \in Nat
    BY RowFits
  <1>2. Row(EnqueuedRow(j, limit), requeued'[j])
    <2>1. CASE ReceiptMismatched(j)
      <3>1. EnqueuedRow(j, limit) = Reopened(job[j], limit)
        <4>1. job[j].state = "completed"
          BY <2>1 DEF ReceiptMismatched
        <4>2. job[j].state # "absent" /\ job[j].state # "paused"
          BY <4>1
        <4> QED BY <2>1, <4>2, Zenon DEF EnqueuedRow
      <3>2. requeued'[j] = n + 1
        BY <2>1 DEF Enqueue, LedgerInv, LedgerTypeOK
      <3> QED BY <1>1, <2>1, <3>1, <3>2, ReopenedFits DEF ReceiptMismatched
    <2>2. CASE ~ReceiptMismatched(j)
      <3>1. requeued'[j] = n
        BY <2>2 DEF Enqueue, LedgerInv, LedgerTypeOK
      <3>2. CASE job[j].state = "absent"
        <4>1. EnqueuedRow(j, limit) = NewRow(limit)
          BY <2>2, <3>2 DEF EnqueuedRow
        <4> QED BY <1>1, <3>1, <4>1, NewRowFits
      <3>3. CASE job[j].state = "paused"
        <4>1. EnqueuedRow(j, limit) = [Resumed(job[j]) EXCEPT !.limit = limit]
          BY <2>2, <3>3 DEF EnqueuedRow
        <4> QED BY <1>1, <3>1, <3>3, <4>1, ResumedFits
      <3>4. CASE job[j].state \notin {"absent", "paused"}
        <4>1. EnqueuedRow(j, limit) = job[j]
          BY <2>2, <3>4 DEF EnqueuedRow
        <4> QED BY <1>1, <3>1, <4>1
      <3> QED BY <3>2, <3>3, <3>4
    <2> QED BY <2>1, <2>2
  <1>3. requeued' \in [Job -> 0..MaxRequeues] /\ \A k \in Job \ {j} : requeued'[k] = requeued[k]
    BY LedgerAssumption DEF Enqueue, LedgerInv, LedgerTypeOK
  <1>4. /\ job' = [k \in Job |-> IF k = j THEN EnqueuedRow(j, limit) ELSE job[k]]
        /\ asset' = asset /\ receipt' = receipt
    BY DEF Enqueue, LedgerInv, LedgerTypeOK
  <1>5. \A k \in Job : Row(job'[k], requeued'[k])
    BY <1>2, <1>3, <1>4, RowFits
  <1>6. job' = [k \in Job |-> job'[k]]
    BY <1>4
  <1> QED BY <1>3, <1>4, <1>5, <1>6 DEF LedgerInv, LedgerTypeOK, RowsConsistent, RetriesBounded, Row

\* claim_media_jobs: swept rows and one leased row.
LEMMA ClaimKeeps ==
    ASSUME LedgerInv, NEW w \in Worker, NEW j \in Job, ClaimProviderJob(w, j)
    PROVE  LedgerInv'
  <1>1. job' = [k \in Job |-> IF k = j THEN Leased(Swept[j], w) ELSE Swept[k]]
    BY DEF ClaimProviderJob, Swept
  <1>2. Row(Leased(Swept[j], w), requeued[j])
    BY SweptFits, RowFits, LeasedFits DEF ClaimProviderJob, Claimable
  <1>3. \A k \in Job : Row(job'[k], requeued[k])
    BY <1>1, <1>2, SweptFits
  <1> QED BY <1>1, <1>3, RowsStep DEF ClaimProviderJob

\* A claim that only sweeps.
LEMMA ClaimNothingKeeps == ASSUME LedgerInv, ClaimNothing PROVE LedgerInv'
  <1>1. job' = [k \in Job |-> Swept[k]]
    BY DEF ClaimNothing, Swept
  <1>2. \A k \in Job : Row(job'[k], requeued[k])
    BY <1>1, SweptFits
  <1> QED BY <1>1, <1>2, RowsStep DEF ClaimNothing

\* Every single-row report: the rest of the table is untouched.
LEMMA OneRowStep ==
    ASSUME LedgerInv, UNCHANGED <<asset, receipt, requeued>>, NEW j \in Job, NEW r,
           job' = [job EXCEPT ![j] = r], Row(r, requeued[j])
    PROVE  LedgerInv'
  <1>1. job' = [k \in Job |-> IF k = j THEN r ELSE job[k]]
    BY DEF LedgerInv, LedgerTypeOK
  <1>2. \A k \in Job : Row(job'[k], requeued[k])
    BY <1>1, RowFits
  <1> QED BY <1>1, <1>2, RowsStep

\* checkpoint_media_job.
LEMMA CheckpointKeeps ==
    ASSUME LedgerInv, NEW w \in Worker, NEW j \in Job, NEW stage \in CheckpointStage,
           Checkpoint(w, j, stage)
    PROVE  LedgerInv'
  <1>1. stage \in Stage
    BY LedgerAssumption DEF Stage
  <1>2. Row([job[j] EXCEPT !.stage = stage], requeued[j])
    BY <1>1, RowFits, LeasedRowFits DEF Checkpoint, LeaseCurrent, LeaseNamed
  <1> QED BY <1>2, OneRowStep DEF Checkpoint

\* complete_media_job.
LEMMA CompleteKeeps ==
    ASSUME LedgerInv, NEW w \in Worker, NEW j \in Job, NEW r \in Receipt, NEW d \in Digest,
           Complete(w, j, r, d)
    PROVE  LedgerInv'
  <1>1. Row(Completed(job[j], r, d), requeued[j])
    BY RowFits, CompletedFits DEF Complete, LeaseCurrent, LeaseNamed
  <1> QED BY <1>1, OneRowStep DEF Complete

\* fail_media_job.
LEMMA FailKeeps ==
    ASSUME LedgerInv, NEW w \in Worker, NEW j \in Job, NEW code \in WorkerCode, Fail(w, j, code)
    PROVE  LedgerInv'
  <1>1. Row(AttemptLost(job[j], code), requeued[j])
    BY RowFits, AttemptLostFits DEF Fail, LeaseNamed, ErrorCode
  <1> QED BY <1>1, OneRowStep DEF Fail

\* pauseSupersededJobs and the pause of a completed inventory run.
LEMMA SuspendKeeps ==
    ASSUME LedgerInv, NEW jobs, NEW code \in SuspendCode, SuspendJobs(jobs, code),
           UNCHANGED <<asset, receipt, requeued>>
    PROVE  LedgerInv'
  <1>1. ASSUME NEW j \in Job PROVE Row(job'[j], requeued[j])
    <2>1. CASE j \in jobs /\ job[j].state \in InFlight
      BY <2>1, RowFits, SuspendedFits DEF SuspendJobs
    <2>2. CASE ~(j \in jobs /\ job[j].state \in InFlight)
      BY <2>2, RowFits DEF SuspendJobs
    <2> QED BY <2>1, <2>2
  <1>2. job' = [j \in Job |-> job'[j]]
    BY DEF SuspendJobs
  <1> QED BY <1>1, <1>2, RowsStep

\* pauseQueue.
LEMMA OperatorPauseKeeps == ASSUME LedgerInv, OperatorPause PROVE LedgerInv'
  <1>1. ASSUME NEW j \in Job PROVE Row(job'[j], requeued[j])
    <2>1. CASE job[j].state = "pending"
      BY <2>1, RowFits, OperatorPausedFits DEF OperatorPause, OperatorPauseJobs
    <2>2. CASE job[j].state # "pending"
      BY <2>2, RowFits DEF OperatorPause, OperatorPauseJobs
    <2> QED BY <2>1, <2>2
  <1>2. job' = [j \in Job |-> job'[j]]
    BY DEF OperatorPause, OperatorPauseJobs
  <1> QED BY <1>1, <1>2, RowsStep DEF OperatorPause

\* resumeQueue.
LEMMA OperatorResumeKeeps == ASSUME LedgerInv, OperatorResume PROVE LedgerInv'
  <1>1. ASSUME NEW j \in Job PROVE Row(job'[j], requeued[j])
    <2> DEFINE resumes == job[j].state = "paused" /\ job[j].error = "OPERATOR_PAUSED"
    <2>1. CASE resumes
      BY <2>1, RowFits, ResumedFits DEF OperatorResume, OperatorResumeJobs
    <2>2. CASE ~resumes
      BY <2>2, RowFits DEF OperatorResume, OperatorResumeJobs
    <2> QED BY <2>1, <2>2
  <1>2. job' = [j \in Job |-> job'[j]]
    BY DEF OperatorResume, OperatorResumeJobs
  <1> QED BY <1>1, <1>2, RowsStep DEF OperatorResume

\* The passing of time.
LEMMA TickKeeps == ASSUME LedgerInv, Tick PROVE LedgerInv'
  <1>1. ASSUME NEW j \in Job PROVE Row(job'[j], requeued[j])
    <2> DEFINE ages == job[j].state = "processing" /\ job[j].lease >= 0
    <2>1. CASE ages
      BY <2>1, RowFits, LeasedRowFits DEF Tick
    <2>2. CASE ~ages
      BY <2>2, RowFits DEF Tick
    <2> QED BY <2>1, <2>2
  <1>2. job' = [j \in Job |-> job'[j]]
    BY DEF Tick
  <1> QED BY <1>1, <1>2, RowsStep DEF Tick

\* Receipts and assets change without touching a row.
LEMMA SurroundingsKeep ==
    ASSUME LedgerInv,
           \/ \E r \in Receipt, d \in Digest : RecordReceipt(r, d) \/ ReceiptDrifts(r, d)
           \/ \E a \in Asset, s \in {"active", "missing"} : AssetMoves(a, s)
    PROVE  LedgerInv'
  BY DEF LedgerInv, LedgerTypeOK, RowsConsistent, RetriesBounded, RecordReceipt, ReceiptDrifts,
     AssetMoves

\* Every step of the ledger keeps its invariant.
LEMMA StepKeeps == LedgerInv /\ [LedgerNext]_ledgerVars => LedgerInv'
  <1> SUFFICES ASSUME LedgerInv, [LedgerNext]_ledgerVars PROVE LedgerInv'
    OBVIOUS
  <1>1. CASE \E j \in Job, limit \in AttemptLimits : Enqueue(j, limit)
    BY <1>1, EnqueueKeeps
  <1>2. CASE Claim
    <2>1. CASE \E w \in Worker, j \in Job : ClaimProviderJob(w, j) \/ ClaimMediaJob(w, j)
      BY <2>1, ClaimKeeps DEF ClaimMediaJob
    <2>2. CASE ClaimNothing
      BY <2>2, ClaimNothingKeeps
    <2> QED BY <1>2, <2>1, <2>2 DEF Claim
  <1>3. CASE \E w \in Worker, j \in Job, stage \in CheckpointStage : Checkpoint(w, j, stage)
    BY <1>3, CheckpointKeeps
  <1>4. CASE \E w \in Worker, j \in Job, r \in Receipt, d \in Digest : Complete(w, j, r, d)
    BY <1>4, CompleteKeeps
  <1>5. CASE \E w \in Worker, j \in Job, code \in WorkerCode : Fail(w, j, code)
    BY <1>5, FailKeeps
  <1>6. CASE \E j \in Job, code \in SuspendCode : Suspend(j, code)
    BY <1>6, SuspendKeeps DEF Suspend
  <1>7. CASE OperatorPause
    BY <1>7, OperatorPauseKeeps
  <1>8. CASE OperatorResume
    BY <1>8, OperatorResumeKeeps
  <1>9. CASE Tick
    BY <1>9, TickKeeps
  <1>10. CASE \/ \E r \in Receipt, d \in Digest : RecordReceipt(r, d) \/ ReceiptDrifts(r, d)
              \/ \E a \in Asset, s \in {"active", "missing"} : AssetMoves(a, s)
    BY <1>10, SurroundingsKeep
  <1>11. CASE UNCHANGED ledgerVars
    BY <1>11 DEF ledgerVars, LedgerInv, LedgerTypeOK, RowsConsistent, RetriesBounded
  <1> QED
    BY <1>1, <1>2, <1>3, <1>4, <1>5, <1>6, <1>7, <1>8, <1>9, <1>10, <1>11 DEF LedgerNext

\* The ledger's invariant: everything below follows from it.
THEOREM LedgerInvariant == LedgerSpec => []LedgerInv
  <1>1. LedgerInit => LedgerInv
    BY InitEstablishes
  <1>2. LedgerInv /\ [LedgerNext]_ledgerVars => LedgerInv'
    BY StepKeeps
  <1> QED BY <1>1, <1>2, PTL DEF LedgerSpec

\* Every row is always a row of the table, with every column in its range.
THEOREM LedgerTyped == LedgerSpec => []LedgerTypeOK
  BY LedgerInvariant, PTL DEF LedgerInv

\* No sequence of calls, from however many workers, trips a CHECK of the table or its trigger.
THEOREM LedgerRowsConsistent == LedgerSpec => []RowsConsistent
  BY LedgerInvariant, PTL DEF LedgerInv

\* A job is leased a bounded number of times, although no claim checks the budget.
THEOREM LedgerRetriesBounded == LedgerSpec => []RetriesBounded
  BY LedgerInvariant, PTL DEF LedgerInv

\* Both together: rows stay legal and retries bounded.
THEOREM LedgerIsSound == LedgerSpec => []LedgerSound
  <1>1. LedgerInv => LedgerSound
    BY DEF LedgerInv, LedgerSound
  <1> QED BY <1>1, LedgerInvariant, PTL

-----------------------------------------------------------------------------
(* What a step may never do *)

OutcomeStep ==
    \A j \in Job :
        /\ job[j].state = "failed" => job'[j] = job[j]
        /\ job[j].state = "completed" /\ job'[j] # job[j] => ReceiptMismatched(j)

ProgressStep == \A j \in Job : job'[j].stage >= job[j].stage

\* Only rows in the named states are written by each action.
LEMMA WritesOnly ==
    ASSUME LedgerInv, [LedgerNext]_ledgerVars, NEW j \in Job, job'[j] # job[j]
    PROVE  job[j].state \in {"absent", "pending", "processing", "paused"} \/ ReceiptMismatched(j)
  <1>1. CASE \E k \in Job, limit \in AttemptLimits : Enqueue(k, limit)
    BY <1>1 DEF Enqueue, EnqueuedRow, LedgerInv, LedgerTypeOK, JobRow, JobState
  <1>2. CASE Claim
    BY <1>2 DEF Claim, ClaimProviderJob, ClaimMediaJob, ClaimNothing, Claimable, Swept,
       LeaseLapsed
  <1>3. CASE \/ \E w \in Worker, k \in Job, stage \in CheckpointStage : Checkpoint(w, k, stage)
             \/ \E w \in Worker, k \in Job, r \in Receipt, d \in Digest : Complete(w, k, r, d)
             \/ \E w \in Worker, k \in Job, code \in WorkerCode : Fail(w, k, code)
    BY <1>3 DEF Checkpoint, Complete, Fail, LeaseCurrent, LeaseNamed, LedgerInv, LedgerTypeOK
  <1>4. CASE \E k \in Job, code \in SuspendCode : Suspend(k, code)
    BY <1>4 DEF Suspend, SuspendJobs, InFlight
  <1>5. CASE OperatorPause \/ OperatorResume \/ Tick
    BY <1>5 DEF OperatorPause, OperatorPauseJobs, OperatorResume, OperatorResumeJobs, Tick
  <1>6. CASE \/ \E r \in Receipt, d \in Digest : RecordReceipt(r, d) \/ ReceiptDrifts(r, d)
             \/ \E a \in Asset, s \in {"active", "missing"} : AssetMoves(a, s)
             \/ UNCHANGED ledgerVars
    BY <1>6 DEF RecordReceipt, ReceiptDrifts, AssetMoves, ledgerVars
  <1> QED BY <1>1, <1>2, <1>3, <1>4, <1>5, <1>6 DEF LedgerNext

\* Outcomes are final: no late report, pause, resume or suspension moves a finished job.
THEOREM LedgerOutcomesFinal == LedgerSpec => OutcomesFinal
  <1>1. LedgerInv /\ [LedgerNext]_ledgerVars => OutcomeStep
    BY WritesOnly DEF OutcomeStep, ReceiptMismatched
  <1> QED BY <1>1, LedgerInvariant, PTL DEF LedgerSpec, OutcomesFinal, OutcomeStep

\* No row operator moves a job back to an earlier checkpoint.
LEMMA OperatorsKeepStage ==
    ASSUME NEW n \in Nat, NEW r, Row(r, n)
    PROVE  /\ r.stage \in Nat
           /\ \A e : AttemptLost(r, e).stage = r.stage /\ Suspended(r, e).stage = r.stage
           /\ \A w : Leased(r, w).stage = r.stage
           /\ \A p, d : Completed(r, p, d).stage = r.stage
           /\ \A limit : Reopened(r, limit).stage = r.stage
           /\ \A limit : [Resumed(r) EXCEPT !.limit = limit].stage = r.stage
           /\ Resumed(r).stage = r.stage /\ OperatorPaused(r).stage = r.stage
  BY DEF Row, JobRow, Stage, AttemptLost, Suspended, Unleased, Leased, Completed, Reopened,
     Resumed, OperatorPaused

\* Neither does the sweep.
LEMMA SweepKeepsStage ==
    ASSUME LedgerInv, NEW j \in Job
    PROVE  Swept[j].stage = job[j].stage /\ job[j].stage \in Nat
  BY RowFits, OperatorsKeepStage DEF Swept

\* Nor any step.
LEMMA StepKeepsProgress ==
    ASSUME LedgerInv, [LedgerNext]_ledgerVars, NEW j \in Job
    PROVE  job'[j].stage >= job[j].stage
  <1>1. Row(job[j], requeued[j]) /\ requeued[j] \in Nat /\ job[j].stage \in Nat
    BY RowFits, OperatorsKeepStage
  <1>2. ASSUME NEW k \in Job, NEW limit \in AttemptLimits, Enqueue(k, limit)
        PROVE  job'[j].stage >= job[j].stage
    <2>1. CASE j # k
      BY <1>1, <1>2, <2>1 DEF Enqueue
    <2>2. CASE j = k
      <3>1. job'[j] = EnqueuedRow(j, limit)
        BY <1>2, <2>2 DEF Enqueue, LedgerInv, LedgerTypeOK
      <3>2. CASE job[j].state = "absent"
        <4>1. job[j] = NoRow /\ EnqueuedRow(j, limit) = NewRow(limit)
          BY <1>1, <3>2 DEF Row, RowConsistent, EnqueuedRow, ReceiptMismatched
        <4> QED BY <3>1, <4>1 DEF NoRow, NewRow, Queued
      <3>3. CASE job[j].state = "paused"
        <4>1. EnqueuedRow(j, limit) = [Resumed(job[j]) EXCEPT !.limit = limit]
          BY <3>3 DEF EnqueuedRow, ReceiptMismatched
        <4> QED BY <1>1, <3>1, <4>1, OperatorsKeepStage
      <3>4. CASE job[j].state \notin {"absent", "paused"} /\ ReceiptMismatched(j)
        <4>1. EnqueuedRow(j, limit) = Reopened(job[j], limit)
          BY <3>4 DEF EnqueuedRow
        <4> QED BY <1>1, <3>1, <4>1, OperatorsKeepStage
      <3>5. CASE job[j].state \notin {"absent", "paused"} /\ ~ReceiptMismatched(j)
        <4>1. EnqueuedRow(j, limit) = job[j]
          BY <3>5 DEF EnqueuedRow
        <4> QED BY <1>1, <3>1, <4>1
      <3> QED BY <3>2, <3>3, <3>4, <3>5
    <2> QED BY <2>1, <2>2
  <1>3. ASSUME NEW w \in Worker, NEW k \in Job, ClaimProviderJob(w, k)
        PROVE  job'[j].stage >= job[j].stage
    <2>1. job'[j] = IF j = k THEN Leased(Swept[j], w) ELSE Swept[j]
      BY <1>3 DEF ClaimProviderJob, Swept
    <2> QED BY <1>1, <2>1, SweepKeepsStage, SweptFits, OperatorsKeepStage
  <1>4. CASE ClaimNothing
    BY <1>1, <1>4, SweepKeepsStage DEF ClaimNothing
  <1>5. ASSUME NEW w \in Worker, NEW k \in Job, NEW stage \in CheckpointStage,
               Checkpoint(w, k, stage)
        PROVE  job'[j].stage >= job[j].stage
    <2>1. job' = [job EXCEPT ![k] = [job[k] EXCEPT !.stage = stage]] /\ stage >= job[k].stage
      BY <1>5 DEF Checkpoint
    <2>2. CASE j = k
      BY <1>1, <2>1, <2>2 DEF LedgerInv, LedgerTypeOK, JobRow
    <2>3. CASE j # k
      BY <1>1, <2>1, <2>3 DEF LedgerInv, LedgerTypeOK
    <2> QED BY <2>2, <2>3
  <1>6. CASE \/ \E w \in Worker, k \in Job, r \in Receipt, d \in Digest : Complete(w, k, r, d)
             \/ \E w \in Worker, k \in Job, code \in WorkerCode : Fail(w, k, code)
    BY <1>1, <1>6, OperatorsKeepStage DEF Complete, Fail, LedgerInv, LedgerTypeOK
  <1>7. CASE \E k \in Job, code \in SuspendCode : Suspend(k, code)
    BY <1>1, <1>7, OperatorsKeepStage DEF Suspend, SuspendJobs
  <1>8. CASE OperatorPause
    BY <1>1, <1>8, OperatorsKeepStage DEF OperatorPause, OperatorPauseJobs
  <1>9. CASE OperatorResume
    BY <1>1, <1>9, OperatorsKeepStage DEF OperatorResume, OperatorResumeJobs
  <1>10. CASE Tick
    BY <1>1, <1>10 DEF Tick, Row, JobRow
  <1>11. CASE \/ \E r \in Receipt, d \in Digest : RecordReceipt(r, d) \/ ReceiptDrifts(r, d)
              \/ \E a \in Asset, s \in {"active", "missing"} : AssetMoves(a, s)
              \/ UNCHANGED ledgerVars
    BY <1>1, <1>11 DEF RecordReceipt, ReceiptDrifts, AssetMoves, ledgerVars
  <1> QED
    BY <1>2, <1>3, <1>4, <1>5, <1>6, <1>7, <1>8, <1>9, <1>10, <1>11
    DEF LedgerNext, Claim, ClaimMediaJob

\* Durable progress is never lost, whatever interrupts an attempt.
THEOREM LedgerProgressKept == LedgerSpec => ProgressKept
  <1>1. LedgerInv /\ [LedgerNext]_ledgerVars => ProgressStep
    BY StepKeepsProgress DEF ProgressStep
  <1> QED BY <1>1, LedgerInvariant, PTL DEF LedgerSpec, ProgressKept, ProgressStep

\* Jobs only advance: neither outcomes nor progress are undone, by any calls in any order.
THEOREM LedgerOnlyAdvances == LedgerSpec => JobsOnlyAdvance
  BY LedgerOutcomesFinal, LedgerProgressKept DEF JobsOnlyAdvance
=============================================================================
