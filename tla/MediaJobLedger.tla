--------------------------- MODULE MediaJobLedger ---------------------------
(***************************************************************************)
(* The durable media-job ledger: the media_job table and every statement   *)
(* that writes it.  A job is one work identity (asset, operation, tool     *)
(* version, configuration digest, input revision); its row carries a       *)
(* state, an attempt budget, a lease and the last durable checkpoint.      *)
(*                                                                         *)
(* Each action is one transaction of the code.  The callers are arbitrary: *)
(* any worker name may report on any job at any time, as a slow, crashed   *)
(* or restarted worker process does.                                       *)
(*                                                                         *)
(* A lease is the time it has left: LeaseTicks when granted, current while *)
(* positive, at its last instant when 0 (no longer current, not yet swept: *)
(* a report compares lease_expires_at with <= now(), the sweep with <),    *)
(* and swept by the next claim at -1.                                      *)
(*                                                                         *)
(* Left out: checkpoint payloads and revision numbers, the event log and   *)
(* timestamps, none of which any guard reads.                              *)
(***************************************************************************)
EXTENDS Integers, FiniteSets

CONSTANTS
    Job,            \* work identities
    Asset,          \* Cimmich assets
    AssetOf,        \* the asset of each job
    Worker,         \* worker names (lease_owner values)
    Receipt,        \* producer receipt identifiers
    Digest,         \* result digests
    AttemptLimits,  \* the max_attempts values requests carry
    CheckpointStage,\* the stages workers checkpoint, by media_job_stage_rank
    LeaseTicks,     \* duration of a lease
    MaxRequeues,    \* bound on re-opened completions, per job
    None            \* SQL NULL

ASSUME LedgerAssumption ==
    /\ AssetOf \in [Job -> Asset]
    /\ AttemptLimits \subseteq 1..20
    /\ AttemptLimits # {}
    /\ CheckpointStage \subseteq 1..4
    /\ LeaseTicks \in Nat \ {0}
    /\ MaxRequeues \in Nat

VARIABLES
    job,        \* [Job -> row of media_job]
    asset,      \* [Asset -> state of the asset row]
    receipt,    \* [Receipt -> result_digest of its producer_receipt row, or None]
    requeued    \* [Job -> completions re-opened so far] (history)

ledgerVars == <<job, asset, receipt, requeued>>

-----------------------------------------------------------------------------
(* Rows *)

JobState == {"absent", "pending", "processing", "completed", "failed", "paused"}

\* Checkpoint stages, by media_job_stage_rank.
Queued == 0
InventoryVerified == 1
ObservationsRecorded == 2
Stage == 0..4

SuspendCode == {"INPUT_REVISION_SUPERSEDED", "ASSET_NOT_VISIBLE"}
WorkerCode == {"IMMICH_ASSET_PROJECTION_UNAVAILABLE", "WORKER_ERROR"}
ErrorCode == SuspendCode \cup WorkerCode \cup
    {"WORKER_LEASE_EXPIRED", "RESULT_RECEIPT_INVALID", "OPERATOR_PAUSED"}

ASSUME NoneAssumption == None \notin Worker \cup Receipt \cup Digest \cup ErrorCode

JobRow ==
    [state : JobState, attempts : Nat, limit : {0} \cup AttemptLimits, stage : Stage,
     owner : Worker \cup {None}, lease : -1..LeaseTicks, error : ErrorCode \cup {None},
     receipt : Receipt \cup {None}, digest : Digest \cup {None}]

NoRow ==
    [state |-> "absent", attempts |-> 0, limit |-> 0, stage |-> Queued, owner |-> None,
     lease |-> 0, error |-> None, receipt |-> None, digest |-> None]

NewRow(limit) == [NoRow EXCEPT !.state = "pending", !.limit = limit]

\* What fail_media_job asks of a lease: the owner's name.
LeaseNamed(row, w) == row.state = "processing" /\ row.owner = w

\* What a checkpoint and a completion ask: the owner's name, and time left.
LeaseCurrent(row, w) == LeaseNamed(row, w) /\ row.lease > 0

LeaseLapsedUnclaimed(row) == row.state = "pending" /\ row.lease < 0
LeaseLapsed(row) == row.state = "processing" /\ row.lease < 0

LateExhausted(row) == row.attempts > row.limit
Exhausted(row) == row.attempts >= row.limit

Unleased(row, state, error) ==
    [row EXCEPT !.state = state, !.owner = None, !.lease = 0, !.error = error]

\* An attempt that ended without a result: retry, or fail when the budget is spent.
AttemptLost(row, error) ==
    Unleased(row, IF Exhausted(row) THEN "failed" ELSE "pending", error)

Leased(row, w) ==
    [row EXCEPT !.state = "processing", !.attempts = @ + 1,
                !.owner = w, !.lease = LeaseTicks, !.error = None]

\* Inventory takes the job away.  An attempt in flight is given back.
SuspendedAlwaysRefunding(row, code) ==
    [Unleased(row, "paused", code) EXCEPT !.attempts = @ - 1]
SuspendedUnrefunded(row, code) == Unleased(row, "paused", code)
Suspended(row, code) ==
    [Unleased(row, "paused", code) EXCEPT
        !.attempts = IF row.state = "processing" /\ @ > 0 THEN @ - 1 ELSE @]

Completed(row, r, d) ==
    [Unleased(row, "completed", None) EXCEPT !.receipt = r, !.digest = d]

\* A completion whose receipt no longer matches is work again; the stage it reached stays.
Reopened(row, limit) ==
    [row EXCEPT !.state = "pending", !.receipt = None, !.digest = None,
                !.error = "RESULT_RECEIPT_INVALID", !.limit = limit]

OperatorPaused(row) == [row EXCEPT !.state = "paused", !.error = "OPERATOR_PAUSED"]

Resumed(row) == [row EXCEPT !.state = "pending", !.error = None]

-----------------------------------------------------------------------------
(* enqueue_media_job *)

ReceiptMismatched(j) ==
    job[j].state = "completed" /\ receipt[job[j].receipt] # job[j].digest

\* A paused job is resumed under the new request's attempt limit, a completed one without a
\* matching receipt is re-opened; anything else is returned as it is.
EnqueuedRowRetryingFailures(j, limit) ==
    IF job[j].state \in {"absent", "failed"} THEN NewRow(limit) ELSE job[j]
EnqueuedRow(j, limit) ==
    CASE job[j].state = "absent" -> NewRow(limit)
      [] job[j].state = "paused" -> [Resumed(job[j]) EXCEPT !.limit = limit]
      [] ReceiptMismatched(j)    -> Reopened(job[j], limit)
      [] OTHER                   -> job[j]

Enqueue(j, limit) ==
    /\ asset[AssetOf[j]] = "active"
    /\ ReceiptMismatched(j) => requeued[j] < MaxRequeues
    /\ job' = [job EXCEPT ![j] = EnqueuedRow(j, limit)]
    /\ requeued' = [requeued EXCEPT ![j] = IF ReceiptMismatched(j) THEN @ + 1 ELSE @]
    /\ UNCHANGED <<asset, receipt>>

-----------------------------------------------------------------------------
(* claim_media_jobs and its narrower variants *)

\* Every claim first ends the lapsed leases, then takes pending rows; a row it has just swept can
\* be taken in the same call.  A batch is a sequence of single claims at one instant.
Swept == [j \in Job |-> IF LeaseLapsed(job[j])
                        THEN AttemptLost(job[j], "WORKER_LEASE_EXPIRED")
                        ELSE job[j]]

\* The provider claims look at no asset; claim_media_jobs joins the active ones.
Claimable == {j \in Job : Swept[j].state = "pending"}
ClaimableActive == {j \in Claimable : asset[AssetOf[j]] = "active"}

ClaimProviderJob(w, j) ==
    /\ j \in Claimable
    /\ job' = [Swept EXCEPT ![j] = Leased(@, w)]
    /\ UNCHANGED <<asset, receipt, requeued>>

ClaimMediaJob(w, j) ==
    /\ j \in ClaimableActive
    /\ ClaimProviderJob(w, j)

\* A claim that finds no row: the sweep is all it does.
ClaimNothing ==
    /\ Claimable = {}
    /\ job' = Swept
    /\ UNCHANGED <<asset, receipt, requeued>>

-----------------------------------------------------------------------------
(* checkpoint_media_job, complete_media_job, fail_media_job *)

Checkpoint(w, j, stage) ==
    /\ LeaseCurrent(job[j], w)
    /\ stage >= job[j].stage
    /\ job' = [job EXCEPT ![j].stage = stage]
    /\ UNCHANGED <<asset, receipt, requeued>>

\* Completion needs a stored receipt that says the same digest, and some durable checkpoint.
Complete(w, j, r, d) ==
    /\ LeaseCurrent(job[j], w)
    /\ receipt[r] = d
    /\ job[j].stage > Queued
    /\ job' = [job EXCEPT ![j] = Completed(@, r, d)]
    /\ UNCHANGED <<asset, receipt, requeued>>

\* A failure report is not held to the lease's expiry.
Fail(w, j, code) ==
    /\ LeaseNamed(job[j], w)
    /\ job' = [job EXCEPT ![j] = AttemptLost(@, code)]
    /\ UNCHANGED <<asset, receipt, requeued>>

-----------------------------------------------------------------------------
(* Inventory and the operator *)

InFlight == {"pending", "processing"}

\* pauseSupersededJobs and complete_scoped_immich_inventory_run: pending and processing jobs of a
\* set are taken away with one code.
SuspendJobs(jobs, code) ==
    job' = [j \in Job |-> IF j \in jobs /\ job[j].state \in InFlight
                          THEN Suspended(job[j], code) ELSE job[j]]

\* pauseQueue: what is processing drains, what is pending waits.
OperatorPauseJobs ==
    job' = [j \in Job |-> IF job[j].state = "pending" THEN OperatorPaused(job[j]) ELSE job[j]]

\* resumeQueue: only what the operator paused.
OperatorResumeJobs ==
    job' = [j \in Job |-> IF job[j].state = "paused" /\ job[j].error = "OPERATOR_PAUSED"
                          THEN Resumed(job[j]) ELSE job[j]]

-----------------------------------------------------------------------------
(* The ledger under arbitrary callers *)

LedgerInit ==
    /\ job = [j \in Job |-> NoRow]
    /\ asset \in [Asset -> {"active", "missing"}]
    /\ receipt = [r \in Receipt |-> None]
    /\ requeued = [j \in Job |-> 0]

Suspend(j, code) ==
    /\ SuspendJobs({j}, code)
    /\ UNCHANGED <<asset, receipt, requeued>>

OperatorPause == OperatorPauseJobs /\ UNCHANGED <<asset, receipt, requeued>>

OperatorResume == OperatorResumeJobs /\ UNCHANGED <<asset, receipt, requeued>>

\* Time passes for every lease.
Tick ==
    /\ \E j \in Job : job[j].state = "processing" /\ job[j].lease >= 0
    /\ job' = [j \in Job |-> IF job[j].state = "processing" /\ job[j].lease >= 0
                             THEN [job[j] EXCEPT !.lease = @ - 1] ELSE job[j]]
    /\ UNCHANGED <<asset, receipt, requeued>>

\* A commit stores its producer receipt once, or finds it there.
RecordReceipt(r, d) ==
    /\ receipt[r] = None
    /\ receipt' = [receipt EXCEPT ![r] = d]
    /\ UNCHANGED <<job, asset, requeued>>

\* Whatever makes a stored receipt disagree with the jobs that cite it (a repair, a restore).
ReceiptDrifts(r, d) ==
    /\ receipt[r] # None
    /\ receipt' = [receipt EXCEPT ![r] = d]
    /\ UNCHANGED <<job, asset, requeued>>

AssetMoves(a, s) ==
    /\ asset' = [asset EXCEPT ![a] = s]
    /\ UNCHANGED <<job, receipt, requeued>>

Claim ==
    \/ \E w \in Worker, j \in Job : ClaimProviderJob(w, j)
    \/ \E w \in Worker, j \in Job : ClaimMediaJob(w, j)
    \/ ClaimNothing

LedgerNext ==
    \/ \E j \in Job, limit \in AttemptLimits : Enqueue(j, limit)
    \/ Claim
    \/ \E w \in Worker, j \in Job, stage \in CheckpointStage : Checkpoint(w, j, stage)
    \/ \E w \in Worker, j \in Job, r \in Receipt, d \in Digest : Complete(w, j, r, d)
    \/ \E w \in Worker, j \in Job, code \in WorkerCode : Fail(w, j, code)
    \/ \E j \in Job, code \in SuspendCode : Suspend(j, code)
    \/ OperatorPause
    \/ OperatorResume
    \/ Tick
    \/ \E r \in Receipt, d \in Digest : RecordReceipt(r, d) \/ ReceiptDrifts(r, d)
    \/ \E a \in Asset, s \in {"active", "missing"} : AssetMoves(a, s)

LedgerSpec == LedgerInit /\ [][LedgerNext]_ledgerVars

\* Time passes, and workers keep asking for work.
LedgerFairSpec == LedgerSpec /\ WF_ledgerVars(Tick) /\ WF_ledgerVars(Claim)

-----------------------------------------------------------------------------
(* Properties *)

LedgerTypeOK ==
    /\ job \in [Job -> JobRow]
    /\ asset \in [Asset -> {"active", "missing"}]
    /\ receipt \in [Receipt -> Digest \cup {None}]
    /\ requeued \in [Job -> 0..MaxRequeues]

RowConsistent(row) ==
    /\ row.state = "absent" => row = NoRow
    /\ row.state = "processing" <=> row.owner # None
    /\ row.state = "processing" => row.attempts > 0
    /\ row.state # "processing" => row.lease = 0
    /\ row.state = "completed" => row.receipt # None /\ row.digest # None /\ row.stage > Queued
    /\ row.state = "failed" => row.error # None
    /\ row.state # "absent" => row.limit > 0

\* No writer trips a CHECK of the table or the completion trigger: a lease is held exactly while
\* processing (and has been paid for by an attempt), a completed job names its receipt and a
\* checkpoint, a failed one its error.  0030_resumable_media_job_v1.sql:44-56 and 97-117.
RowsConsistent == \A j \in Job : RowConsistent(job[j])

\* Leased no more often than some request allowed, and an attempt left where one can still be made.
WithinBudget(row, reopened) ==
    /\ \E limit \in AttemptLimits : row.attempts <= limit + reopened
    /\ row.state \in {"pending", "paused"} =>
          \E limit \in AttemptLimits : row.attempts < limit + reopened

\* Retries are bounded: however often a job is paused, resumed, taken away and handed back, it is
\* leased no more often than the largest limit any request carried, plus once for each completion
\* that was re-opened (which keeps its attempts).  claim_media_jobs itself has no such guard.
RetriesBounded == \A j \in Job : WithinBudget(job[j], requeued[j])

\* Rows stay legal and retries bounded: each rests on the other, in every order of calls.
LedgerSound == RowsConsistent /\ RetriesBounded

\* A failed job is never touched again, and a completed one only by an enqueue that finds its
\* receipt mismatched: no late report, pause, resume or suspension moves either.
OutcomesFinal ==
    [][\A j \in Job :
        /\ job[j].state = "failed" => job'[j] = job[j]
        /\ job[j].state = "completed" /\ job'[j] # job[j] => ReceiptMismatched(j)]_ledgerVars

\* Durable progress is never lost, whatever interrupts an attempt.
ProgressKept == [][\A j \in Job : job'[j].stage >= job[j].stage]_ledgerVars

\* Jobs only advance: whatever calls race, repeat or come late, outcomes and progress stand.
JobsOnlyAdvance == OutcomesFinal /\ ProgressKept

\* A lease whose worker died is recovered: the job leaves "processing", if only because each
\* recovery by another worker costs an attempt.
LeaseRecoveredOf(j) == job[j].state = "processing" ~> job[j].state # "processing"
LeaseRecovered == \A j \in Job : LeaseRecoveredOf(j)
=============================================================================
