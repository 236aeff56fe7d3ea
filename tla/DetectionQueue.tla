--------------------------- MODULE DetectionQueue ---------------------------
(***************************************************************************)
(* Face detection end to end: the Immich library changes, inventory copies *)
(* what it sees into projections and jobs, worker executions claim jobs,   *)
(* read the media and commit results, and the operator pauses and resumes  *)
(* the queue.  The rows and their transitions are those of MediaJobLedger. *)
(*                                                                         *)
(* A job is one asset at one input revision (one provider configuration).  *)
(* An execution is one call of the worker's runNext, which leases under    *)
(* the name of the worker it belongs to.  Each of its awaits is a step of  *)
(* its own, so any other actor's transaction can fall between two of them. *)
(*                                                                         *)
(* Left out: claim order, batching of executions into commands, several    *)
(* sources of one asset, multi-page runs (one page lists the library), and *)
(* the refresh of single assets that are shown (immich-asset-activity.mjs, *)
(* which may mark the projection and the binding of an asset active or     *)
(* missing between two runs).                                              *)
(***************************************************************************)
EXTENDS MediaJobLedger

CONSTANTS
    Exec,           \* executions of the detection worker, each run again and again
    WorkerName,     \* the lease_owner name each execution uses
    MaxRevision,    \* bound on the revisions of an asset
    RevisionOf,     \* the input revision of each job
    MaxAttempts,    \* the maxAttempts the inventory's job configuration carries
    MaxMoves        \* bound on the library's changes of each asset

Revision == 1..MaxRevision

ASSUME QueueAssumption ==
    /\ WorkerName \in [Exec -> Worker]
    /\ MaxRevision \in Nat \ {0}
    /\ RevisionOf \in [Job -> Revision]
    /\ \A j, k \in Job : AssetOf[j] = AssetOf[k] /\ RevisionOf[j] = RevisionOf[k] => j = k
    /\ MaxAttempts \in AttemptLimits
    /\ MaxMoves \in Nat
    /\ Receipt = Digest
    /\ None \notin Exec /\ None \notin Job /\ None \notin Revision

VARIABLES
    library,    \* [Asset -> the asset in Immich: revision, presence, changes so far]
    projection, \* [Asset -> its immich_asset_projection row]
    binding,    \* [Asset -> state of its Immich asset_source_binding, "none" without one]
    run,        \* the inventory run in progress and the page it has fetched
    control,    \* media_operator_control.state
    exec,       \* [Exec -> where the execution is]
    result,     \* [Job -> revision of the bytes its stored result describes, or None]
    holder,     \* [Job -> execution that made the last claim, or None] (history)
    author,     \* [Job -> execution that committed the result, or None] (history)
    lost,       \* [Job -> attempts that ended without a result] (history)
    claims      \* [Exec -> claims made under the current pause] (history)

worldVars == <<library, projection, binding, run, control>>
workVars == <<exec, result, holder, author, lost, claims>>
queueVars == <<ledgerVars, worldVars, workVars>>

-----------------------------------------------------------------------------

Presence == {"visible", "trashed", "gone"}

\* How far a run has come: its page fetched, recorded, the run completed, bindings reconciled.
RunPhase == {"none", "fetched", "recorded", "completed", "bound"}

NoRun == [kind |-> "none", phase |-> "none", listing |-> <<>>]

Idle == [pc |-> "idle", job |-> None, bytes |-> None, cause |-> None]

QueueInit ==
    /\ LedgerInit
    /\ asset = [a \in Asset |-> "missing"]
    /\ library = [a \in Asset |-> [rev |-> 1, presence |-> "visible", moves |-> 0]]
    /\ projection = [a \in Asset |-> [rev |-> None, state |-> "none"]]
    /\ binding = [a \in Asset |-> "none"]
    /\ run = NoRun
    /\ control = "running"
    /\ exec = [e \in Exec |-> Idle]
    /\ result = [j \in Job |-> None]
    /\ holder = [j \in Job |-> None]
    /\ author = [j \in Job |-> None]
    /\ lost = [j \in Job |-> 0]
    /\ claims = [e \in Exec |-> 0]

-----------------------------------------------------------------------------
(* The Immich library *)

\* An edit gives a new revision (updatedAt is part of it), and may come with trash or restore.
LibraryMoves(a, presence, edits) ==
    /\ library[a].moves < MaxMoves
    /\ edits => library[a].rev < MaxRevision
    /\ edits \/ presence # library[a].presence
    /\ library' = [library EXCEPT ![a] =
                      [rev |-> IF edits THEN @.rev + 1 ELSE @.rev,
                       presence |-> presence, moves |-> @.moves + 1]]
    /\ UNCHANGED <<ledgerVars, projection, binding, run, control, workVars>>

-----------------------------------------------------------------------------
(* Inventory *)

\* A full listing leaves deleted rows out, a catalogue-presence listing includes the trash.
Listing(kind) ==
    [a \in {b \in Asset : library[b].presence
                          \in (IF kind = "presence" THEN {"visible", "trashed"} ELSE {"visible"})}
        |-> [rev |-> library[a].rev, trashed |-> library[a].presence = "trashed"]]

\* Begin a run, or resume one with the cursor where it was, and read its page from Immich.  A run
\* that is completed is over, whether or not its reconciliation got done.
FetchPage(kind) ==
    /\ run.phase = "fetched" => run.kind = kind
    /\ run.phase # "recorded"
    /\ run' = [kind |-> kind, phase |-> "fetched", listing |-> Listing(kind)]
    /\ UNCHANGED <<ledgerVars, library, projection, binding, control, workVars>>

Listed == DOMAIN run.listing

Superseded(a) == projection[a].rev \notin {None, run.listing[a].rev}

PagedRow(j, withJob) ==
    LET a == AssetOf[j] IN
    CASE a \notin Listed -> job[j]
      [] a \in Listed /\ RevisionOf[j] = run.listing[a].rev ->
            IF withJob THEN EnqueuedRow(j, MaxAttempts) ELSE job[j]
      [] a \in Listed /\ RevisionOf[j] # run.listing[a].rev ->
            IF Superseded(a) /\ job[j].state \in InFlight
            THEN Suspended(job[j], "INPUT_REVISION_SUPERSEDED") ELSE job[j]

\* recordPage: one transaction over every asset of the page.  A run may have no job configured.
RecordPage(withJob) ==
    /\ run.kind = "full" /\ run.phase = "fetched"
    /\ job' = [j \in Job |-> PagedRow(j, withJob)]
    /\ asset' = [a \in Asset |-> IF a \in Listed THEN "active" ELSE asset[a]]
    /\ projection' = [a \in Asset |-> IF a \in Listed
                                      THEN [rev |-> run.listing[a].rev, state |-> "active"]
                                      ELSE projection[a]]
    /\ binding' = [a \in Asset |-> IF a \in Listed THEN "active" ELSE binding[a]]
    /\ run' = [run EXCEPT !.phase = "recorded"]
    /\ UNCHANGED <<receipt, requeued, library, control, workVars>>

\* recordImmichCataloguePresencePage: only projections that exist, and no job.  Its one statement
\* sets the asset from the bindings as they were before it refreshed them.
RecordPresencePage ==
    LET known == {a \in Listed : projection[a].state # "none"}
        seen(a) == IF run.listing[a].trashed THEN "missing" ELSE "active"
    IN
    /\ run.kind = "presence" /\ run.phase = "fetched"
    /\ projection' = [a \in Asset |-> IF a \in known THEN [projection[a] EXCEPT !.state = seen(a)]
                                      ELSE projection[a]]
    /\ binding' = [a \in Asset |-> IF a \in known THEN seen(a) ELSE binding[a]]
    /\ asset' = [a \in Asset |-> IF a \in known THEN binding[a] ELSE asset[a]]
    /\ run' = [run EXCEPT !.phase = "recorded"]
    /\ UNCHANGED <<job, receipt, requeued, library, control, workVars>>

\* complete_scoped_immich_inventory_run: only a listing that includes deleted rows proves absence.
Absent == {a \in Asset \ Listed : projection[a].state = "active"}

CompleteRun ==
    /\ run.phase = "recorded"
    /\ \/ /\ run.kind = "presence"
          /\ SuspendJobs({j \in Job : AssetOf[j] \in Absent}, "ASSET_NOT_VISIBLE")
          /\ projection' = [a \in Asset |-> IF a \in Absent
                                            THEN [projection[a] EXCEPT !.state = "missing"]
                                            ELSE projection[a]]
          /\ asset' = [a \in Asset |-> IF projection'[a].state = "missing" THEN "missing"
                                       ELSE asset[a]]
       \/ run.kind = "full" /\ UNCHANGED <<job, projection, asset>>
    /\ run' = [run EXCEPT !.phase = "completed", !.listing = <<>>]
    /\ UNCHANGED <<receipt, requeued, library, binding, control, workVars>>

\* reconcileMobilityBindings, statement by statement, after the run is completed.
ReconcileBindings ==
    /\ run.phase = "completed"
    /\ binding' = [a \in Asset |-> projection[a].state]
    /\ run' = [run EXCEPT !.phase = "bound"]
    /\ UNCHANGED <<ledgerVars, library, projection, control, workVars>>

ReconcileAssets ==
    /\ run.phase = "bound"
    /\ asset' = [a \in Asset |-> IF binding[a] = "none" THEN asset[a] ELSE binding[a]]
    /\ run' = NoRun
    /\ UNCHANGED <<job, receipt, requeued, library, projection, binding, control, workVars>>

\* ensureCurrentJobs: visible assets that have neither a result nor any job of their revision.
EnsurableJobs ==
    {j \in Job : /\ asset[AssetOf[j]] = "active"
                 /\ projection[AssetOf[j]] = [rev |-> RevisionOf[j], state |-> "active"]
                 /\ result[j] = None
                 /\ job[j].state = "absent"}

EnsureCurrentJobs ==
    /\ EnsurableJobs # {}
    /\ job' = [j \in Job |-> IF j \in EnsurableJobs THEN EnqueuedRow(j, MaxAttempts) ELSE job[j]]
    /\ UNCHANGED <<asset, receipt, requeued, worldVars, workVars>>

-----------------------------------------------------------------------------
(* The operator *)

PauseQueue ==
    /\ control' = "paused"
    /\ OperatorPauseJobs
    /\ claims' = [e \in Exec |-> 0]
    /\ UNCHANGED <<asset, receipt, requeued, library, projection, binding, run>>
    /\ UNCHANGED <<exec, result, holder, author, lost>>

ResumeQueue ==
    /\ control' = "running"
    /\ OperatorResumeJobs
    /\ claims' = [e \in Exec |-> 0]
    /\ UNCHANGED <<asset, receipt, requeued, library, projection, binding, run>>
    /\ UNCHANGED <<exec, result, holder, author, lost>>

-----------------------------------------------------------------------------
(* The worker *)

Name(e) == WorkerName[e]
Mine(e) == exec[e].job

Goes(e, pc) == exec' = [exec EXCEPT ![e].pc = pc]
Fails(e, code) == exec' = [exec EXCEPT ![e].pc = "failing", ![e].cause = code]
Ends(e) == exec' = [exec EXCEPT ![e] = Idle]

\* Attempts the step ends without a result: swept, or reported as failed.
CountLost(jobs) == lost' = [j \in Job |-> IF j \in jobs THEN lost[j] + 1 ELSE lost[j]]
Lapsed == {j \in Job : LeaseLapsed(job[j])}

ReadControlBlindly(e) ==
    /\ exec[e].pc = "idle"
    /\ Goes(e, "admitted")
    /\ UNCHANGED <<ledgerVars, worldVars, result, holder, author, lost, claims>>
ReadControl(e) ==
    /\ exec[e].pc = "idle"
    /\ control = "running"
    /\ Goes(e, "admitted")
    /\ UNCHANGED <<ledgerVars, worldVars, result, holder, author, lost, claims>>

ClaimJob(e) ==
    /\ exec[e].pc = "admitted"
    /\ \E j \in Job :
          /\ ClaimProviderJob(Name(e), j)
          /\ exec' = [exec EXCEPT ![e].pc = "claimed", ![e].job = j]
          /\ holder' = [holder EXCEPT ![j] = e]
    /\ CountLost(Lapsed)
    /\ claims' = [claims EXCEPT ![e] = IF control = "paused" THEN @ + 1 ELSE @]
    /\ UNCHANGED <<worldVars, result, author>>

FindNoJob(e) ==
    /\ exec[e].pc = "admitted"
    /\ ClaimNothing
    /\ CountLost(Lapsed)
    /\ Ends(e)
    /\ UNCHANGED <<worldVars, result, holder, author, claims>>

LocateProjection(e) ==
    LET found == projection[AssetOf[Mine(e)]] = [rev |-> RevisionOf[Mine(e)], state |-> "active"]
    IN
    /\ exec[e].pc = "claimed"
    /\ IF found THEN Goes(e, "located") ELSE Fails(e, "IMMICH_ASSET_PROJECTION_UNAVAILABLE")
    /\ UNCHANGED <<ledgerVars, worldVars, result, holder, author, lost, claims>>

\* readAssetImage reads the asset's metadata, then its original bytes.  The revision the worker
\* compares is the metadata's.
ReadMetadata(e) ==
    LET a == AssetOf[Mine(e)] IN
    /\ exec[e].pc = "located"
    /\ IF library[a].presence = "visible" /\ library[a].rev = RevisionOf[Mine(e)]
       THEN Goes(e, "described") ELSE Fails(e, "WORKER_ERROR")
    /\ UNCHANGED <<ledgerVars, worldVars, result, holder, author, lost, claims>>

ReadBytes(e) ==
    LET a == AssetOf[Mine(e)] IN
    /\ exec[e].pc = "described"
    /\ IF library[a].presence # "gone"
       THEN exec' = [exec EXCEPT ![e].pc = "read", ![e].bytes = library[a].rev]
       ELSE Fails(e, "WORKER_ERROR")
    /\ UNCHANGED <<ledgerVars, worldVars, result, holder, author, lost, claims>>

VerifyInventory(e) ==
    /\ exec[e].pc = "read"
    /\ \/ /\ Checkpoint(Name(e), Mine(e), InventoryVerified)
          /\ Goes(e, "verified")
       \/ /\ ~LeaseCurrent(job[Mine(e)], Name(e))
          /\ Fails(e, "WORKER_ERROR")
          /\ UNCHANGED ledgerVars
    /\ UNCHANGED <<worldVars, result, holder, author, lost, claims>>

DetectorFails(e) ==
    /\ exec[e].pc = "verified"
    /\ Fails(e, "WORKER_ERROR")
    /\ UNCHANGED <<ledgerVars, worldVars, result, holder, author, lost, claims>>

\* commitFaceDetectionJobResult: receipt, result, last checkpoint and completion, all or nothing.
Committed(e, d) ==
    LET j == Mine(e) IN
    /\ job' = [job EXCEPT ![j] = Completed([@ EXCEPT !.stage = ObservationsRecorded], d, d)]
    /\ receipt' = [receipt EXCEPT ![d] = d]
    /\ result' = [result EXCEPT ![j] = IF @ = None THEN exec[e].bytes ELSE @]
    /\ author' = [author EXCEPT ![j] = IF @ = None THEN e ELSE @]
    /\ Ends(e)
    /\ UNCHANGED <<asset, requeued, worldVars, holder, lost, claims>>

CommitUnfenced(e, d) ==
    /\ exec[e].pc = "verified"
    /\ job[Mine(e)].state = "processing"
    /\ Committed(e, d)
CommitUnguarded(e, d) ==
    /\ exec[e].pc = "verified"
    /\ job[Mine(e)].state \in InFlight \cup {"paused"}
    /\ Committed(e, d)
CommitTornApart(e, d) ==
    /\ exec[e].pc = "verified"
    /\ result' = [result EXCEPT ![Mine(e)] = exec[e].bytes]
    /\ author' = [author EXCEPT ![Mine(e)] = e]
    /\ IF LeaseCurrent(job[Mine(e)], Name(e))
       THEN Committed(e, d)
       ELSE Ends(e) /\ UNCHANGED <<ledgerVars, worldVars, holder, lost, claims>>
Commit(e, d) ==
    /\ exec[e].pc = "verified"
    /\ LeaseCurrent(job[Mine(e)], Name(e))
    /\ Committed(e, d)

CommitRefused(e) ==
    /\ exec[e].pc = "verified"
    /\ ~LeaseCurrent(job[Mine(e)], Name(e))
    /\ Fails(e, "WORKER_ERROR")
    /\ UNCHANGED <<ledgerVars, worldVars, result, holder, author, lost, claims>>

\* The failure report.  "Lease is not current" (55000) is swallowed.
ReportFailure(e) ==
    /\ exec[e].pc = "failing"
    /\ IF LeaseNamed(job[Mine(e)], Name(e))
       THEN Fail(Name(e), Mine(e), exec[e].cause) /\ CountLost({Mine(e)})
       ELSE UNCHANGED <<ledgerVars, lost>>
    /\ Ends(e)
    /\ UNCHANGED <<worldVars, result, holder, author, claims>>

\* The process dies, or its failure report does not get through.
Stop(e) ==
    /\ Mine(e) # None
    /\ Ends(e)
    /\ UNCHANGED <<ledgerVars, worldVars, result, holder, author, lost, claims>>

LeaseTick == Tick /\ UNCHANGED <<worldVars, workVars>>

WorkerStep(e) ==
    \/ ReadControl(e) \/ ClaimJob(e) \/ FindNoJob(e)
    \/ LocateProjection(e) \/ ReadMetadata(e) \/ ReadBytes(e) \/ VerifyInventory(e)
    \/ DetectorFails(e) \/ CommitRefused(e) \/ ReportFailure(e)
    \/ \E d \in Digest : Commit(e, d)

QueueNext ==
    \/ \E a \in Asset, presence \in Presence, edits \in BOOLEAN : LibraryMoves(a, presence, edits)
    \/ \E kind \in {"full", "presence"} : FetchPage(kind)
    \/ \E withJob \in BOOLEAN : RecordPage(withJob)
    \/ RecordPresencePage
    \/ CompleteRun
    \/ ReconcileBindings
    \/ ReconcileAssets
    \/ EnsureCurrentJobs
    \/ PauseQueue
    \/ ResumeQueue
    \/ \E e \in Exec : WorkerStep(e) \/ Stop(e)
    \/ LeaseTick

QueueSpec == QueueInit /\ [][QueueNext]_queueVars

\* Time passes and executions run, one after another; nothing is asked of Immich, the inventory
\* or the operator.
QueueFairSpec ==
    /\ QueueSpec
    /\ WF_queueVars(LeaseTick)
    /\ \A e \in Exec : WF_queueVars(WorkerStep(e))

-----------------------------------------------------------------------------
(* Properties *)

ExecState ==
    [pc : {"idle", "admitted", "claimed", "located", "described", "read", "verified", "failing"},
     job : Job \cup {None}, bytes : Revision \cup {None}, cause : WorkerCode \cup {None}]

QueueTypeOK ==
    /\ LedgerTypeOK
    /\ library \in [Asset -> [rev : Revision, presence : Presence, moves : 0..MaxMoves]]
    /\ projection \in [Asset -> [rev : Revision \cup {None}, state : {"none", "active", "missing"}]]
    /\ binding \in [Asset -> {"none", "active", "missing"}]
    /\ run.kind \in {"none", "full", "presence"} /\ run.phase \in RunPhase
    /\ Listed \subseteq Asset
    /\ control \in {"running", "paused"}
    /\ exec \in [Exec -> ExecState]
    /\ \A e \in Exec : exec[e].pc \in {"idle", "admitted"} <=> Mine(e) = None
    /\ result \in [Job -> Revision \cup {None}]
    /\ holder \in [Job -> Exec \cup {None}] /\ author \in [Job -> Exec \cup {None}]
    /\ lost \in [Job -> Nat] /\ claims \in [Exec -> Nat]

\* A completion and the stored result come together or not at all, whichever execution commits
\* and whatever happened to its job meanwhile (one transaction, under the job's row lock).
ResultsBound == \A j \in Job : job[j].state = "completed" <=> result[j] # None

\* Attempts are counted exactly: what an attempt cost is what it lost, and being taken away by
\* the inventory, even in the middle of an attempt, costs nothing.
AttemptsAccounted ==
    \A j \in Job : job[j].attempts =
        lost[j] + (IF job[j].state \in {"processing", "completed"} THEN 1 ELSE 0)

\* After a pause an execution that had already read "running" may claim once more (inventory keeps
\* enqueueing), and no execution claims twice.
PauseBounded == \A e \in Exec : claims[e] <= 1

\* A result is only ever committed for the revision the projection has: whoever records a newer
\* revision has in the same transaction taken the older jobs from their executions.
NoObsoleteResult ==
    [][\A j \in Job : result'[j] # result[j] => projection[AssetOf[j]].rev = RevisionOf[j]]_queueVars

\* The queue is exclusive work: one holder at a time, finished once and only by its holder.
Work == INSTANCE ExclusiveWork WITH
    Item <- Job, Agent <- Exec,
    phase <- [j \in Job |-> CASE job[j].state = "completed" -> "done"
                              [] job[j].state = "failed" -> "dead"
                              [] OTHER -> "open"],
    holder <- [j \in Job |-> IF job[j].state = "processing" THEN holder[j] ELSE None],
    author <- author

WorkExclusive == Work!Spec

\* Work in flight settles, however often its executions die: unless the queue is paused, a job
\* leaves pending and processing for good or until inventory or the operator hands it out again.
JobSettles ==
    \A j \in Job : job[j].state \in InFlight ~> (job[j].state \notin InFlight \/ control = "paused")

-----------------------------------------------------------------------------
(* What the documentation says, and the code does not do *)

\* "a changed inputRevision pauses obsolete uncompleted work": a job whose revision is not the
\* projection's is not handed out.  service/README.md:596.
SupersededStaysPaused ==
    \A j \in Job :
        projection[AssetOf[j]].rev \notin {None, RevisionOf[j]} => job[j].state \notin InFlight

\* Trash is "missing immediately", and "reappearance resumes the exact paused job": once a run is
\* over, no job of a missing asset is handed out.  service/README.md:599-602.
MissingWorkPaused ==
    \A j \in Job :
        run.phase = "none" /\ projection[AssetOf[j]].state = "missing" => job[j].state \notin InFlight

\* "claims exclusive expiring leases": an execution whose reports the ledger accepts is the one
\* that made the claim.  service/README.md:626.
LeasesExclusive ==
    \A e \in Exec :
        Mine(e) # None /\ LeaseNamed(job[Mine(e)], Name(e)) => holder[Mine(e)] = e

\* "Asset input revision changed during media read" is an error: the bytes a result describes are
\* those of the job's revision.  local-face-detection-worker.mjs:250-257.
ResultDescribesRevision == \A j \in Job : result[j] \in {None, RevisionOf[j]}
=============================================================================
