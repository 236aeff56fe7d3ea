# Cimmich: formal models of its queues, ledgers and stores

These modules specify parts of Cimmich in TLA+. TLC checks them on small
instances, and TLAPS proves theorems about them for every instance. The
modules follow the code in `src/`; where a document or comment says something
else, a run shows the difference or a property excludes it by name (see *Findings*).

## The system

Cimmich is a companion of an Immich photo library. A Node service
(`service/`) keeps its own Postgres database (`migrations/`), copies what it
needs to know about the library into it, runs local detection and recognition
providers over the originals, and lets people review what they find. Immich is
only ever read.

Most state lives in Postgres and changes in transactions. The service runs many
asynchronous operations at once in one process; separate command-line processes
(backlog runs, inventory runs) work on the same database; and any of them can die
between two statements. So the hard behaviour lies *between* transactions: state
read in one await and used after the next, leases that lapse under a slow worker,
retries of commands whose answer was lost, and library changes in the middle of it.

### Inventory of components

| Component | State | Operations | What is hard | What makes it correct |
| --- | --- | --- | --- | --- |
| Media job ledger (`migrations/0030`, `0093`, `0094`, `media-job-ledger.mjs`) | `media_job` rows: state, attempts, lease, checkpoint, receipt | enqueue, claim (and sweep), checkpoint, complete, fail | ten writers of one row; dead and late workers; retry budgets | rows stay legal, retries bounded, outcomes final, progress kept, leases recovered |
| Detection worker and commit (`local-face-detection-worker.mjs`, `face-detection-job-commit.mjs`) | one execution's place between awaits | read control, claim, read projection, read media, checkpoint, detect, commit, fail | everything may change between two awaits | result and completion agree; no result of an obsolete revision; exclusive work |
| Inventory (`immich-inventory*.mjs`, `migrations/0032`, `0145`, `0146`) | runs, lanes, pages, projections, bindings, assets | begin/resume, record page, complete, reconcile, ensure jobs | page replay, crash between page and cursor, absence against partial listings | a page is applied once; only a complete listing proves absence; obsolete work is taken away |
| Catalogue presence (`immich-catalogue-presence.mjs`) | the same rows | record a presence page | trash and restore while jobs run | availability follows the listing |
| Media operator (`media-operator.mjs`, `migrations/0035`) | control row, command rows | pause, resume, run, replay | crash between effect and outcome, overlapping calls | one outcome per command; a running queue strands nothing |
| Recognition (`local-*-recognition-worker.mjs`, `media-pipeline.mjs`, `owner-face-recognition.mjs`) | ledger rows, packets, embeddings | continue a detection, recognise, schedule existing faces | stages of two jobs, staleness of source content | embeddings belong to the bound observations |
| Backlog drivers (`bounded-backlog.mjs`, `face-detection-backlog.mjs`) | a shared counter, the summary | schedule, run N workers up to a limit, report | pause and crash of one of several loops | never beyond the limit; the report comes last and a clean one is earned |
| Coalescing lane (`coalescing-maintenance-lane.mjs`, `repository-maintenance.mjs`) | tracked keys, pending list, timers | schedule, drain, run, retry, whenIdle | requests during runs and backoffs | no lost request, one run per key, idle means done |
| Connection commands (`connection-command-ledger.mjs`, `connection-facts.mjs`, `migrations/0150`, `0156`) | ledger rows, the history of facts | claim, record or retract, complete, replay | the same command twice at once, lost answers, two facts for one pair | applied once, replayed with one response; one current fact per pair |
| Observation corrections (`observation-correction.mjs`, `migrations/0053`) | a face's region, state and revision, operations with snapshots, tombstones | correct, reject, undo, replay | repeats and races; claims decided and embeddings stored between a correction and its undo | the last correction can be taken back; an undo restores what was found; a command counts once |
| Hubs; manual tags, presence and photo context | claims and their history | single-transaction commands, undo | replay, undo of superseded facts | history is append-only, the current view follows |
| Source rollover, archive missing files, archive mobility | bindings, retirement commands | move a source, retire files | racing an inventory run | a retired binding never comes back by itself |
| SourcePack rebuild (`migrations/0028`, `source-pack-rebuild-worker.mjs`, `face-matching-operator.mjs`) | rebuild requests with leases | enqueue or fold, claim, compile, complete, release | corrections that commit during a compile, leases that lapse under a worker | no correction is forgotten; the queue drains |
| SourcePack lifecycle (`source-pack-lifecycle.mjs`, triggers of `migrations/0003`, `0049`, `0132`) | packs: state, receipt, predecessor | compile, evaluate, review, activate, roll back, reject, correct | row locks and triggers of overlapping transactions | one active pack, of trusted evidence; a rejected one stays retired |
| Folder albums (`CimmichFolderAlbumManifest.svelte`, `bulk-album-operations.mjs`, `asset-labels.mjs`) | operation and checkpoints, membership events, the page | apply batch by batch, checkpoint, undo, keep | pages that close and reopen, requests that fail after their effect, changes by hand | undo takes back exactly its own |
| Resident recogniser (`insightface-user-supplied-recognizer.mjs`) | the process, its pending call, timers | queue, send, answer, time out, restart | events of a killed process, late answers | answers reach their own call; no call waits for ever |
| Person match refresh | snapshots per person | refresh, invalidate | stale results applied late | a newer request wins |
| Identity audit, possible people, pet matching | runs, decisions | score, cluster, decide | decisions on outdated projections | decisions cite what they were made on |
| Documents (`documents.mjs`) | files and rows | import, replay, clean up | file and row are not one transaction; quota across processes | no row without its file; quota kept |
| Visibility | sessions, ceilings | unlock, expire | expiry during a request | nothing above the ceiling is read |
| Migration runner (`migration-runner.mjs`) | `cimmich_schema_migration` and `_patch` rows, an advisory lock | lock, adopt, compare, apply | crashes in the middle, starts of several releases at once | every body applied once, in order, with its row; who came up is current; nobody is refused without cause |
| Database backup health, archive backup scanner, XMP import, local AI service, subprocess termination, bounded map, guided access, Prime curator, summaries and search | files, processes, caches | read state, scan, import, install, stop | I/O, partial failure of batches | mostly outside a model's reach, see `PROJECT.json` |
| Immich companion, HTTP server, repository, user interface, provider programs, tools | none durable of their own | requests, queries, pages, inference, shell | I/O | not modelled, except for the media read |

How they interact: the operator's commands and the command-line runs call
inventory and the workers; inventory and the operator write the same `media_job`
rows as the workers; a completed detection is continued into recognition; human
decisions schedule the maintenance lane, which rebuilds Prime and body-link
projections; recognised embeddings and decisions feed SourcePacks, and those the
matching. The shared state is the database: there are no messages but HTTP
requests to Immich and to providers.

## The modules

| Module | What it is |
| --- | --- |
| `MediaJobLedger` | the job ledger under arbitrary callers |
| `MediaJobLedgerProofs` | the proofs of its safety |
| `DetectionQueue` | extends the ledger: library, inventory, operator pauses and worker executions, step by step |
| `DetectionQueueProofs` | the proofs of its safety and of its refinement |
| `FaceRecognition` | extends the ledger: the recognition of accepted faces, scheduler and worker, read by read |
| `FaceRecognitionProofs` | the proofs of its safety, on top of the ledger's |
| `ExclusiveWork` | the abstract specification `DetectionQueue` implements |
| `MediaOperator` | extends the ledger: the operator's commands, their leases, retries and crashes |
| `CoalescingLane` | the in-process maintenance lane |
| `CoalescingLaneProofs` | the proofs of its safety |
| `ConnectionCommands` | connection commands and their ledger |
| `ExactlyOnce` | the abstract specification `ConnectionCommands` implements |
| `ImmichInventory` | inventory runs of both kinds, presence, reconciliation, removal |
| `RebuildQueue` | rebuild requests: corrections, workers, the compile command |
| `SourcePackLifecycle` | SourcePacks: review, activation, rollback, rejection, corrections |
| `FolderAlbums` | folder collections: the page, its operation, its undo |
| `CatalogueProofs` | the proofs about `ImmichInventory` and `FolderAlbums` |
| `DocumentImports` | documents: rows, files, quota, cleanup |
| `CommandProofs` | the proofs about `ConnectionCommands`, with its refinement, and `DocumentImports` |
| `ResidentRecognizer` | one process behind a queue of calls |
| `ServicesProofs` | the proofs about `SourcePackLifecycle`, `RebuildQueue` and `ResidentRecognizer`, and about the composition `MCServices` |
| `MigrationRunner` | racing starts of several releases over one database |
| `BoundedBacklog` | one bounded run over the detection backlog |
| `FaceCorrection` | corrections of one face and their undo |
| `OperationsProofs` | the proofs about `MediaOperator`, `MigrationRunner`, `FaceCorrection` and `BoundedBacklog`, and about the composition `MCOperations` |
| `MC...` | instances for TLC: definitions of the constant functions; `MCServices`, `MCOperations`, `MCUpkeep` and `MCProgress` each run several components side by side |

### MediaJobLedger

`job` maps each work identity (asset, operation, tool version, configuration,
input revision: the columns of the table's unique key) to its row, `NoRow` before
it is enqueued. `asset` and `receipt` are the columns of other tables that the
statements read; `requeued` is a history variable that counts re-opened completions.

The row operators (`NewRow`, `Leased`, `AttemptLost`, `Suspended`, `Completed`,
`Reopened`, `OperatorPaused`, `Resumed`) are the `SET` clauses, and each action is
one statement or SQL function: `Enqueue` (`enqueue_media_job`), `ClaimProviderJob`
/ `ClaimMediaJob` / `ClaimNothing` (the sweep and the claim of one call),
`Checkpoint`, `Complete`, `Fail`, `Suspend` (`pauseSupersededJobs` and the pause
inside `complete_scoped_immich_inventory_run`), `OperatorPause`, `OperatorResume`.
Callers are arbitrary: any worker name may report on any job at any time, with
any stage, receipt and digest. That includes every worker of the service, which
is why other workers' ledger calls need no module of their own.

Time: a lease is the time it has left. It is *current* (checkpoint, completion)
while positive, may be reported on by name (failure) until it is swept, and is
swept once it is below zero: `<=` in the first comparison and `<` in the sweep make
the instant 0 differ from both. A claim sweeps and takes in one transaction, so a
swept row can be taken by the same call.

Left out: checkpoint payloads and revisions, the event log, claim order
(`requested_at`; any claimable row may be taken) and the scope of the provider
claims by configuration (all jobs of a model are of one configuration).

### DetectionQueue

The environment is the Immich library: `LibraryMoves` edits an asset (its revision
is new: `updatedAt` and the checksum are part of it), trashes, deletes or restores
it. Inventory copies: `FetchPage` lists the library in one await,
`RecordPage` / `RecordPresencePage` write what was listed, possibly long ago,
`CompleteRun` and the two `Reconcile...` statements follow, each a step of its own,
because the code does not put them in one transaction. A run may be abandoned after
`CompleteRun`, as when the process dies. `RecordPresencePage` computes the asset's
state from the bindings of the statement's snapshot, before its own CTE refreshed
them, as Postgres does.

`exec[e]` is one execution of `runNext`: `ReadControl`, `ClaimJob` (or
`FindNoJob`), `LocateProjection`, `ReadMetadata`, `ReadBytes`, `VerifyInventory`
(the first checkpoint), `Commit` or `CommitRefused`, and `ReportFailure` from
any error. Between two of them anything may happen; `Stop` is the death of the
process or a report that does not get through. `WorkerName` gives the lease name:
own names as the backlog command assigns them, or one shared name as the server's
commands use.

History: `holder` (who claimed last), `author` (who committed), `lost` (attempts
without result), `claims` (claims since the last pause).

### FaceRecognition

`exec[e]` is one turn of the operator's loop (`media-operator.mjs:345-373`) or of the backlog
command: the scheduler's `enqueueNext` (`Select`, `DescribeSource`, `ReadSource`, `Prepare`,
`EnqueuePipeline`) and then the worker's `runNext` (`ClaimJob` to `CommitWrites`). A job is what its work
key binds: asset, revision, content and the geometry of its faces, so a moved face or other bytes
are another job. `head` is `asset_source_revision_head`, one per binding. The commit is two steps,
its checks (`CommitReads`) and its writes, because it locks job and pipeline and nothing else: a
correction of a face, or an undo, may fall between the two, which `crossed` records, while another
commit or checkpoint of the job waits (`Locked`). `CorrectFace` moves a region and sets the active
embedding aside in its snapshot (`moved`); `UndoMove` takes the latest move back and restores that
embedding where none is active. One that was stored since the move stays, of a region that is no
longer the face's: `undone` marks it. `MarkFailed` is a statement of its own after the failure report. `FirstIsStuck` names the photo the scheduler asks
for when nothing will ever hand out its job.

### ExclusiveWork

Each item is open, done or dead, has at most one holder, is finished once, by its
holder, and stays finished. `DetectionQueue` implements it with `holder` restricted
to the jobs in `processing` and the phase read from the job's state. The history
variable `holder` records the execution, not the name, so the refinement is about
executions: with names of their own, a late execution's commit is refused.

### MediaOperator

`call[x]` is one execution of `execute()`, `command[c]` the durable row. `Begin` is
`begin`'s transaction with its four outcomes (inserted, taken over after the lease,
replayed, refused). `Pause` and `Resume` are the transactions that change control and job
rows together; `ReadControl` and `Work` are a run; `Finish`, `FinishThrows` and
`RecordFailure` record the outcome, guarded by the owner's name. `finish()` is
returned from the `try` block without an await, so its errors are never recorded:
`FinishThrows` changes nothing. `Crash` ends every call of a process;
`CommandTick` ages the command leases. `QueueMoves` is the ledger going on.

### CoalescingLane

An action is what JavaScript runs between two callbacks. `schedule` is
`ScheduleNew` or `Coalesce`; `Drain` is the microtask with its whole loop
(`Started` is the set of keys the loop starts: by priority, then `requestedAt`);
`WorkerSucceeds` and `WorkerFails` are the two ends of `run`, including the
`finally` block; `BackoffElapses` is the timer. `pending` and `calls` count, so that a
key queued or run twice would show; `active` is the code's own counter, which must agree
with them. `age` is the order of the jobs' `requestedAt`, as a set of pairs: a request puts its
key behind all others. `owed` is history: what the last request for a
key still waits for (a run, or the end of one).

### ConnectionCommands and ExactlyOnce

A call is a transaction of `connection-facts.mjs`, a step is a statement: `Claim`
(`INSERT ... ON CONFLICT DO NOTHING`, which waits while another call's insert of the
same name is open), `LockPair` (the advisory lock, taken by `record` only),
`ReadCurrent`, `AppendEvent` (the identity column is drawn here, before the commit),
`Commit` (the event and the completed name together) and `Deliver`. `Replay` is a call
that finds its name taken. `Crash` ends a call anywhere: an open transaction rolls
back, a committed one loses its answer. `Legacy` names are those migration 0156 occupied.

`ExactlyOnce` knows commands, executions and what calls were told. The refinement maps
its executions to completed ledger rows, its effects to the events in the history that
carry the name, and what was told to the answers that arrived. So an effect without
its completion, two effects, or an answer that is not the execution's break it.

### ImmichInventory

`run`, `lane` and `page` are the rows of the source's latest run, `proj`, `binding` and
`asset` what they tell; each `Sync` is a call of `synchronize` between its awaits.
`BeginScoped` resumes the processing run of the same kind or fails it and starts one;
`BeginAfterADay` is `failStale`, then the same. `ListAssets` reads a page from Immich
(offset pagination over the library of that moment: a listing is a set, and a photo is on the page its
`Position` among the identifiers puts it on), `RecordPage` / `ReplayPage` are one
transaction with the checks of state, cursor and lane, `Complete`, `ReconcileBindings` and
`ReconcileAssets` follow as in `DetectionQueue`. `RemoveMissingFiles` is the removal
command. `StopSync` is a death of the process or `maxPages`. The rollover of an ordinary
run to a fresh one is `BeginScoped` again. `quiet` is history.

### RebuildQueue

A correction's transaction enqueues through the trigger: `ReadPending` under the advisory
lock, `InsertRequest`, `CommitCorrection`; the request folded into is held FOR KEY SHARE.
A worker's claim is a transaction of its own (`OpenClaim`, `CommitClaim`), then `Compile`
takes its snapshot and `CompleteBatch` or `ReleaseFailedBatch` writes the rows it still
leases. The compile command reads the time, loads the faces and completes what is
pending and older. `attempts` counts to the limit, because nothing tells higher counts
apart and recovery may repeat for ever.

### SourcePackLifecycle

Activation and rollback are sequences of locking steps, and a SELECT ... FOR UPDATE is
two: it reads, waits, and looks again (`ReadActive`, `LockActive`). The gate is the trigger
of migration 0132 (`PassGate`), the unique index of 0003 is `PassIndex`. A correction's UPDATE
finds active packs that contain the corrected face, waits for their rows and retires those still
active. A pack contains canonical faces, and the gate trusts one for an accepted claim of any
observation of its physical face (`canonical` says which face each observation goes by,
`RefreshPhysicalFaces` groups them anew, `valid` are the faces not rejected). History: `crossed` are
the packs whose activation overlapped a correction of a face they contain, `strayed` those that lost
their trust where no trigger looks: the vouching claim was of another observation, the groups
changed, or a face without a claim of its own was rejected (`RejectFace`).

### FolderAlbums

The page is a client: `BeginBatch` / `ApplyBatch` are one request to attach, `Checkpoint` the
next; a failure of either ends in `ApplyFails`. Undo goes through the checkpoints *as the
page loaded them*. A change of memberships has the time its transaction began at, and its
events get that time when they are written under the locks.

### DocumentImports

`queued` is the place of an import: waiting in the process's queue, looking up its command,
inside its transaction (`command`, `checked`, `written`), failed, cleaning up. Two locks:
the command id's (`CommandFree`) and the store's (`storeLock`), held from the quota check
to the end of the transaction, and again for the cleanup. `CommitImport` may succeed and be
heard as a failure. `ServiceOf` puts imports into processes: a process runs one at a time.

### ResidentRecognizer

A process is named by the call that spawned it. `stdin`, `stdout` and `writing` are its
pipes and the callbacks of its writes, in their order; `pending` is `child.pendingResponse`. An event
of an old process acts on `resident`, as the closures of the code do. A write that fails
(`WriteFails`) fails the call it was made for; if another one waits by then, that one is forgotten
and left to its timer.

### MigrationRunner

A start is a call of `migrate` by a release with its bundle: `Lock`, `ReadLedger`, `Judge` (with
the adoption), `CompareLedgers`, then `ApplyMigration` and `ApplyPatch`, each a transaction of a
body and its row, or `RefusePatch`, and `Done`. `StatementFails` is any error on the way, `Restart` a
death or the container's next try. `schema` is not a variable of the code: it is what the
executed bodies left, which the ledgers must tell. Every row is written against the ledger as it
is, not as the start read it, so that the primary key (and not the lock alone) is in the model.

### BoundedBacklog

`loop[l]` is a call of `runWorker`, split at its awaits: `AskNext` (test and count, one synchronous
step), `ReadGate`, `ClaimNext`, and the three ends of an attempt. `LoopDies` is a statement that
throws outside the attempt's own `try`. `Report` is `allSettled`, the summary and
`boundedBacklogState`. The job rows are reduced to what the loops and the summary see, the
detail is `MediaJobLedger`'s and `DetectionQueue`'s; `taken` and `done` are history.

### FaceCorrection

A request is a call of `correctGeometry`, `rejectObservation` or `undo`: `LookUp` (the replay, before
any lock), `LockFace` with `assertHead` and the snapshot, then `CorrectGeometry` or
`RejectObservation`; an undo is `LockOperation` and `Undo`, which waits for the face. `Ask` sends
what the client sees, `Repeat` the same command again. The others are the decisions of
`repository.mjs` on the face's claims, which lock claims or the face, and `Recognize`. `otherwise`
is history: it tells an undo with nothing in between from one with something.

## The runs

| Run | Instance | Shows |
| --- | --- | --- |
| `operations` | the ledger, the operator, `MigrationRunner`, `BoundedBacklog` and `FaceCorrection`, instances below | see the table below |
| `detection` | 1 asset with 2 revisions, 2 executions with own names, limit 1, 2 library moves | `ResultsBound`, `AttemptsAccounted`, `PauseBounded`, `NoObsoleteResult`, refinement `WorkExclusive` |
| `upkeep` | either 3 keys, 2 priorities, 2 slots, 2 attempts, 1 waiter; or 1 asset with 2 revisions, 1 face with 2 regions, 2 executions with own names, limit 1, which race with 1 upset, or take turns with 2 (a move and its undo, among others) | `LaneSafe` (type and `KeyExclusive`), `RequestCovered`, `IdleMeansDone`; `RecognitionConsistent`, `EmbeddingsTrue`, `EmbeddingKept` |
| `progress` | fair; either a lane of 2 keys, 2 priorities, 1 slot and 2 attempts; or detection with 1 revision, 2 executions, limit 2 and 1 library move; or recognition with limit 2 and 1 upset, where 2 executions contend for 1 face or take turns at 2 faces of 2 photos | `KeyTopServed`; `JobSettles`; `FacesRecognized` |
| `services` | the seven modules above, small instances side by side | `ServicesTypeOK` and the properties of the table below |
| seven violation runs | see *Findings* | what a document says and the code does not do |

`services` is a sum, not a product: `part` picks one component, which takes all the steps of
the behaviour while the others rest in their initial states. The seven share no variable,
so nothing is lost; they are one run because each has a few ten thousand states.

`upkeep` and `progress` are built the same way, and so is `operations`; of its five parts the first two share the job rows. Its
`OperationsTypeOK`, like `ServicesTypeOK`, joins the type invariants of the parts.

| Part of `operations` | Instance | Properties |
| --- | --- | --- |
| `ledger` | 2 jobs of one asset, 2 worker names, 1 receipt, 2 digests, limits {1, 2}, 1 requeue, 1 tick per lease | `LedgerSound` (`RowsConsistent` and `RetriesBounded`), `JobsOnlyAdvance` (`OutcomesFinal` and `ProgressKept`), `LeaseRecovered` (as `LedgerLeaseRecovered`: this part, and one of the two jobs, which are alike) |
| `operator` | 3 commands (one of each kind), 3 calls on 2 processes (the two calls of one process, which are alike, begin in a fixed order), 1 job of 1 attempt | `OperatorSound` (`AnswersAgree` and `NothingStranded`); and the ledger's safety again |
| `migrations` | 4 releases (one older, one with a patch, one whose migration 2 is another file and that has the patch), base 2, 2 failures, a fresh database or one with one or two unledgered migrations | `MigrationsSound` (`LedgersTell` and `StartsEndRightly`) |
| `backlog` | 3 images (1 with a job), 2 loops, limit 2, 2 attempts, 2 acts of others | `ReportSound` (`ReportIsFinal` and `CleanReportEarned`) |
| `faces` | 2 regions, 3 requests, 3 claims, 2 embeddings, 1 act of others, 3 initial claim histories | `RejectionReversible`, `CommandAppliedOnce`, `UndoRestores` |

The `ledger` part keeps the control at `paused`, because its callers pause jobs without the
operator's control; `NothingStranded` is about the `operator` part. That part is restricted
(`OneOfEach`) to one job and one worker: two jobs are the ledger's question, and the theorems hold for
any number.

| Component of `services` | Instance | Properties |
| --- | --- | --- |
| `ConnectionCommands` | 3 calls, 2 names, 2 facts, 3 events | `OneCurrentFact`, refinement `CommandsExactlyOnce` |
| `ImmichInventory` | 2 photos of one asset, 2 lanes, pages of 1, 2 catalogue callers and an ordinary one, 2 upsets | `CatalogueTruth`, `TombstoneSafe`, `RevivedOnlyByListing`, `CatalogueCompletes` |
| `RebuildQueue` | 2 corrections, 2 workers, 3 attempts, 2 faults | `TimelyCorrectionPacked`, `RequestsSettle` |
| `SourcePackLifecycle` | 2 packs that contain one of 2 faces, and either 2 sessions and both packs, with corrections of that face, or 1 session and 1 pack, with corrections, rejections and groups of both faces (`PacksFit`) | `ActiveTrusted`, `RejectedStaysRetired` |
| `FolderAlbums` | 2 batches of an item each, 1 page, 1 session by hand, 4 changes | `UndoneCheckpointsDetached`, `UndoKeepsOthers` |
| `DocumentImports` | 4 imports in 2 processes, 2 contents, 3 command ids, room for one content | `StoreSound` (`DocumentsStored` and `QuotaKept`) |
| `ResidentRecognizer` | 3 calls | `RecognizerSafe` (`AnswersOwnCall` and `OneRecognizer`), `CallsEnd` |

What the properties mean is stated above each of them.

Why the bounds are enough:

- Two jobs suffice in the ledger because no statement relates two jobs but by
  the sets it writes. Two limits let a job be resumed under a smaller limit than
  it has used; two digests let a receipt mismatch; two names let a lease be taken
  over. The theorems lift these properties to all instances.
- `detection` needs two revisions (an obsolete and a current job), two executions
  (a late one and its successor) and two moves (an edit and a trash, or a trash and a
  restore). Limit 1 keeps it within minutes; `progress` has limit 2, so that lapsed
  leases are retried, one revision and one move.
- Recognition: two revisions and two regions let source and face move, and move back, under an
  attempt; the upsets are shared by edits, listings, new identities and corrections. Racing
  executions and long histories are two parts because their product is out of reach. For
  `FacesRecognized` two photos are enough for one to hold up the other.
- One tick per lease already separates the three times of a lease that the code tells
  apart.
- Three calls let a command be run, repeated and overtaken by another; two
  of them share a process and its name.
- With three keys and two slots a key can wait for a slot that a key in backoff left
  free. Both lanes of the service have one slot, three attempts and one priority; the
  instance is the more permissive one. `KeyTopServed` is checked with one slot, as in the service,
  where a rival in backoff leaves the slot free and the key waits for a drain.
- Connections: three calls are a command, its repetition and a rival; three events let a
  retract be numbered between two records.
- Inventory: two photos of one asset separate a binding from its asset; two lanes with
  pages of one photo make a run of up to three pages, with a cursor in each lane; two upsets
  let a caller stop and a photo move, or a day pass and a photo return.
- Rebuilds: two faults let a lease lapse under a live worker while the compile command runs,
  or a worker crash and its successor's lease lapse.
- Packs: two packs and two sessions make an activation race a rollback; one face in both
  makes every correction race them. A second face that no pack contains may vouch for the first;
  what that does to a pack needs one pack and one session, and the product of both is out of reach
  (`PacksFit`; the theorems know no such bound).
- Albums: four changes are two batches and two changes by hand, or two undos.
- Imports: two of one command in different processes, two of one content under different
  commands, and one content too many for the store.
- Migrations: a patch at base 2 with a third migration makes a release that comes too early pass
  the base of a patch it does not have; a different migration 2 makes bundles contradict;
  two failures let a start die, and its successor.
- Backlog: two loops and limit 2 let both ask for the last job; two acts of others are a pause and
  its resume, or a rival's claim and a death.
- Faces: three requests are a correction, its repeat and an undo, or a move, a rejection and an
  undo; one act of the others falls anywhere between them.
- Recogniser: three calls let a killed process, its successor and the one after overlap.
- Checking for deadlock is off where the system may stop: every job final, every
  call made.

Fairness:

- `operations`, ledger part: time passes and workers keep asking. A lease is only recovered by a
  later claim, so without the second nothing is recovered; the code never claims more.
- `progress`: every execution continues (Node runs every settled promise, and every
  external call has a timeout), is called again when it returns (command and backlog
  loops), and time passes. Nothing is asked of Immich, inventory or the operator.
  `JobSettles` is up to a pause for that reason.
  Its recognition parts are the same; `FacesRecognized` is up to a source that has moved
  without a new listing, and to `FirstIsStuck`.
- `progress`, the lane: microtasks and timers run and worker promises settle. How they settle is
  open, and `Schedule` is never required; other keys may be requested for ever.
- `services`: rebuild workers keep asking, a correction's transaction ends and dead leases
  lapse (crashes and lapses under live workers are bounded, so they stop); one caller of the
  catalogue synchronisation keeps calling, as the page's refresh does, while nothing
  is asked of other callers (`CatalogueCompletes` is up to a change of the library or an
  ordinary run that replaces it, for that reason); queued calls start and timers
  expire, as Node's event loop guarantees. Nothing is asked of the provider process.

## What is proved

`MediaJobLedgerProofs` proves, for any sets of jobs, assets, workers, receipts
and digests, any limits within 1..20, any lease length and any bound on
re-openings (`LedgerAssumption`, `NoneAssumption`):

- `LedgerInvariant`: `LedgerSpec => []LedgerInv`, with
  `LedgerInv == LedgerTypeOK /\ RowsConsistent /\ RetriesBounded`;
- `LedgerTyped`, `LedgerRowsConsistent`, `LedgerRetriesBounded`: its parts (the last two joined as
  `LedgerIsSound`);
- `LedgerOutcomesFinal` and `LedgerProgressKept`: the two action properties, joined as
  `LedgerOnlyAdvances`.

The argument. None of the three parts is inductive alone. Whether a retry is within
its budget (`RetriesBounded`) rests on the limit of the row being one some request
carried (type), on a waiting row having an attempt left, and on a refund only going
to an attempt that was paid for (`RowsConsistent`: a processing row has attempts).
The invariant is a predicate of each single row and its re-opening count (`Row`), so
the proof has two layers: each row operator maps rows that fit to rows that fit
(`AttemptLostFits`, `LeasedFits`, `SuspendedFits`, ...), and each action writes rows
by those operators (`EnqueueKeeps`, `ClaimKeeps`, ..., joined in `StepKeeps`).
`RetriesBounded` says that *some* limit bounds the attempts: a request may lower
the limit of a paused job below the attempts it has used, and then the bound is the
larger limit it had. The `+ requeued` term is what re-opened completions keep.

`OperationsProofs` proves about `MediaOperator`, for any sets of commands, calls and processes and any
command lease besides (`OperatorAssumption`):

- `OperatorImplementsLedger`: `OperatorSpec => LedgerSpec`. What `pauseQueue`,
  `resumeQueue` and everybody else of the module do to the queue are steps of the
  ledger, so every theorem above holds in it;
- `OperatorNothingStranded`. `NothingStranded` is not inductive: a job that is marked
  while it is not paused would be skipped by the resume. The invariant is
  `MarkMeansPaused`, the mark is on paused jobs of a paused queue only. Pause and
  resume keep it because control and rows change in one transaction
  (`MarkKept`), and the others because each of them replaces the mark when it
  changes a row (`QueueMovesMarkNothing`, over the typed rows of `LedgerInv`);
- `OperatorTyped` and `OperatorAnswersAgree`, from `CommandsFit`: an answer is the
  stored response of a command that is over, a call that has not returned has no
  answer, and one that executes has a command. A row that is over is never written
  again (`begin` and the two `UPDATE`s all ask for one that is not), which `CallStep`
  states once for every action of a call.

`CommandProofs` proves, for any sets of imports, contents, command ids and
processes and any quota (`ImportAssumption`), `ImportsTyped`, `ImportsStored`
and `ImportsWithinQuota` (together `ImportsSound`). `DocumentsStored` is not inductive: nothing in it keeps a cleanup
from removing the file of an import that is about to commit. `LockHeld` says that
an import between its quota check and its end, or in cleanup, holds the store's lock, so there
is one of them; `Foreseen` says that one that was checked still fits the store and one
that has written has its file. A cleanup that holds the lock thus finds no import that
relies on a file without a row, and a crash gives up the lock and the reliance together.

`DetectionQueueProofs` proves `QueueTyped`, `QueueResultsBound`, `QueueAttemptsAccounted`
and `QueuePauseBounded` for any sets of revisions and executions, any names of the
executions and any limits and leases (so for larger limits than `detection`'s 1). Every step
writes rows by the operators of the ledger, so `RowsFit` reuses the ledger's lemmas:
a row's successor fits `Row` and pays for the attempt it loses. A completed row
carries the receipt its result was committed under, so the ledger's completion can never
re-open it; and after a pause each execution that had read `running` claims once at most.
Two theorems need executions with names of their own (`OwnNames`), as the backlog
command gives them:

- `QueueImplementsExclusiveWork`: `OwnNames => (QueueSpec => ...)`, every step is a step of
  `ExclusiveWork` or a stutter. The invariant says that an execution whose name a processing
  row bears is the holder that claimed it;
- `QueueNoObsoleteResult`: an execution past its check of the projection still holds its lease
  only while the projection agrees with the job, because whatever changes the projection
  takes the lease in the same transaction.

The assumption cannot be dropped: with a shared name the refinement fails, which is what the
run `leases_exclusive` shows.

`ServicesProofs` proves `PackTyped`, `PacksTrusted`, `PacksStayRetired` and
`PacksAreOne` (no two active packs, which the unique index also refuses) for any packs, faces
and sessions, and any grouping of the faces. The invariant: a row lock has one owner; what the gate
has let through stays trusted as long as the session holds the lock, unless a correction of a face
it contains crossed it or it strayed; a correction that is open covers every active pack that
contains its face and that it did not cross; a rejected pack has no proof that a transaction under
way could still use. So a claim of a face the pack contains takes the pack with it, and every other
way to lose trust, whose step no trigger sees, is told by `strayed` (`StrayTold`).

`ServicesProofs` also proves `RecognizerTyped`, `RecognizerAnswersOwn` and
`RecognizerIsOne` for any set of calls (together `RecognizerIsSafe`). `AnswersOwnCall` rests on what the pipes hold: the call a
process is waited on for is the only request in its pipes, and a process that may be given
another has nothing left to say. A timeout kills the process for that reason, and a call that
was not started has spawned none.

`OperationsProofs` also proves, for any starts, releases, bundles and databases that fit
`MigrationAssumption`, `LedgersTellTruth` and `EveryStartEndsRightly`. A start reads the ledgers
once and then relies on what it read. The invariant says why it may: a start that works holds
the lock, so what it has read is what the ledgers say (`Knows`), and its own writes keep that
true, row by row (`BodyFits`). Every other start waits or has ended, and one that has ended stays
right when the ledgers grow. `SchemaFits` says that the schema is what the rows
tell, which holds because a body and its row are one transaction. The ledgers are sequences that
grow at the end only; `ChainMigration` and `ChainPatch` say what an appended row keeps.

`CommandProofs` also proves, for any calls, commands, facts and legacy names, `ConnectionCurrentOnce`
and `ConnectionRefinesOnce`, that the connection commands implement `ExactlyOnce`. Two mutual
exclusions carry both. The open insert of a name belongs to one call, and the events that carry
the name are that call's uncommitted one or the completed row's: so a commit is one abstract
execution with its effect, and every other step stutters. The lock of the pair belongs to one
recording call; what it has read of the current fact may be retracted before it commits, but
nobody else can start one (`Foreseen`). Every event has a number of its own, also the one that is
not committed yet, so a fact has one latest event, and a retract that is numbered earlier and
committed later makes no other fact current.

`CoalescingLaneProofs` proves, for any finite set of keys and any priorities, slots, attempts and bounds,
`LaneIsSafe`, `LaneCoversRequests` and `LaneIdleIsBarrier`. The invariant reads a key's place off its job: queued is
once in the pending list and not under way, running is one call, backoff is neither, and no job
is neither, with the debts (`owed`) that each place may carry. That the counter `active` is the
number of running keys makes the drain's free slots right; that it starts no more than them needs
the drain's order to be total, which is what the pairs of `age` keep.

`CatalogueProofs` proves about `ImmichInventory`, for any finite library and lanes, any page size and
callers, three things besides its types.

- `InventoryTombstones`: an ended asset has no bound photo. The invariant (`RemovalInv`) adds that a
  known photo is bound or was, and that only a removal supersedes a binding.
- `InventoryRevival`: no catalogue page and no reconciliation brings a removed record back, whenever
  it began. The ordinary page that lists the photo does (see *Findings*).
- `InventoryCatalogue`: a completed catalogue run of a quiet library marks exactly the photos outside
  it. It is inductive only with what has been read so far (`TrueSoFar`). A new run refuses the
  callers of the run before, so that every page a caller holds is one of this run and, when the run is
  quiet, of the library as it is; a lane has seen exactly the photos whose
  position is before its cursor, and a completed lane all of them; the completion then marks
  those that no lane has seen. Its arithmetic is that of `Position`: a page holds the photos
  of the positions after the last page's, and no photo is left when a page says there are no more.

It also proves `FolderUndone` and `FolderUndoKeeps` about `FolderAlbums`, for any items, batches, pages and
sessions. Transactions commit in another order than they began in, and an event has the time its
transaction began at. So the invariant says that the events of a collection differ in time, that one
beaten by a later one stays beaten, and that a current attachment never follows another
attachment: an undo writes later than anything it takes back and meets only what the
operation's checkpoints saved.

`ServicesProofs` also proves `RebuildPacksTimely` about `RebuildQueue`, for any corrections, workers and
limits. The invariant ties the locks of three parties: a correction that has folded
into a request holds its row in key share until it commits, so the request cannot be claimed under it;
a request that is processed therefore has no timely correction under way, and the snapshot
of its owner, taken later, contains them all; a worker completes only rows it still owns, by
name and lease, so that an owner who lapsed cannot answer for its successor's.

`OperationsProofs` also proves about `FaceCorrection`, for any regions, claims, embeddings and
requests, `CorrectionReversible`, `CorrectionOnce` and `CorrectionUndoRestores`. Whoever holds the face's
row works on the face it has found; every correction raises the
revision, so the one a command was sent with is spent by the first request that applies it, and its repeats
are refused or replayed; an undo holds an operation that is still active, and as a later
correction would have superseded it, nothing was corrected after it and its snapshot is what to restore.

And about `BoundedBacklog`, for any finite sets of images and loops (at least one), limits, batches
and attempts, `RunReportsTruth`. `Counted` is arithmetic over sets of loops: the calls under way count against
the limit before they claim anything; what the loops hold and what they tallied makes up the claims,
but for the loops that died. A report comes when all loops have settled, so the bounds become
equations. For the clean report, `UndisturbedRun` follows a run that nobody disturbed and no attempt
failed: either all its calls have claimed, or one has found the queue empty, and then nothing can
fill it again. With what scheduling promises (it stops for lack of images or of budget) that
makes the completed images the limit, or all there are.

`FaceRecognitionProofs` proves `RecognitionIsConsistent`, `RecognitionEmbeddingsTrue` and
`RecognitionEmbeddingKept` for any assets, faces, regions, revisions and executions, whatever names these
bear, under `RecognitionAssumption` (a job is what its work key binds, receipts are digests of results,
`None` is no embedding; `MCUpkeep` and `MCProgress` assume it too, so TLC evaluates it).
Neither invariant is inductive: at its last step a commit writes what it has read long before. `RecognitionInv` adds
what makes that safe.

- `RowsFit`: the ledger's own invariant, and pipelines that follow their jobs. Rows move by the
  ledger's operators, so its lemmas carry over.
- `ExecsFit`: what an execution carries at each place. The library's revision never falls
  (`Reached`): the metadata say a revision it has reached, and the bytes, read later, are of that
  one or a later. Reading the metadata again after the bytes, and finding the same, makes content and
  revision equal, which is what an embedding then says (`EmbeddingsTrue`).
- `CommitHolds` and `CommitsExclusive`: between its reads and its writes a commit holds its job and
  pipeline as it found them, because every other writer of these rows waits for it; the faces
  it found are as they are unless a correction or an undo has crossed it.
- `MarkHolds`: a pipeline is given up by a second statement, later and by the job's id alone. It
  is right because the job has failed, and nothing brings a failed job back (`LedgerOutcomesFinal`).

What a move has set aside shows the face as it was before the move, so that an undo may restore it;
an undo that finds a later embedding marks that one instead. `EmbeddingKept` follows from a commit's
writing embeddings only for faces it has embedded: no step but a move of the face removes one.

Two compositions have theorems of their own. `OperationsTyped` and `ServicesTyped` prove
`OperationsTypeOK` and `ServicesTypeOK` of `MCOperations` and `MCServices`, for any constants that fit
the parts' assumptions. The joint invariants (`OperationsInv`, `ServicesInv`) are those of the
parts, each stronger than its type; a step of the whole is a step of one part and
leaves the others' variables alone (`ServicesStepApart`), so each keeps its own.

What the proofs changed in the models. The counter and the order of the lane and the listing of the
library were sums and sequences that no backend reasons about; they are the code's own counter and sets
now. The assumptions on constants say what instances had in common: sets that
are counted are finite, a model value that stands for "nobody" is nobody's name, a page's and a hand's
sessions differ, a run has a loop, a face may have a claim. In `FaceRecognition` the
checkpoint and the commit did not wait for a row that another commit had locked, which `CommitHolds` needs and
which `FOR UPDATE` does.

Only model-checked: liveness (`LeaseRecovered`, `JobSettles`, `KeyTopServed`, `FacesRecognized`,
`RequestsSettle`, `CatalogueCompletes`, `CallsEnd`), for the prover has no ENABLED; and the runs that
expect a violation. Every safety property of a passing run is a theorem. Inductive invariants were checked
with TLC on small instances before they were proved.

## Findings

| Run | Statement | What the code does |
| --- | --- | --- |
| `superseded_stays_paused` | `service/README.md:596`: a changed `inputRevision` pauses obsolete uncompleted work | a job the operator had paused escapes (`immich-inventory.mjs:372` looks at pending and processing only) and is handed out after the operator's resume |
| `missing_work_paused` | `service/README.md:599`: trash is `missing` immediately, reappearance resumes the exact paused job | a presence page marks the projection missing and pauses nothing; the completion skips projections that are missing already; the job burns its attempts and fails for good |
| `leases_exclusive` | `service/README.md:626`: claims exclusive expiring leases | the ledger compares names; executions of the server's commands share one, so a late one's reports are accepted for the other's lease |
| `result_describes_revision` | `local-face-detection-worker.mjs:252`: "Asset input revision changed during media read" is an error | metadata and bytes are two requests, only the metadata's revision is compared; an edit in between is committed as the old revision |
| `correction_swallowed` | `migrations/0028:83-85`: a concurrent correction can never be swallowed by an older snapshot | the compile command (`face-matching-operator.mjs:803`) completes pending requests that are older than its start; a correction that began before it and commits after the faces were loaded is in no pack and has no open request |
| `identity_preserved` | `service/README.md:1132-1134`: face geometry changes preserve accepted human identity truth | the undo of a move gives back every claim of its snapshot that is superseded now (`observation-correction.mjs:661`), also one that a later "Not this person" superseded: the denied identity is accepted again |
| `replay_idempotent` | `service/README.md:659`: pause is durable, replay is idempotent | effect and outcome are two transactions; a repeated pause pauses again, after a resume that came later |

More statements are contradicted by behaviour that a property of a passing run excludes by name: the
run shows that the statement holds otherwise, and TLC finds a violation as soon as the exclusion is
dropped.

| Property and what it excludes | Statement | What the code does |
| --- | --- | --- |
| `RevivedOnlyByListing`: pages of ordinary runs | `migrations/0148:3-5`: inventory and exact-activity refreshes "must never reactivate the retired source binding" | the binding upsert of `recordPage` (`immich-inventory.mjs:923-940`) sets `active` whatever was removed; presence pages, reconciliation and the refresh of shown assets do look for the removal |
| `ActiveTrusted`: `crossed` | `migrations/0027:104-107`: a passed pack is only safe while every referenced identity remains accepted; a correction retires any active pack that contains the face | an activation and a correction of a face of the pack that overlap each read what the other has not committed, and an active pack with an untrusted face remains |
| `ActiveTrusted`: `strayed` | the same | the gate trusts a face through any observation of its physical face (`0132:56-66`), the correction's trigger retires only packs that contain the corrected observation (`0049:490-498`), and new groups or the rejection of a face without a claim fire no trigger at all |
| `EmbeddingsTrue`: `crossed`, `undone` | `service/README.md:1130-1132`: geometry changes supersede the active embeddings | a commit that checked the geometry locks no face, so a move or an undo between check and write leaves an embedding of the region before; and the undo of a move keeps the embedding stored since (`observation-correction.mjs:666-679`), which shows the region that was taken back |
| `CleanReportEarned`: runs somebody meddled with | `bounded-backlog.mjs:3-4`: a pause is never folded into a clean bounded run | a pause between a loop's read of the control and its claim looks like an idle queue, and the run can report `bounded_run_complete` |

`FacesRecognized` excludes the photos that `FirstIsStuck` names: a recognition job that inventory has
paused is never resumed, because `enqueueExistingFaceRecognitionPipeline` returns an existing pipeline
without a word to its job (`service/README.md:599-602` says that reappearance resumes the exact paused
job); and since the scheduler always asks for the first photo, a paused or failed job of that one
holds up all others.

Observed while modelling, without a statement of the repository to hold against the code:

- The completion's asset update (`0146:72-83`) has no state filter, so a tombstoned asset can become
  missing.
- A photo that changes lanes while a run is under way makes every resumption fail, until the
  run is a day old or an ordinary run replaces it. An ordinary and a catalogue caller that
  alternate replace each other's runs for ever.
- Offset pagination: when the library shifts during a run, a photo that is present can be listed
  on no page, and is marked missing until the next run (`CatalogueTruth` is about quiet runs).
- `retract` does not take the lock of the pair, so `record` may answer with `null` when a retract with
  a higher number committed before it.
- A page of folder albums closed while it applies leaves the operation `applying`, which can be
  neither undone nor kept; memberships attached before a failed checkpoint are known to no undo.
- `current_asset_source_revision` has a row for each binding of an asset, also of earlier revisions, so a
  face recognised before an edit still counts as recognised.
- Events of a killed recogniser process stop the process that replaced it.
- The undo of a move retires no SourcePack that cites the embedding it takes away or leaves.
- A claim decided between the snapshot of a rejection and its commit is superseded with the others, and
  the undo gives it back as it was in the snapshot.
- `decideIdentityClaim` looks at neither the face's state nor its revision: a rejected face can
  get an accepted identity (restore, then accept).
- An undo locks the operation before the face and a correction locks them the other way round, so
  Postgres may abort either; a repeat that was looked up before its original committed is
  refused as stale and not replayed.

## Plan

Order: what a wrong step would damage most, first.

1. *Done*: `MediaJobLedger` and `MediaOperator` with their proofs, `DetectionQueue`,
   `ExclusiveWork`, `CoalescingLane`.
2. *Done*: `ConnectionCommands` against `ExactlyOnce`, `ImmichInventory` with removal,
   `RebuildQueue`, `SourcePackLifecycle`, `FolderAlbums`, `DocumentImports` with its proofs,
   `ResidentRecognizer`.
3. *Done*: `BoundedBacklog`, `MigrationRunner`, `FaceCorrection`.
4. *Done*: `FaceRecognition`. Next: the continuation of a completed detection; source rollover
   against `ImmichInventory`; person match refresh.
5. Pure algorithms against reference definitions: the union-find of possible people,
   the bounded map.
6. Proofs. *Done*: the safety of every module, with both refinements. Next: what items 4 and 5 add.

The hazards, with their lines and the properties that would catch each, are listed in
`PROJECT.json`.

## What is not modelled, and why

Scoring, clustering and matching are numeric; the HTTP layer, the user interface, the
provider programs and the tools are I/O around the operations modelled here;
`PROJECT.json` names the reason for each component. Within the models, each module's
opening comment lists what it leaves out. The refresh of single assets that are shown
(`immich-asset-activity.mjs`) writes the rows of `ImmichInventory` and `DetectionQueue` too and is in
neither: it asks Immich for each asset, keeps the answer for a minute, and writes it some time after.

## Running

`tlc -config MCOperations.cfg MCOperations` and so on for each run of
`PROJECT.json` (the configurations of one module share its `MC` module), and
`tlapm MediaJobLedgerProofs.tla` and so on for each `...Proofs` module.
