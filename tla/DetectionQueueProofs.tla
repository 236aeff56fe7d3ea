------------------------ MODULE DetectionQueueProofs ------------------------
(***************************************************************************)
(* Safety of the detection queue for every number of assets, jobs,         *)
(* executions and names.  Every transaction that writes jobs takes each    *)
(* row to one that fits the ledger's invariant and pays for the attempts   *)
(* it ends; only a commit completes a row, and it stores the result and a  *)
(* receipt that matches, so that nothing ever opens a completion again.    *)
(***************************************************************************)
EXTENDS DetectionQueue, MediaJobLedgerProofs

\* What AttemptsAccounted says of one row.
Accounted(row, n) ==
    row.attempts = n + (IF row.state \in {"processing", "completed"} THEN 1 ELSE 0)

\* A completion names a receipt that is stored with its digest.
ReceiptsMatch ==
    \A j \in Job : job[j].state = "completed" =>
        job[j].receipt = job[j].digest /\ receipt[job[j].receipt] = job[j].digest

\* The part of the invariant that is about the rows.
RowsInv ==
    /\ LedgerInv
    /\ lost \in [Job -> Nat]
    /\ AttemptsAccounted
    /\ ReceiptsMatch
    /\ ResultsBound

\* A row that may follow that of job k when n of its attempts are lost then.
Successor(k, row, n) ==
    /\ Row(row, requeued[k])
    /\ n \in Nat /\ Accounted(row, n)
    /\ IF job[k].state = "completed" THEN row = job[k] ELSE row.state # "completed"

-----------------------------------------------------------------------------
(* What the row operators cost *)

\* A completion is never re-opened, as its receipt matches.
LEMMA NothingMismatched == ASSUME RowsInv, NEW k \in Job PROVE ~ReceiptMismatched(k)
  BY DEF RowsInv, ReceiptsMatch, ReceiptMismatched

\* What the invariant says of one row.
LEMMA RowHere ==
    ASSUME RowsInv, NEW k \in Job
    PROVE  /\ Row(job[k], requeued[k]) /\ requeued[k] \in Nat
           /\ lost[k] \in Nat /\ Accounted(job[k], lost[k])
           /\ Successor(k, job[k], lost[k])
  <1>1. Row(job[k], requeued[k]) /\ requeued[k] \in Nat
    BY RowFits DEF RowsInv
  <1>2. lost[k] \in Nat /\ Accounted(job[k], lost[k])
    BY DEF RowsInv, AttemptsAccounted, Accounted
  <1> QED BY <1>1, <1>2 DEF Successor

\* An attempt that ends without a result costs one.
LEMMA LostRowAccounted ==
    ASSUME NEW r \in JobRow, r.state = "processing", NEW n \in Nat, Accounted(r, n), NEW e
    PROVE  /\ Accounted(AttemptLost(r, e), n + 1)
           /\ AttemptLost(r, e).state \in {"pending", "failed"}
  BY DEF JobRow, Accounted, AttemptLost, Unleased

\* A lease takes an attempt, which is not lost yet.
LEMMA LeasedRowAccounted ==
    ASSUME NEW r \in JobRow, r.state = "pending", NEW n \in Nat, Accounted(r, n), NEW w
    PROVE  Accounted(Leased(r, w), n) /\ Leased(r, w).state = "processing"
  BY DEF JobRow, Accounted, Leased

\* What inventory takes away costs nothing: an attempt in flight is given back.
LEMMA SuspendedRowAccounted ==
    ASSUME NEW r \in JobRow, RowConsistent(r), r.state \in InFlight, NEW n \in Nat, Accounted(r, n),
           NEW e
    PROVE  Accounted(Suspended(r, e), n) /\ Suspended(r, e).state = "paused"
  <1>1. r.state = "processing" => r.attempts > 0
    BY DEF RowConsistent
  <1> QED BY <1>1 DEF JobRow, Accounted, Suspended, Unleased, InFlight

\* A lapsed lease, or a reported failure.
LEMMA LostSucceeds ==
    ASSUME RowsInv, NEW k \in Job, job[k].state = "processing", NEW e \in ErrorCode
    PROVE  Successor(k, AttemptLost(job[k], e), lost[k] + 1)
  <1>1. Row(AttemptLost(job[k], e), requeued[k])
    BY RowHere, AttemptLostFits
  <1>2. job[k] \in JobRow
    BY RowHere DEF Row
  <1>3. /\ Accounted(AttemptLost(job[k], e), lost[k] + 1)
        /\ AttemptLost(job[k], e).state \in {"pending", "failed"}
    BY <1>2, RowHere, LostRowAccounted
  <1> QED BY <1>1, <1>3, RowHere DEF Successor

\* The sweep of a claim, and what it counts.
SweptLost == [k \in Job |-> IF k \in Lapsed THEN lost[k] + 1 ELSE lost[k]]

\* The sweep leaves every row a successor of itself.
LEMMA SweptSucceeds == ASSUME RowsInv, NEW k \in Job PROVE Successor(k, Swept[k], SweptLost[k])
  <1>1. CASE LeaseLapsed(job[k])
    <2>1. Successor(k, AttemptLost(job[k], "WORKER_LEASE_EXPIRED"), lost[k] + 1)
      BY <1>1, LostSucceeds DEF LeaseLapsed, ErrorCode
    <2> QED BY <1>1, <2>1 DEF Swept, SweptLost, Lapsed
  <1>2. CASE ~LeaseLapsed(job[k])
    BY <1>2, RowHere DEF Swept, SweptLost, Lapsed
  <1> QED BY <1>1, <1>2

\* A claim, after its sweep.
LEMMA LeasedSucceeds ==
    ASSUME RowsInv, NEW k \in Job, Swept[k].state = "pending", NEW w \in Worker
    PROVE  Successor(k, Leased(Swept[k], w), SweptLost[k])
  <1>1. Successor(k, Swept[k], SweptLost[k]) /\ requeued[k] \in Nat
    BY SweptSucceeds, RowHere
  <1>2. Row(Leased(Swept[k], w), requeued[k])
    BY <1>1, LeasedFits DEF Successor
  <1>3. Swept[k] \in JobRow
    BY <1>1 DEF Successor, Row
  <1>4. Accounted(Leased(Swept[k], w), SweptLost[k]) /\ Leased(Swept[k], w).state = "processing"
    BY <1>1, <1>3, LeasedRowAccounted DEF Successor
  <1> QED BY <1>1, <1>2, <1>4 DEF Successor

\* pauseSupersededJobs and the end of a run.
LEMMA SuspendedSucceeds ==
    ASSUME RowsInv, NEW k \in Job, job[k].state \in InFlight, NEW e \in SuspendCode
    PROVE  Successor(k, Suspended(job[k], e), lost[k])
  <1>1. Row(Suspended(job[k], e), requeued[k])
    BY RowHere, SuspendedFits
  <1>2. job[k] \in JobRow /\ RowConsistent(job[k])
    BY RowHere DEF Row
  <1>3. Accounted(Suspended(job[k], e), lost[k]) /\ Suspended(job[k], e).state = "paused"
    BY <1>2, RowHere, SuspendedRowAccounted
  <1> QED BY <1>1, <1>3, RowHere DEF Successor, InFlight

\* enqueue_media_job: a new row, a resumed one, or the row as it was.
LEMMA EnqueuedSucceeds ==
    ASSUME RowsInv, NEW k \in Job, NEW limit \in AttemptLimits
    PROVE  Successor(k, EnqueuedRow(k, limit), lost[k])
  <1> DEFINE r == job[k]
  <1>0. r \in JobRow /\ RowConsistent(r) /\ Accounted(r, lost[k]) /\ lost[k] \in Nat
    BY RowHere DEF Row
  <1>1. CASE r.state = "absent"
    <2>1. Row(NewRow(limit), requeued[k])
      BY RowHere, NewRowFits
    <2>2. r = NoRow
      BY <1>0, <1>1 DEF RowConsistent
    <2>3. lost[k] = 0
      <3>1. Accounted(NoRow, lost[k]) /\ lost[k] \in Nat
        BY <1>0, <2>2
      <3>2. NoRow.attempts = 0 /\ NoRow.state = "absent"
        BY DEF NoRow
      <3> QED BY <3>1, <3>2 DEF Accounted
    <2>4. Accounted(NewRow(limit), 0) /\ NewRow(limit).state = "pending"
      BY DEF Accounted, NewRow, NoRow
    <2>5. EnqueuedRow(k, limit) = NewRow(limit)
      BY <1>1, NothingMismatched DEF EnqueuedRow
    <2>6. NewRow(limit).state # "completed" /\ job[k].state # "completed"
      BY <1>1, <2>4
    <2>7. Accounted(NewRow(limit), lost[k])
      BY <2>3, <2>4
    <2> QED BY <2>1, <1>0, <2>5, <2>6, <2>7 DEF Successor
  <1>2. CASE r.state = "paused"
    <2>1. Row([Resumed(r) EXCEPT !.limit = limit], requeued[k])
      BY <1>2, RowHere, ResumedFits
    <2>2. EnqueuedRow(k, limit) = [Resumed(r) EXCEPT !.limit = limit]
      BY <1>2, NothingMismatched DEF EnqueuedRow
    <2> HIDE DEF r
    <2>3. LET new == [Resumed(r) EXCEPT !.limit = limit]
          IN  Accounted(new, lost[k]) /\ new.state = "pending"
      BY <1>0, <1>2 DEF JobRow, Accounted, Resumed
    <2> QED BY <1>0, <1>2, <2>1, <2>2, <2>3 DEF Successor, r
  <1>3. CASE r.state \notin {"absent", "paused"}
    <2>1. EnqueuedRow(k, limit) = job[k]
      BY <1>3, NothingMismatched DEF EnqueuedRow
    <2> QED BY <2>1, RowHere
  <1> QED BY <1>1, <1>2, <1>3

\* pauseQueue and resumeQueue.
LEMMA OperatorSucceeds ==
    ASSUME RowsInv, NEW k \in Job
    PROVE  /\ job[k].state = "pending" => Successor(k, OperatorPaused(job[k]), lost[k])
           /\ job[k].state = "paused" => Successor(k, Resumed(job[k]), lost[k])
  <1> DEFINE r == job[k]
  <1>0. r \in JobRow /\ Accounted(r, lost[k]) /\ lost[k] \in Nat
    BY RowHere DEF Row
  <1>1. ASSUME r.state = "pending" PROVE Successor(k, OperatorPaused(r), lost[k])
    <2>1. Row(OperatorPaused(r), requeued[k])
      BY <1>1, RowHere, OperatorPausedFits
    <2> HIDE DEF r
    <2>2. Accounted(OperatorPaused(r), lost[k]) /\ OperatorPaused(r).state = "paused"
      BY <1>0, <1>1 DEF JobRow, Accounted, OperatorPaused
    <2> QED BY <1>0, <1>1, <2>1, <2>2 DEF Successor, r
  <1>2. ASSUME r.state = "paused" PROVE Successor(k, Resumed(r), lost[k])
    <2>1. Row(Resumed(r), requeued[k])
      BY <1>2, RowHere, ResumedFits
    <2> HIDE DEF r
    <2>2. Accounted(Resumed(r), lost[k]) /\ Resumed(r).state = "pending"
      BY <1>0, <1>2 DEF JobRow, Accounted, Resumed
    <2> QED BY <1>0, <1>2, <2>1, <2>2 DEF Successor, r
  <1> QED BY <1>1, <1>2

\* A checkpoint, and the passing of time.
LEMMA LeasedRowSucceeds ==
    ASSUME RowsInv, NEW k \in Job, job[k].state = "processing"
    PROVE  /\ \A stage \in Stage : Successor(k, [job[k] EXCEPT !.stage = stage], lost[k])
           /\ job[k].lease >= 0 => Successor(k, [job[k] EXCEPT !.lease = @ - 1], lost[k])
  <1> DEFINE r == job[k]
  <1>0. r \in JobRow /\ Accounted(r, lost[k]) /\ lost[k] \in Nat
    BY RowHere DEF Row
  <1>1. /\ \A stage \in Stage : Row([r EXCEPT !.stage = stage], requeued[k])
        /\ r.lease >= 0 => Row([r EXCEPT !.lease = @ - 1], requeued[k])
    BY RowHere, LeasedRowFits
  <1> HIDE DEF r
  <1>2. ASSUME NEW stage
        PROVE  /\ Accounted([r EXCEPT !.stage = stage], lost[k])
               /\ [r EXCEPT !.stage = stage].state = r.state
    BY <1>0 DEF JobRow, Accounted
  <1>3. /\ Accounted([r EXCEPT !.lease = @ - 1], lost[k])
        /\ [r EXCEPT !.lease = @ - 1].state = r.state
    BY <1>0 DEF JobRow, Accounted
  <1> QED BY <1>0, <1>1, <1>2, <1>3 DEF Successor, r

\* If every row is followed by a successor, the rows keep their invariant.
LEMMA RowsMove ==
    ASSUME RowsInv, job' = [k \in Job |-> job'[k]], lost' = [k \in Job |-> lost'[k]],
           \A k \in Job : Successor(k, job'[k], lost'[k]),
           asset' \in [Asset -> {"active", "missing"}],
           UNCHANGED <<receipt, requeued, result>>
    PROVE  RowsInv'
  <1>1. \A k \in Job : Row(job'[k], requeued[k])
    BY DEF Successor
  <1>2. LedgerInv'
    <2>1. /\ receipt \in [Receipt -> Digest \cup {None}] /\ requeued \in [Job -> 0..MaxRequeues]
      BY RowsOfInv DEF RowsInv
    <2>2. job' \in [Job -> JobRow]
      BY <1>1 DEF Row
    <2> QED BY <1>1, <2>1, <2>2 DEF LedgerInv, LedgerTypeOK, RowsConsistent, RetriesBounded, Row
  <1>3. lost' \in [Job -> Nat]
    BY DEF Successor
  <1>4. AttemptsAccounted'
    BY DEF AttemptsAccounted, Successor, Accounted
  <1>5. \A k \in Job : job'[k].state = "completed" => job'[k] = job[k]
    BY DEF Successor
  <1>6. ReceiptsMatch'
    BY <1>5 DEF RowsInv, ReceiptsMatch
  <1>7. ResultsBound'
    <2>1. \A k \in Job : job[k].state = "completed" => job'[k].state = "completed"
      BY DEF Successor
    <2> QED BY <1>5, <2>1 DEF RowsInv, ResultsBound
  <1> QED BY <1>2, <1>3, <1>4, <1>6, <1>7 DEF RowsInv

-----------------------------------------------------------------------------
(* The library, the inventory and the executions *)

LibraryRow == [rev : Revision, presence : Presence, moves : 0..MaxMoves]
ProjectionRow == [rev : Revision \cup {None}, state : {"none", "active", "missing"}]

\* A projection that changes its state keeps its type.
LEMMA ProjectionRowStays ==
    ASSUME NEW row \in ProjectionRow, NEW s \in {"active", "missing"}
    PROVE  [row EXCEPT !.state = s] \in ProjectionRow
  <1>1. row = [rev |-> row.rev, state |-> row.state] /\ row.rev \in Revision \cup {None}
    BY DEF ProjectionRow
  <1>2. [row EXCEPT !.state = s] = [rev |-> row.rev, state |-> s]
    BY <1>1
  <1> QED BY <1>1, <1>2 DEF ProjectionRow

\* What inventory has recorded; a projection has a binding.
WorldFits ==
    /\ library \in [Asset -> LibraryRow]
    /\ projection \in [Asset -> ProjectionRow]
    /\ binding \in [Asset -> {"none", "active", "missing"}]
    /\ run = [kind |-> run.kind, phase |-> run.phase, listing |-> run.listing]
    /\ run.kind \in {"none", "full", "presence"} /\ run.phase \in RunPhase
    /\ Listed \subseteq Asset
    /\ \A a \in Listed : run.listing[a].rev \in Revision
    /\ control \in {"running", "paused"}
    /\ \A a \in Asset : projection[a].state # "none" => binding[a] # "none"

\* An execution knows what its place requires.
ExecFits(x) ==
    /\ x \in ExecState
    /\ x.pc \in {"idle", "admitted"} <=> x.job = None
    /\ x.pc \in {"read", "verified"} => x.bytes # None
    /\ x.pc = "failing" => x.cause # None

\* The claims of a pause: an execution that still may claim has not done so since the operator
\* last spoke.
ClaimsFit ==
    /\ claims \in [Exec -> {0, 1}]
    /\ \A e \in Exec : exec[e].pc = "admitted" \/ control = "running" => claims[e] = 0

ExecsFit ==
    /\ exec = [e \in Exec |-> exec[e]]
    /\ \A e \in Exec : ExecFits(exec[e])
    /\ holder \in [Job -> Exec \cup {None}] /\ author \in [Job -> Exec \cup {None}]
    /\ result \in [Job -> Revision \cup {None}]

QueueInv == RowsInv /\ WorldFits /\ ExecsFit /\ ClaimsFit

\* An execution that rests.
LEMMA IdleFits == ExecFits(Idle) /\ Idle.pc = "idle"
  BY DEF ExecFits, ExecState, Idle

\* A step of one execution.
LEMMA ExecMoves ==
    ASSUME ExecsFit, NEW e \in Exec, NEW next, ExecFits(next), exec' = [exec EXCEPT ![e] = next],
           UNCHANGED <<holder, author, result>>
    PROVE  ExecsFit'
  BY DEF ExecsFit

\* A step that claims nothing and lets no execution in.
LEMMA ClaimsKept ==
    ASSUME ClaimsFit, NEW e \in Exec, NEW next, next.pc # "admitted", exec = [x \in Exec |-> exec[x]],
           exec' = [exec EXCEPT ![e] = next], UNCHANGED <<claims, control>>
    PROVE  ClaimsFit'
  <1>1. \A x \in Exec : exec'[x].pc = "admitted" => exec[x].pc = "admitted"
    OBVIOUS
  <1> QED BY <1>1 DEF ClaimsFit

\* Going on, failing and ending leave an execution that fits.
LEMMA GoesFits ==
    ASSUME ExecsFit, NEW e \in Exec, exec[e].job # None, UNCHANGED <<holder, author, result>>
    PROVE  /\ \A pc \in {"located", "described"} :
                 Goes(e, pc) =>
                     ExecsFit' /\ \A x \in Exec : exec'[x].pc = "admitted" => exec[x].pc = "admitted"
           /\ Goes(e, "verified") /\ exec[e].pc = "read" =>
                 ExecsFit' /\ \A x \in Exec : exec'[x].pc = "admitted" => exec[x].pc = "admitted"
           /\ \A code \in WorkerCode : Fails(e, code) =>
                 ExecsFit' /\ \A x \in Exec : exec'[x].pc = "admitted" => exec[x].pc = "admitted"
  <1> DEFINE old == exec[e]
             going(pc) == [old EXCEPT !.pc = pc]
             failing(code) == [old EXCEPT !.pc = "failing", !.cause = code]
  <1>0. ExecFits(old) /\ old.job # None /\ exec = [x \in Exec |-> exec[x]]
    BY DEF ExecsFit
  <1>1. ASSUME NEW pc, Goes(e, pc) PROVE exec' = [exec EXCEPT ![e] = going(pc)]
    BY <1>0, <1>1 DEF Goes
  <1>2. ASSUME NEW code, Fails(e, code) PROVE exec' = [exec EXCEPT ![e] = failing(code)]
    BY <1>0, <1>2 DEF Fails
  <1>3. ASSUME NEW next, ExecFits(next), next.pc # "admitted", exec' = [exec EXCEPT ![e] = next]
        PROVE  ExecsFit' /\ \A x \in Exec : exec'[x].pc = "admitted" => exec[x].pc = "admitted"
    BY <1>0, <1>3, ExecMoves
  <1>4. None \notin WorkerCode
    BY NoneAssumption DEF ErrorCode
  <1> HIDE DEF old
  <1>5. ASSUME NEW pc \in {"located", "described"} PROVE ExecFits(going(pc)) /\ going(pc).pc # "admitted"
    BY <1>0 DEF ExecFits, ExecState
  <1>6. old.pc = "read" => ExecFits(going("verified")) /\ going("verified").pc # "admitted"
    BY <1>0 DEF ExecFits, ExecState
  <1>7. ASSUME NEW code \in WorkerCode PROVE ExecFits(failing(code)) /\ failing(code).pc # "admitted"
    BY <1>0, <1>4 DEF ExecFits, ExecState
  <1> HIDE DEF going, failing
  <1> QED BY <1>1, <1>2, <1>3, <1>5, <1>6, <1>7 DEF old

\* A step that changes neither the rows nor what inventory has recorded.
LEMMA RowsRest ==
    ASSUME RowsInv, UNCHANGED <<ledgerVars, result, lost>> PROVE RowsInv'
  BY DEF RowsInv, LedgerInv, LedgerTypeOK, RowsConsistent, RetriesBounded, AttemptsAccounted,
     ReceiptsMatch, ResultsBound, ledgerVars

\* A step of the executions leaves what inventory has recorded.
LEMMA WorldRests == ASSUME WorldFits, UNCHANGED worldVars PROVE WorldFits'
  BY DEF WorldFits, worldVars, Listed

\* The empty queue satisfies the invariant.
LEMMA QueueInitially == QueueInit => QueueInv
  <1> SUFFICES ASSUME QueueInit PROVE QueueInv
    OBVIOUS
  <1>1. LedgerInv
    BY InitEstablishes DEF QueueInit
  <1>2. \A j \in Job : job[j].state = "absent" /\ job[j].attempts = 0
    BY DEF QueueInit, LedgerInit, NoRow
  <1>3. lost = [j \in Job |-> 0] /\ result = [j \in Job |-> None]
    BY DEF QueueInit
  <1>4. RowsInv
    BY <1>1, <1>2, <1>3 DEF RowsInv, AttemptsAccounted, ReceiptsMatch, ResultsBound
  <1>5. /\ library \in [Asset -> LibraryRow] /\ projection \in [Asset -> ProjectionRow]
    BY QueueAssumption DEF QueueInit, LibraryRow, ProjectionRow, Revision, Presence
  <1>6. WorldFits
    BY <1>5 DEF QueueInit, WorldFits, NoRun, RunPhase, Listed
  <1>7. ExecsFit
    BY IdleFits DEF QueueInit, ExecsFit
  <1>8. ClaimsFit
    BY DEF QueueInit, ClaimsFit, Idle
  <1> QED BY <1>4, <1>6, <1>7, <1>8 DEF QueueInv

-----------------------------------------------------------------------------
(* The library and the inventory *)

\* The library changes: within its bounds, and nobody else is touched.
LEMMA LibraryMovesKeeps ==
    ASSUME QueueInv, NEW a \in Asset, NEW presence \in Presence, NEW edits \in BOOLEAN,
           LibraryMoves(a, presence, edits)
    PROVE  QueueInv'
  <1>1. RowsInv'
    BY RowsRest DEF LibraryMoves, QueueInv, workVars
  <1>2. library' \in [Asset -> LibraryRow]
    <2> DEFINE old == library[a]
               row == [rev |-> IF edits THEN old.rev + 1 ELSE old.rev,
                       presence |-> presence, moves |-> old.moves + 1]
    <2>1. /\ library \in [Asset -> LibraryRow] /\ old \in LibraryRow
          /\ old.moves < MaxMoves /\ (edits => old.rev < MaxRevision)
          /\ library' = [library EXCEPT ![a] = row]
      BY DEF LibraryMoves, QueueInv, WorldFits
    <2> HIDE DEF old
    <2>2. old.moves + 1 \in 0..MaxMoves /\ old.rev \in Revision
      BY <2>1, QueueAssumption DEF LibraryRow
    <2>3. edits => old.rev + 1 \in Revision
      BY <2>1, <2>2, QueueAssumption DEF Revision
    <2>4. row \in LibraryRow
      BY <2>2, <2>3 DEF LibraryRow
    <2> HIDE DEF row
    <2> QED BY <2>1, <2>4
  <1>3. WorldFits'
    BY <1>2 DEF LibraryMoves, QueueInv, WorldFits, Listed
  <1>4. ExecsFit' /\ ClaimsFit'
    BY DEF LibraryMoves, QueueInv, ExecsFit, ClaimsFit, workVars
  <1> QED BY <1>1, <1>3, <1>4 DEF QueueInv

\* A page fetched lists assets at revisions they have.
LEMMA FetchPageKeeps ==
    ASSUME QueueInv, NEW kind \in {"full", "presence"}, FetchPage(kind) PROVE QueueInv'
  <1>1. RowsInv' /\ ExecsFit' /\ ClaimsFit'
    BY RowsRest DEF FetchPage, QueueInv, workVars, ExecsFit, ClaimsFit
  <1>2. \A a \in DOMAIN Listing(kind) : a \in Asset /\ Listing(kind)[a].rev \in Revision
    BY DEF QueueInv, WorldFits, LibraryRow, Listing
  <1>3. /\ run' = [kind |-> kind, phase |-> "fetched", listing |-> Listing(kind)]
        /\ UNCHANGED <<library, projection, binding, control>>
    BY DEF FetchPage
  <1>4. Listed' \subseteq Asset /\ \A a \in Listed' : run'.listing[a].rev \in Revision
    <2> HIDE DEF Listing
    <2> QED BY <1>2, <1>3 DEF Listed
  <1>5. /\ run' = [kind |-> run'.kind, phase |-> run'.phase, listing |-> run'.listing]
        /\ run'.kind \in {"none", "full", "presence"} /\ run'.phase \in RunPhase
    BY <1>3 DEF RunPhase
  <1>6. WorldFits'
    BY <1>3, <1>4, <1>5 DEF QueueInv, WorldFits
  <1> QED BY <1>1, <1>6 DEF QueueInv

\* The row of a job after a page.
LEMMA PagedSucceeds ==
    ASSUME QueueInv, NEW k \in Job, NEW withJob \in BOOLEAN
    PROVE  Successor(k, PagedRow(k, withJob), lost[k])
  <1>1. \/ PagedRow(k, withJob) = job[k]
        \/ PagedRow(k, withJob) = EnqueuedRow(k, MaxAttempts)
        \/ /\ job[k].state \in InFlight
           /\ PagedRow(k, withJob) = Suspended(job[k], "INPUT_REVISION_SUPERSEDED")
    BY DEF PagedRow
  <1>2. RowsInv /\ MaxAttempts \in AttemptLimits /\ "INPUT_REVISION_SUPERSEDED" \in SuspendCode
    BY QueueAssumption DEF QueueInv, SuspendCode
  <1> QED BY <1>1, <1>2, RowHere, EnqueuedSucceeds, SuspendedSucceeds

\* The run goes on to another phase with what it has listed.
LEMMA RunGoesOn ==
    ASSUME WorldFits, NEW phase \in RunPhase, run' = [run EXCEPT !.phase = phase]
    PROVE  /\ run' = [kind |-> run'.kind, phase |-> run'.phase, listing |-> run'.listing]
           /\ run'.kind \in {"none", "full", "presence"} /\ run'.phase \in RunPhase
           /\ Listed' \subseteq Asset
           /\ \A a \in Listed' : run'.listing[a].rev \in Revision
  <1>1. run'.kind = run.kind /\ run'.phase = phase /\ run'.listing = run.listing
    BY DEF WorldFits
  <1>2. run' = [kind |-> run.kind, phase |-> phase, listing |-> run.listing]
    BY DEF WorldFits
  <1> QED BY <1>1, <1>2 DEF WorldFits, Listed

\* recordPage.
LEMMA RecordPageKeeps ==
    ASSUME QueueInv, NEW withJob \in BOOLEAN, RecordPage(withJob) PROVE QueueInv'
  <1>1. /\ job' = [j \in Job |-> PagedRow(j, withJob)]
        /\ asset' = [a \in Asset |-> IF a \in Listed THEN "active" ELSE asset[a]]
        /\ projection' = [a \in Asset |-> IF a \in Listed
                                          THEN [rev |-> run.listing[a].rev, state |-> "active"]
                                          ELSE projection[a]]
        /\ binding' = [a \in Asset |-> IF a \in Listed THEN "active" ELSE binding[a]]
        /\ run' = [run EXCEPT !.phase = "recorded"]
        /\ UNCHANGED <<receipt, requeued, library, control, workVars>>
    BY DEF RecordPage
  <1>2. RowsInv'
    <2>1. asset' \in [Asset -> {"active", "missing"}]
      BY <1>1 DEF QueueInv, RowsInv, LedgerInv, LedgerTypeOK
    <2>2. \A k \in Job : Successor(k, job'[k], lost'[k])
      BY <1>1, PagedSucceeds DEF workVars
    <2>3. job' = [k \in Job |-> job'[k]] /\ lost' = [k \in Job |-> lost'[k]]
      BY <1>1 DEF QueueInv, RowsInv, workVars
    <2> QED BY <1>1, <2>1, <2>2, <2>3, RowsMove DEF QueueInv, workVars
  <1>3. projection' \in [Asset -> ProjectionRow]
    BY <1>1 DEF QueueInv, WorldFits, ProjectionRow
  <1>4. /\ binding' \in [Asset -> {"none", "active", "missing"}]
        /\ \A a \in Asset : projection'[a].state # "none" => binding'[a] # "none"
    BY <1>1 DEF QueueInv, WorldFits
  <1>5. WorldFits'
    BY <1>1, <1>3, <1>4, RunGoesOn DEF QueueInv, WorldFits, RunPhase
  <1>6. ExecsFit' /\ ClaimsFit'
    BY <1>1 DEF QueueInv, ExecsFit, ClaimsFit, workVars
  <1> QED BY <1>2, <1>5, <1>6 DEF QueueInv

\* A step of the inventory that leaves the jobs alone.
LEMMA AssetsMove ==
    ASSUME QueueInv, UNCHANGED <<job, receipt, requeued, library, control, workVars>>,
           asset' \in [Asset -> {"active", "missing"}]
    PROVE  RowsInv' /\ ExecsFit' /\ ClaimsFit'
  <1>1. \A k \in Job : Successor(k, job'[k], lost'[k])
    BY RowHere DEF QueueInv, workVars
  <1>2. job' = [k \in Job |-> job'[k]] /\ lost' = [k \in Job |-> lost'[k]]
    BY DEF QueueInv, RowsInv, LedgerInv, LedgerTypeOK, workVars
  <1>3. RowsInv'
    BY <1>1, <1>2, RowsMove DEF QueueInv, workVars
  <1> QED BY <1>3 DEF QueueInv, ExecsFit, ClaimsFit, workVars

\* recordImmichCataloguePresencePage.
LEMMA RecordPresencePageKeeps == ASSUME QueueInv, RecordPresencePage PROVE QueueInv'
  <1> DEFINE known == {a \in Listed : projection[a].state # "none"}
             seen(a) == IF run.listing[a].trashed THEN "missing" ELSE "active"
  <1>1. /\ projection' = [a \in Asset |-> IF a \in known THEN [projection[a] EXCEPT !.state = seen(a)]
                                          ELSE projection[a]]
        /\ binding' = [a \in Asset |-> IF a \in known THEN seen(a) ELSE binding[a]]
        /\ asset' = [a \in Asset |-> IF a \in known THEN binding[a] ELSE asset[a]]
        /\ run' = [run EXCEPT !.phase = "recorded"]
        /\ UNCHANGED <<job, receipt, requeued, library, control, workVars>>
    BY DEF RecordPresencePage
  <1>2. asset' \in [Asset -> {"active", "missing"}]
    BY <1>1 DEF QueueInv, WorldFits, RowsInv, LedgerInv, LedgerTypeOK
  <1>3. projection' \in [Asset -> ProjectionRow]
    <2>1. \A a \in Asset, state \in {"active", "missing"} :
              [projection[a] EXCEPT !.state = state] \in ProjectionRow
      <3> SUFFICES ASSUME NEW a \in Asset, NEW state \in {"active", "missing"}
                   PROVE  [projection[a] EXCEPT !.state = state] \in ProjectionRow
        OBVIOUS
      <3>1. projection[a] \in ProjectionRow
        BY DEF QueueInv, WorldFits
      <3> QED BY <3>1, ProjectionRowStays
    <2>2. \A a : seen(a) \in {"active", "missing"}
      OBVIOUS
    <2> HIDE DEF seen, known
    <2> QED BY <1>1, <2>1, <2>2 DEF QueueInv, WorldFits
  <1>4. /\ binding' \in [Asset -> {"none", "active", "missing"}]
        /\ \A a \in Asset : projection'[a].state # "none" => binding'[a] # "none"
    BY <1>1 DEF QueueInv, WorldFits
  <1>5. WorldFits'
    BY <1>1, <1>3, <1>4, RunGoesOn DEF QueueInv, WorldFits, RunPhase
  <1> QED BY <1>1, <1>2, <1>5, AssetsMove DEF QueueInv

\* complete_scoped_immich_inventory_run.
LEMMA CompleteRunKeeps == ASSUME QueueInv, CompleteRun PROVE QueueInv'
  <1>1. /\ run' = [run EXCEPT !.phase = "completed", !.listing = <<>>]
        /\ UNCHANGED <<receipt, requeued, library, binding, control, workVars>>
        /\ \/ /\ SuspendJobs({j \in Job : AssetOf[j] \in Absent}, "ASSET_NOT_VISIBLE")
              /\ projection' = [a \in Asset |-> IF a \in Absent
                                                THEN [projection[a] EXCEPT !.state = "missing"]
                                                ELSE projection[a]]
              /\ asset' = [a \in Asset |-> IF projection'[a].state = "missing" THEN "missing"
                                           ELSE asset[a]]
           \/ UNCHANGED <<job, projection, asset>>
    BY DEF CompleteRun
  <1>2. asset' \in [Asset -> {"active", "missing"}]
    BY <1>1 DEF QueueInv, RowsInv, LedgerInv, LedgerTypeOK
  <1>3. \A k \in Job : Successor(k, job'[k], lost'[k])
    <2> SUFFICES ASSUME NEW k \in Job PROVE Successor(k, job'[k], lost[k])
      BY <1>1 DEF workVars
    <2>1. \/ job'[k] = job[k]
          \/ job[k].state \in InFlight /\ job'[k] = Suspended(job[k], "ASSET_NOT_VISIBLE")
      BY <1>1 DEF SuspendJobs
    <2> QED BY <2>1, RowHere, SuspendedSucceeds DEF QueueInv, SuspendCode
  <1>4. job' = [k \in Job |-> job'[k]] /\ lost' = [k \in Job |-> lost'[k]]
    BY <1>1 DEF SuspendJobs, QueueInv, RowsInv, LedgerInv, LedgerTypeOK, workVars
  <1>5. RowsInv'
    BY <1>1, <1>2, <1>3, <1>4, RowsMove DEF QueueInv, workVars
  <1>6. /\ projection' \in [Asset -> ProjectionRow]
        /\ \A a \in Asset : projection'[a].state # "none" => projection[a].state # "none"
    <2>1. ASSUME NEW a \in Asset, projection[a].state = "active"
          PROVE  [projection[a] EXCEPT !.state = "missing"] \in ProjectionRow
      <3>1. projection[a] \in ProjectionRow
        BY DEF QueueInv, WorldFits
      <3> QED BY <3>1, ProjectionRowStays
    <2> QED BY <1>1, <2>1 DEF Absent, QueueInv, WorldFits
  <1>7. /\ run' = [kind |-> run'.kind, phase |-> run'.phase, listing |-> run'.listing]
        /\ run'.kind \in {"none", "full", "presence"} /\ run'.phase \in RunPhase
        /\ Listed' = {}
    <2>1. run' = [kind |-> run.kind, phase |-> "completed", listing |-> <<>>]
      BY <1>1 DEF QueueInv, WorldFits
    <2> QED BY <2>1 DEF QueueInv, WorldFits, RunPhase, Listed
  <1>8. WorldFits'
    BY <1>1, <1>6, <1>7 DEF QueueInv, WorldFits
  <1>9. ExecsFit' /\ ClaimsFit'
    BY <1>1 DEF QueueInv, ExecsFit, ClaimsFit, workVars
  <1> QED BY <1>5, <1>8, <1>9 DEF QueueInv

\* reconcileMobilityBindings, both statements.
LEMMA ReconcileKeeps == ASSUME QueueInv, ReconcileBindings \/ ReconcileAssets PROVE QueueInv'
  <1>1. CASE ReconcileBindings
    <2>1. RowsInv' /\ ExecsFit' /\ ClaimsFit'
      BY <1>1, RowsRest DEF ReconcileBindings, QueueInv, workVars, ExecsFit, ClaimsFit
    <2>2. /\ binding' = [a \in Asset |-> projection[a].state]
          /\ run' = [run EXCEPT !.phase = "bound"] /\ UNCHANGED <<library, projection, control>>
      BY <1>1 DEF ReconcileBindings
    <2>3. binding' \in [Asset -> {"none", "active", "missing"}]
      BY <2>2 DEF QueueInv, WorldFits, ProjectionRow
    <2>4. WorldFits'
      BY <2>2, <2>3, RunGoesOn DEF QueueInv, WorldFits, RunPhase
    <2> QED BY <2>1, <2>4 DEF QueueInv
  <1>2. CASE ReconcileAssets
    <2>1. /\ asset' = [a \in Asset |-> IF binding[a] = "none" THEN asset[a] ELSE binding[a]]
          /\ run' = NoRun
          /\ UNCHANGED <<job, receipt, requeued, library, projection, binding, control, workVars>>
      BY <1>2 DEF ReconcileAssets
    <2>2. asset' \in [Asset -> {"active", "missing"}]
      BY <2>1 DEF QueueInv, WorldFits, RowsInv, LedgerInv, LedgerTypeOK
    <2>3. WorldFits'
      BY <2>1 DEF QueueInv, WorldFits, NoRun, RunPhase, Listed
    <2> QED BY <2>1, <2>2, <2>3, AssetsMove DEF QueueInv
  <1> QED BY <1>1, <1>2

\* ensureCurrentJobs.
LEMMA EnsureCurrentJobsKeeps == ASSUME QueueInv, EnsureCurrentJobs PROVE QueueInv'
  <1>1. /\ job' = [j \in Job |-> IF j \in EnsurableJobs THEN EnqueuedRow(j, MaxAttempts) ELSE job[j]]
        /\ UNCHANGED <<asset, receipt, requeued, worldVars, workVars>>
    BY DEF EnsureCurrentJobs
  <1>2. \A k \in Job : Successor(k, job'[k], lost'[k])
    BY <1>1, RowHere, EnqueuedSucceeds, QueueAssumption DEF QueueInv, workVars
  <1>3. job' = [k \in Job |-> job'[k]] /\ lost' = [k \in Job |-> lost'[k]]
    BY <1>1 DEF QueueInv, RowsInv, workVars
  <1>4. asset' \in [Asset -> {"active", "missing"}]
    BY <1>1 DEF QueueInv, RowsInv, LedgerInv, LedgerTypeOK
  <1>5. RowsInv'
    BY <1>1, <1>2, <1>3, <1>4, RowsMove DEF QueueInv, workVars
  <1> QED BY <1>1, <1>5, WorldRests DEF QueueInv, ExecsFit, ClaimsFit, worldVars, workVars

\* A pause and a resume: the claims of every execution are counted anew.
LEMMA OperatorKeeps == ASSUME QueueInv, PauseQueue \/ ResumeQueue PROVE QueueInv'
  <1>1. /\ control' \in {"running", "paused"} /\ claims' = [e \in Exec |-> 0]
        /\ UNCHANGED <<asset, receipt, requeued, library, projection, binding, run>>
        /\ UNCHANGED <<exec, result, holder, author, lost>>
        /\ OperatorPauseJobs \/ OperatorResumeJobs
    BY DEF PauseQueue, ResumeQueue
  <1>2. ASSUME NEW k \in Job PROVE Successor(k, job'[k], lost'[k])
    <2>1. \/ job'[k] = job[k]
          \/ job[k].state = "pending" /\ job'[k] = OperatorPaused(job[k])
          \/ job[k].state = "paused" /\ job'[k] = Resumed(job[k])
      BY <1>1 DEF OperatorPauseJobs, OperatorResumeJobs
    <2> QED BY <1>1, <2>1, RowHere, OperatorSucceeds DEF QueueInv
  <1>3. job' = [k \in Job |-> job'[k]] /\ lost' = [k \in Job |-> lost'[k]]
    BY <1>1 DEF OperatorPauseJobs, OperatorResumeJobs, QueueInv, RowsInv
  <1>4. asset' \in [Asset -> {"active", "missing"}]
    BY <1>1 DEF QueueInv, RowsInv, LedgerInv, LedgerTypeOK
  <1>5. RowsInv'
    BY <1>1, <1>2, <1>3, <1>4, RowsMove DEF QueueInv
  <1>6. WorldFits' /\ ExecsFit' /\ ClaimsFit'
    BY <1>1 DEF QueueInv, WorldFits, ExecsFit, ClaimsFit, Listed
  <1> QED BY <1>5, <1>6 DEF QueueInv
-----------------------------------------------------------------------------
(* The executions *)

\* The rows after a step that writes one of them.
LEMMA OneRowMoves ==
    ASSUME RowsInv, NEW j \in Job, NEW row, NEW n, Successor(j, row, n),
           job' = [job EXCEPT ![j] = row], lost' = [lost EXCEPT ![j] = n],
           UNCHANGED <<asset, receipt, requeued, result>>
    PROVE  RowsInv'
  <1>1. job = [k \in Job |-> job[k]] /\ lost \in [Job -> Nat]
        /\ asset \in [Asset -> {"active", "missing"}]
    BY DEF RowsInv, LedgerInv, LedgerTypeOK
  <1>2. job' = [k \in Job |-> IF k = j THEN row ELSE job[k]]
    BY <1>1
  <1>3. lost' = [k \in Job |-> IF k = j THEN n ELSE lost[k]]
    BY <1>1
  <1>4. \A k \in Job : Successor(k, job'[k], lost'[k])
    BY <1>2, <1>3, RowHere
  <1> QED BY <1>1, <1>2, <1>3, <1>4, RowsMove

\* A step that only moves executions on.
LEMMA OnlyExecsMove ==
    ASSUME QueueInv, ExecsFit', \A x \in Exec : exec'[x].pc = "admitted" => exec[x].pc = "admitted",
           UNCHANGED <<ledgerVars, worldVars, result, holder, author, lost, claims>>
    PROVE  QueueInv'
  <1>1. RowsInv' /\ WorldFits'
    BY RowsRest, WorldRests DEF QueueInv
  <1>2. ClaimsFit'
    BY DEF QueueInv, ClaimsFit, worldVars
  <1> QED BY <1>1, <1>2 DEF QueueInv

\* What an execution that has claimed a job has.
LEMMA ClaimedHas ==
    ASSUME QueueInv, NEW e \in Exec
    PROVE  /\ exec[e].pc \notin {"idle", "admitted"} => Mine(e) \in Job
           /\ Mine(e) # None => Mine(e) \in Job /\ exec[e].pc \notin {"idle", "admitted"}
           /\ exec[e].pc \in {"read", "verified"} => exec[e].bytes \in Revision
           /\ exec[e].pc = "failing" => exec[e].cause \in WorkerCode
           /\ exec[e].bytes \in Revision \cup {None}
           /\ Name(e) \in Worker
  <1>1. ExecFits(exec[e])
    BY DEF QueueInv, ExecsFit
  <1> QED BY <1>1, QueueAssumption DEF ExecFits, ExecState, Mine, Name

\* An execution that ends.
LEMMA EndsFits ==
    ASSUME ExecsFit, NEW e \in Exec, Ends(e), UNCHANGED <<holder, author, result>>
    PROVE  ExecsFit' /\ \A x \in Exec : exec'[x].pc = "admitted" => exec[x].pc = "admitted"
  <1>1. exec' = [exec EXCEPT ![e] = Idle] /\ exec = [x \in Exec |-> exec[x]]
    BY DEF Ends, ExecsFit
  <1>2. \A x \in Exec : exec'[x].pc = "admitted" => exec[x].pc = "admitted"
    BY <1>1, IdleFits
  <1> QED BY <1>1, <1>2, IdleFits, ExecMoves

\* The gate: an execution that may claim under a pause has read "running" before it.
LEMMA ReadControlKeeps == ASSUME QueueInv, NEW e \in Exec, ReadControl(e) PROVE QueueInv'
  <1> DEFINE old == exec[e]
             next == [old EXCEPT !.pc = "admitted"]
  <1>1. /\ control = "running" /\ old.pc = "idle" /\ ExecFits(old)
        /\ exec = [x \in Exec |-> exec[x]]
        /\ exec' = [exec EXCEPT ![e] = next]
        /\ UNCHANGED <<ledgerVars, worldVars, result, holder, author, lost, claims>>
    BY DEF ReadControl, Goes, QueueInv, ExecsFit
  <1> HIDE DEF old
  <1>2. ExecFits(next)
    BY <1>1 DEF ExecFits, ExecState
  <1> HIDE DEF next
  <1>3. ExecsFit'
    BY <1>1, <1>2, ExecMoves DEF QueueInv
  <1>4. RowsInv' /\ WorldFits'
    BY <1>1, RowsRest, WorldRests DEF QueueInv
  <1>5. ClaimsFit'
    BY <1>1 DEF QueueInv, ClaimsFit, worldVars
  <1> QED BY <1>3, <1>4, <1>5 DEF QueueInv

\* A claim: the sweep, one lease, and the claim it counts when it comes after a pause.
LEMMA ClaimJobKeeps == ASSUME QueueInv, NEW e \in Exec, ClaimJob(e) PROVE QueueInv'
  <1>1. PICK j \in Job : /\ ClaimProviderJob(Name(e), j)
                         /\ exec' = [exec EXCEPT ![e].pc = "claimed", ![e].job = j]
                         /\ holder' = [holder EXCEPT ![j] = e]
    BY DEF ClaimJob
  <1>2. /\ exec[e].pc = "admitted" /\ CountLost(Lapsed)
        /\ claims' = [claims EXCEPT ![e] = IF control = "paused" THEN @ + 1 ELSE @]
        /\ UNCHANGED <<worldVars, result, author>>
    BY DEF ClaimJob
  <1>3. RowsInv'
    <2>1. Swept[j].state = "pending" /\ job' = [Swept EXCEPT ![j] = Leased(Swept[j], Name(e))]
          /\ UNCHANGED <<asset, receipt, requeued>>
      BY <1>1 DEF ClaimProviderJob, Claimable
    <2>2. job' = [k \in Job |-> IF k = j THEN Leased(Swept[j], Name(e)) ELSE Swept[k]]
      BY <2>1 DEF Swept
    <2>3. lost' = SweptLost /\ lost' = [k \in Job |-> lost'[k]]
      BY <1>2 DEF CountLost, SweptLost
    <2>4. Successor(j, Leased(Swept[j], Name(e)), SweptLost[j])
      BY <2>1, ClaimedHas, LeasedSucceeds DEF QueueInv
    <2>5. \A k \in Job : Successor(k, Swept[k], SweptLost[k])
      BY SweptSucceeds DEF QueueInv
    <2>6. \A k \in Job : Successor(k, job'[k], lost'[k])
      BY <2>2, <2>3, <2>4, <2>5
    <2>7. job' = [k \in Job |-> job'[k]]
      BY <2>2
    <2>8. asset' \in [Asset -> {"active", "missing"}]
      BY <2>1 DEF QueueInv, RowsInv, LedgerInv, LedgerTypeOK
    <2> QED BY <1>2, <2>1, <2>3, <2>6, <2>7, <2>8, RowsMove DEF QueueInv
  <1>4. WorldFits'
    BY <1>2, WorldRests DEF QueueInv
  <1> DEFINE old == exec[e]
             next == [old EXCEPT !.pc = "claimed", !.job = j]
  <1>5. /\ exec = [x \in Exec |-> exec[x]] /\ ExecFits(old)
        /\ holder \in [Job -> Exec \cup {None}] /\ author \in [Job -> Exec \cup {None}]
        /\ result \in [Job -> Revision \cup {None}]
    BY DEF QueueInv, ExecsFit
  <1>6. exec' = [exec EXCEPT ![e] = next]
    BY <1>1, <1>5
  <1> HIDE DEF old
  <1>7. ExecFits(next) /\ next.pc = "claimed"
    BY <1>5, QueueAssumption DEF ExecFits, ExecState
  <1> HIDE DEF next
  <1>8. ExecsFit'
    <2>1. exec' = [x \in Exec |-> exec'[x]] /\ \A x \in Exec : ExecFits(exec'[x])
      BY <1>5, <1>6, <1>7 DEF QueueInv, ExecsFit
    <2>2. holder' \in [Job -> Exec \cup {None}]
      BY <1>1, <1>5
    <2> QED BY <1>2, <1>5, <2>1, <2>2 DEF ExecsFit
  <1>9. ClaimsFit'
    <2>1. claims \in [Exec -> {0, 1}] /\ claims[e] = 0 /\ control \in {"running", "paused"}
      BY <1>2 DEF QueueInv, ClaimsFit, WorldFits
    <2>2. claims' = [x \in Exec |-> IF x = e THEN IF control = "paused" THEN 1 ELSE 0
                                             ELSE claims[x]]
      <3>1. (IF control = "paused" THEN claims[e] + 1 ELSE claims[e])
                = IF control = "paused" THEN 1 ELSE 0
        BY <2>1
      <3>2. claims' = [claims EXCEPT ![e] = IF control = "paused" THEN 1 ELSE 0]
        BY <1>2, <3>1
      <3>3. claims = [x \in Exec |-> claims[x]]
        BY <2>1
      <3> QED BY <3>2, <3>3
    <2>3. claims' \in [Exec -> {0, 1}]
      BY <2>1, <2>2
    <2>4. ASSUME NEW x \in Exec, exec'[x].pc = "admitted" \/ control' = "running"
          PROVE  claims'[x] = 0
      <3>1. control' = control
        BY <1>2 DEF worldVars
      <3>2. CASE x = e
        <4>1. exec'[x].pc # "admitted"
          BY <1>5, <1>6, <1>7, <3>2
        <4> QED BY <2>2, <2>4, <3>1, <3>2, <4>1
      <3>3. CASE x # e
        <4>1. exec'[x] = exec[x]
          BY <1>5, <1>6, <3>3
        <4> QED BY <2>2, <2>4, <3>1, <3>3, <4>1 DEF QueueInv, ClaimsFit
      <3> QED BY <3>2, <3>3
    <2> QED BY <2>3, <2>4 DEF ClaimsFit
  <1> QED BY <1>3, <1>4, <1>8, <1>9 DEF QueueInv

\* A claim that finds nothing still sweeps.
LEMMA FindNoJobKeeps == ASSUME QueueInv, NEW e \in Exec, FindNoJob(e) PROVE QueueInv'
  <1>1. /\ job' = Swept /\ CountLost(Lapsed) /\ Ends(e) /\ UNCHANGED <<asset, receipt, requeued>>
        /\ UNCHANGED <<worldVars, result, holder, author, claims>>
    BY DEF FindNoJob, ClaimNothing
  <1>2. RowsInv'
    <2>1. lost' = SweptLost /\ lost' = [k \in Job |-> lost'[k]]
      BY <1>1 DEF CountLost, SweptLost
    <2>2. \A k \in Job : Successor(k, job'[k], lost'[k])
      BY <1>1, <2>1, SweptSucceeds DEF QueueInv
    <2>3. job' = [k \in Job |-> job'[k]]
      BY <1>1 DEF Swept
    <2>4. asset' \in [Asset -> {"active", "missing"}]
      BY <1>1 DEF QueueInv, RowsInv, LedgerInv, LedgerTypeOK
    <2> QED BY <1>1, <2>1, <2>2, <2>3, <2>4, RowsMove DEF QueueInv
  <1>3. ExecsFit' /\ \A x \in Exec : exec'[x].pc = "admitted" => exec[x].pc = "admitted"
    BY <1>1, EndsFits DEF QueueInv
  <1>4. WorldFits' /\ ClaimsFit'
    BY <1>1, <1>3, WorldRests DEF QueueInv, ClaimsFit, worldVars
  <1> QED BY <1>2, <1>3, <1>4 DEF QueueInv

\* The steps of an execution that touch nothing else: it goes on, or fails.
LEMMA ReadingKeeps ==
    ASSUME QueueInv, NEW e \in Exec,
           LocateProjection(e) \/ ReadMetadata(e) \/ DetectorFails(e) \/ CommitRefused(e)
    PROVE  QueueInv'
  <1>1. /\ \/ Goes(e, "located") \/ Goes(e, "described")
           \/ Fails(e, "IMMICH_ASSET_PROJECTION_UNAVAILABLE") \/ Fails(e, "WORKER_ERROR")
        /\ exec[e].pc \notin {"idle", "admitted"}
        /\ UNCHANGED <<ledgerVars, worldVars, result, holder, author, lost, claims>>
    BY DEF LocateProjection, ReadMetadata, DetectorFails, CommitRefused
  <1>2. exec[e].job # None
    BY <1>1 DEF QueueInv, ExecsFit, ExecFits
  <1>3. ExecsFit' /\ \A x \in Exec : exec'[x].pc = "admitted" => exec[x].pc = "admitted"
    BY <1>1, <1>2, GoesFits DEF QueueInv, WorkerCode
  <1> QED BY <1>1, <1>3, OnlyExecsMove

\* The bytes read are those of some revision.
LEMMA ReadBytesKeeps == ASSUME QueueInv, NEW e \in Exec, ReadBytes(e) PROVE QueueInv'
  <1> DEFINE a == AssetOf[Mine(e)]
             old == exec[e]
             next == [old EXCEPT !.pc = "read", !.bytes = library[a].rev]
  <1>1. /\ old.pc = "described" /\ ExecFits(old) /\ exec = [x \in Exec |-> exec[x]]
        /\ UNCHANGED <<ledgerVars, worldVars, result, holder, author, lost, claims>>
        /\ exec' = [exec EXCEPT ![e] = next] \/ Fails(e, "WORKER_ERROR")
    BY DEF ReadBytes, QueueInv, ExecsFit
  <1>2. library[a].rev \in Revision
    BY <1>1, ClaimedHas, LedgerAssumption DEF QueueInv, WorldFits, LibraryRow
  <1>3. CASE exec' = [exec EXCEPT ![e] = next]
    <2> HIDE DEF old, a
    <2>1. ExecFits(next) /\ next.pc = "read"
      BY <1>1, <1>2, QueueAssumption DEF ExecFits, ExecState
    <2> HIDE DEF next
    <2>2. ExecsFit'
      BY <1>1, <1>3, <2>1, ExecMoves DEF QueueInv
    <2>3. \A x \in Exec : exec'[x].pc = "admitted" => exec[x].pc = "admitted"
      BY <1>1, <1>3, <2>1
    <2> QED BY <1>1, <2>2, <2>3, OnlyExecsMove
  <1>4. CASE Fails(e, "WORKER_ERROR")
    <2>1. exec[e].job # None
      BY <1>1 DEF ExecFits
    <2>2. ExecsFit' /\ \A x \in Exec : exec'[x].pc = "admitted" => exec[x].pc = "admitted"
      BY <1>1, <1>4, <2>1, GoesFits DEF QueueInv, WorkerCode
    <2> QED BY <1>1, <2>2, OnlyExecsMove
  <1> QED BY <1>1, <1>3, <1>4

\* The checkpoint, if the lease is still current.
LEMMA VerifyInventoryKeeps == ASSUME QueueInv, NEW e \in Exec, VerifyInventory(e) PROVE QueueInv'
  <1>1. exec[e].pc = "read" /\ UNCHANGED <<worldVars, result, holder, author, lost, claims>>
    BY DEF VerifyInventory
  <1>2. Mine(e) \in Job /\ exec[e].job # None
    BY <1>1, ClaimedHas DEF QueueInv, ExecsFit, ExecFits
  <1>3. CASE Checkpoint(Name(e), Mine(e), InventoryVerified) /\ Goes(e, "verified")
    <2> DEFINE j == Mine(e)
               row == [job[j] EXCEPT !.stage = InventoryVerified]
    <2>1. /\ job[j].state = "processing" /\ job' = [job EXCEPT ![j] = row]
          /\ UNCHANGED <<asset, receipt, requeued>>
      BY <1>3 DEF Checkpoint, LeaseCurrent, LeaseNamed
    <2>2. Successor(j, row, lost[j])
      <3>1. InventoryVerified \in Stage
        BY DEF Stage, InventoryVerified
      <3>2. \A stage \in Stage : Successor(j, [job[j] EXCEPT !.stage = stage], lost[j])
        BY <1>2, <2>1, LeasedRowSucceeds DEF QueueInv
      <3> QED BY <3>1, <3>2
    <2>3. lost' = [lost EXCEPT ![j] = lost[j]]
      BY <1>1 DEF QueueInv, RowsInv
    <2> HIDE DEF row
    <2>4. RowsInv'
      BY <1>1, <1>2, <2>1, <2>2, <2>3, OneRowMoves DEF QueueInv
    <2>5. ExecsFit' /\ \A x \in Exec : exec'[x].pc = "admitted" => exec[x].pc = "admitted"
      BY <1>1, <1>2, <1>3, GoesFits DEF QueueInv
    <2>6. WorldFits' /\ ClaimsFit'
      BY <1>1, <2>5, WorldRests DEF QueueInv, ClaimsFit, worldVars
    <2> QED BY <2>4, <2>5, <2>6 DEF QueueInv
  <1>4. CASE Fails(e, "WORKER_ERROR") /\ UNCHANGED ledgerVars
    <2>1. ExecsFit' /\ \A x \in Exec : exec'[x].pc = "admitted" => exec[x].pc = "admitted"
      BY <1>1, <1>2, <1>4, GoesFits DEF QueueInv, WorkerCode
    <2> QED BY <1>1, <1>4, <2>1, OnlyExecsMove
  <1> QED BY <1>3, <1>4 DEF VerifyInventory

\* A failure report that the ledger accepts costs the attempt; any other is swallowed.
LEMMA ReportFailureKeeps == ASSUME QueueInv, NEW e \in Exec, ReportFailure(e) PROVE QueueInv'
  <1>1. /\ exec[e].pc = "failing" /\ Ends(e) /\ UNCHANGED <<worldVars, result, holder, author, claims>>
    BY DEF ReportFailure
  <1>2. ExecsFit' /\ \A x \in Exec : exec'[x].pc = "admitted" => exec[x].pc = "admitted"
    BY <1>1, EndsFits DEF QueueInv
  <1>3. Mine(e) \in Job /\ exec[e].cause \in ErrorCode
    BY <1>1, ClaimedHas DEF ErrorCode
  <1>4. CASE Fail(Name(e), Mine(e), exec[e].cause) /\ CountLost({Mine(e)})
    <2> DEFINE j == Mine(e)
               row == AttemptLost(job[j], exec[e].cause)
    <2>1. /\ job[j].state = "processing" /\ job' = [job EXCEPT ![j] = row]
          /\ UNCHANGED <<asset, receipt, requeued>>
      BY <1>4 DEF Fail, LeaseNamed
    <2>2. Successor(j, row, lost[j] + 1)
      BY <1>3, <2>1, LostSucceeds DEF QueueInv
    <2>3. lost' = [lost EXCEPT ![j] = lost[j] + 1]
      BY <1>4 DEF CountLost, QueueInv, RowsInv
    <2> HIDE DEF row
    <2>4. RowsInv'
      BY <1>1, <1>3, <2>1, <2>2, <2>3, OneRowMoves DEF QueueInv
    <2>5. WorldFits' /\ ClaimsFit'
      BY <1>1, <1>2, WorldRests DEF QueueInv, ClaimsFit, worldVars
    <2> QED BY <1>2, <2>4, <2>5 DEF QueueInv
  <1>5. CASE UNCHANGED <<ledgerVars, lost>>
    BY <1>1, <1>2, <1>5, OnlyExecsMove
  <1> QED BY <1>4, <1>5 DEF ReportFailure

\* A crash.
LEMMA StopKeeps == ASSUME QueueInv, NEW e \in Exec, Stop(e) PROVE QueueInv'
  <1>1. Ends(e) /\ UNCHANGED <<ledgerVars, worldVars, result, holder, author, lost, claims>>
    BY DEF Stop
  <1>2. ExecsFit' /\ \A x \in Exec : exec'[x].pc = "admitted" => exec[x].pc = "admitted"
    BY <1>1, EndsFits DEF QueueInv
  <1> QED BY <1>1, <1>2, OnlyExecsMove

\* A commit: completed row, matching receipt and stored result in one step.
LEMMA CommitKeeps == ASSUME QueueInv, NEW e \in Exec, NEW d \in Digest, Commit(e, d) PROVE QueueInv'
  <1> DEFINE j == Mine(e)
             staged == [job[j] EXCEPT !.stage = ObservationsRecorded]
             row == Completed(staged, d, d)
  <1>1. /\ exec[e].pc = "verified" /\ job[j].state = "processing"
        /\ job' = [job EXCEPT ![j] = row]
        /\ receipt' = [receipt EXCEPT ![d] = d]
        /\ result' = [result EXCEPT ![j] = IF @ = None THEN exec[e].bytes ELSE @]
        /\ author' = [author EXCEPT ![j] = IF @ = None THEN e ELSE @]
        /\ Ends(e)
        /\ UNCHANGED <<asset, requeued, worldVars, holder, lost, claims>>
    BY DEF Commit, Committed, LeaseCurrent, LeaseNamed
  <1>2. j \in Job /\ exec[e].bytes \in Revision /\ d \in Receipt
    BY <1>1, ClaimedHas, QueueAssumption
  <1>3. Row(job[j], requeued[j]) /\ requeued[j] \in Nat /\ Accounted(job[j], lost[j])
    BY <1>2, RowHere DEF QueueInv
  <1>4. Row(row, requeued[j])
    <2>1. Row(staged, requeued[j])
      <3>1. ObservationsRecorded \in Stage
        BY DEF Stage, ObservationsRecorded
      <3>2. \A stage \in Stage : Row([job[j] EXCEPT !.stage = stage], requeued[j])
        BY <1>1, <1>3, LeasedRowFits
      <3> QED BY <3>1, <3>2
    <2>2. staged.state = "processing" /\ staged.stage > Queued
      BY <1>1, <1>3 DEF Row, JobRow, Queued, ObservationsRecorded
    <2> HIDE DEF staged
    <2> QED BY <1>2, <1>3, <2>1, <2>2, CompletedFits
  <1>5. /\ row.state = "completed" /\ row.receipt = d /\ row.digest = d
        /\ row.attempts = job[j].attempts
    BY <1>3 DEF Row, JobRow, Completed, Unleased
  <1> HIDE DEF row
  <1>6. job' = [k \in Job |-> IF k = j THEN row ELSE job[k]]
    BY <1>1 DEF QueueInv, RowsInv, LedgerInv, LedgerTypeOK
  <1>7. /\ receipt' \in [Receipt -> Digest \cup {None}]
        /\ receipt'[d] = d /\ \A r \in Receipt \ {d} : receipt'[r] = receipt[r]
    BY <1>1, <1>2 DEF QueueInv, RowsInv, LedgerInv, LedgerTypeOK
  <1>8. \A k \in Job : Row(job'[k], requeued[k])
    BY <1>4, <1>6, RowHere DEF QueueInv
  <1>9. LedgerInv'
    <2>1. job' \in [Job -> JobRow]
      BY <1>6, <1>8 DEF Row
    <2>2. asset' \in [Asset -> {"active", "missing"}] /\ requeued' \in [Job -> 0..MaxRequeues]
      BY <1>1 DEF QueueInv, RowsInv, LedgerInv, LedgerTypeOK
    <2> QED BY <1>1, <1>7, <1>8, <2>1, <2>2
         DEF LedgerInv, LedgerTypeOK, RowsConsistent, RetriesBounded, Row
  <1>10. AttemptsAccounted' /\ lost' \in [Job -> Nat]
    BY <1>1, <1>2, <1>3, <1>5, <1>6 DEF QueueInv, RowsInv, AttemptsAccounted, Accounted
  <1>11. ReceiptsMatch'
    <2> SUFFICES ASSUME NEW k \in Job, job'[k].state = "completed"
                 PROVE  job'[k].receipt = job'[k].digest /\ receipt'[job'[k].receipt] = job'[k].digest
      BY DEF ReceiptsMatch
    <2>1. CASE k = j
      BY <1>5, <1>6, <1>7, <2>1
    <2>2. CASE k # j
      <3>1. job'[k] = job[k] /\ job[k].state = "completed"
        BY <1>6, <2>2
      <3>2. job[k].receipt = job[k].digest /\ receipt[job[k].receipt] = job[k].digest
        BY <3>1 DEF QueueInv, RowsInv, ReceiptsMatch
      <3>3. job[k].receipt \in Receipt
        BY <3>1, RowHere DEF QueueInv, Row, JobRow, RowConsistent
      <3> QED BY <1>7, <3>1, <3>2, <3>3
    <2> QED BY <2>1, <2>2
  <1>12. result' \in [Job -> Revision \cup {None}] /\ result'[j] # None
         /\ \A k \in Job \ {j} : result'[k] = result[k]
    BY <1>1, <1>2, QueueAssumption DEF QueueInv, ExecsFit
  <1>13. ResultsBound'
    BY <1>5, <1>6, <1>12 DEF QueueInv, RowsInv, ResultsBound
  <1>14. ExecsFit' /\ \A x \in Exec : exec'[x].pc = "admitted" => exec[x].pc = "admitted"
    <2>1. exec' = [exec EXCEPT ![e] = Idle] /\ exec = [x \in Exec |-> exec[x]]
      BY <1>1 DEF Ends, QueueInv, ExecsFit
    <2>2. exec' = [x \in Exec |-> exec'[x]] /\ \A x \in Exec : ExecFits(exec'[x])
      BY <2>1, IdleFits DEF QueueInv, ExecsFit
    <2>3. author' \in [Job -> Exec \cup {None}] /\ holder' \in [Job -> Exec \cup {None}]
      BY <1>1 DEF QueueInv, ExecsFit
    <2>4. \A x \in Exec : exec'[x].pc = "admitted" => exec[x].pc = "admitted"
      BY <2>1, IdleFits
    <2> QED BY <1>12, <2>2, <2>3, <2>4 DEF ExecsFit
  <1>15. WorldFits' /\ ClaimsFit'
    BY <1>1, <1>14, WorldRests DEF QueueInv, ClaimsFit, worldVars
  <1> QED BY <1>9, <1>10, <1>11, <1>13, <1>14, <1>15 DEF QueueInv, RowsInv

\* The passing of time.
LEMMA LeaseTickKeeps == ASSUME QueueInv, LeaseTick PROVE QueueInv'
  <1>1. Tick /\ UNCHANGED <<worldVars, workVars>>
    BY DEF LeaseTick
  <1>2. ASSUME NEW k \in Job PROVE Successor(k, job'[k], lost'[k])
    <2>1. \/ job'[k] = job[k]
          \/ /\ job[k].state = "processing" /\ job[k].lease >= 0
             /\ job'[k] = [job[k] EXCEPT !.lease = @ - 1]
      BY <1>1 DEF Tick
    <2>2. lost' = lost
      BY <1>1 DEF workVars
    <2> QED BY <2>1, <2>2, RowHere, LeasedRowSucceeds DEF QueueInv
  <1>3. job' = [k \in Job |-> job'[k]] /\ lost' = [k \in Job |-> lost'[k]]
    BY <1>1 DEF Tick, QueueInv, RowsInv, workVars
  <1>4. asset' \in [Asset -> {"active", "missing"}] /\ UNCHANGED <<receipt, requeued, result>>
    BY <1>1 DEF Tick, QueueInv, RowsInv, LedgerInv, LedgerTypeOK, workVars
  <1>5. RowsInv'
    BY <1>2, <1>3, <1>4, RowsMove DEF QueueInv
  <1> QED BY <1>1, <1>5, WorldRests DEF QueueInv, ExecsFit, ClaimsFit, worldVars, workVars

-----------------------------------------------------------------------------
(* The specification *)

\* Every step of the queue keeps its invariant.
LEMMA QueueStepKeeps == QueueInv /\ [QueueNext]_queueVars => QueueInv'
  <1> SUFFICES ASSUME QueueInv, [QueueNext]_queueVars PROVE QueueInv'
    OBVIOUS
  <1>1. CASE \E a \in Asset, presence \in Presence, edits \in BOOLEAN :
                LibraryMoves(a, presence, edits)
    BY <1>1, LibraryMovesKeeps
  <1>2. CASE \E kind \in {"full", "presence"} : FetchPage(kind)
    BY <1>2, FetchPageKeeps
  <1>3. CASE \E withJob \in BOOLEAN : RecordPage(withJob)
    BY <1>3, RecordPageKeeps
  <1>4. CASE RecordPresencePage \/ CompleteRun
    BY <1>4, RecordPresencePageKeeps, CompleteRunKeeps
  <1>5. CASE ReconcileBindings \/ ReconcileAssets
    BY <1>5, ReconcileKeeps
  <1>6. CASE EnsureCurrentJobs
    BY <1>6, EnsureCurrentJobsKeeps
  <1>7. CASE PauseQueue \/ ResumeQueue
    BY <1>7, OperatorKeeps
  <1>8. ASSUME NEW e \in Exec, WorkerStep(e) \/ Stop(e) PROVE QueueInv'
    BY <1>8, ReadControlKeeps, ClaimJobKeeps, FindNoJobKeeps, ReadingKeeps, ReadBytesKeeps,
       VerifyInventoryKeeps, ReportFailureKeeps, CommitKeeps, StopKeeps DEF WorkerStep
  <1>9. CASE LeaseTick
    BY <1>9, LeaseTickKeeps
  <1>10. CASE UNCHANGED queueVars
    BY <1>10, RowsRest, WorldRests DEF queueVars, worldVars, workVars, QueueInv, ExecsFit, ClaimsFit
  <1> QED
    BY <1>1, <1>2, <1>3, <1>4, <1>5, <1>6, <1>7, <1>8, <1>9, <1>10 DEF QueueNext

\* The queue's invariant, and everything below from it.
THEOREM QueueInvariant == QueueSpec => []QueueInv
  <1> QED BY QueueInitially, QueueStepKeeps, PTL DEF QueueSpec

\* Every row, projection, run, execution and count stays of its type.
THEOREM QueueTyped == QueueSpec => []QueueTypeOK
  <1>1. QueueInv => QueueTypeOK
    <2> SUFFICES ASSUME QueueInv PROVE QueueTypeOK
      OBVIOUS
    <2>1. exec \in [Exec -> ExecState]
          /\ \A e \in Exec : exec[e].pc \in {"idle", "admitted"} <=> Mine(e) = None
      BY DEF QueueInv, ExecsFit, ExecFits, Mine
    <2>2. claims \in [Exec -> Nat]
      BY DEF QueueInv, ClaimsFit
    <2>3. LedgerTypeOK /\ lost \in [Job -> Nat]
      BY DEF QueueInv, RowsInv, LedgerInv
    <2> QED BY <2>1, <2>2, <2>3
         DEF QueueTypeOK, QueueInv, WorldFits, ExecsFit, LibraryRow, ProjectionRow
  <1> QED BY <1>1, QueueInvariant, PTL

\* commitFaceDetectionJobResult: a completed job has its result, and a result its completed job.
THEOREM QueueResultsBound == QueueSpec => []ResultsBound
  <1>1. QueueInv => ResultsBound
    BY DEF QueueInv, RowsInv
  <1> QED BY <1>1, QueueInvariant, PTL

\* An attempt is counted exactly when it is lost, in progress or successful; what inventory takes
\* away in the middle is not.
THEOREM QueueAttemptsAccounted == QueueSpec => []AttemptsAccounted
  <1>1. QueueInv => AttemptsAccounted
    BY DEF QueueInv, RowsInv
  <1> QED BY <1>1, QueueInvariant, PTL

\* However many executions race with the operator's pause, each makes at most one more claim.
THEOREM QueuePauseBounded == QueueSpec => []PauseBounded
  <1>1. QueueInv => PauseBounded
    BY DEF QueueInv, ClaimsFit, PauseBounded
  <1> QED BY <1>1, QueueInvariant, PTL

-----------------------------------------------------------------------------
(* Exclusive work: what a step does to each job *)

Waiting == {"absent", "pending", "paused"}

RowRests(k) ==
    /\ \/ job'[k] = job[k]
       \/ job[k].state \in Waiting /\ job'[k].state \in Waiting
       \/ /\ job[k].state = "processing" /\ job'[k].state = "processing"
          /\ job'[k].owner = job[k].owner
    /\ holder'[k] = holder[k] /\ author'[k] = author[k]

RowTaken(k) ==
    /\ job[k].state \in Waiting \cup {"processing"}
    /\ job'[k].state = "processing"
    /\ author'[k] = author[k]
    /\ holder'[k] \in Exec /\ job'[k].owner = Name(holder'[k])
    /\ exec'[holder'[k]].pc = "claimed"

RowLost(k) ==
    /\ job[k].state = "processing" /\ job'[k].state \in {"pending", "paused", "failed"}
    /\ holder'[k] = holder[k] /\ author'[k] = author[k]

RowFinished(k) ==
    /\ job'[k].state = "completed" /\ holder'[k] = holder[k]
    /\ \E e \in Exec : LeaseNamed(job[k], Name(e))
                       /\ author'[k] = IF author[k] = None THEN e ELSE author[k]

RowFollows(k) == RowRests(k) \/ RowTaken(k) \/ RowLost(k) \/ RowFinished(k)

\* The states the row operators lead to.
LEMMA RowStates ==
    ASSUME RowsInv, NEW k \in Job
    PROVE  /\ job[k].state = "processing" =>
                 \A e : AttemptLost(job[k], e).state \in {"pending", "failed"}
           /\ \A e : Suspended(job[k], e).state = "paused"
           /\ OperatorPaused(job[k]).state = "paused" /\ Resumed(job[k]).state = "pending"
           /\ \A w : Leased(job[k], w).state = "processing" /\ Leased(job[k], w).owner = w
           /\ \A stage : /\ [job[k] EXCEPT !.stage = stage].state = job[k].state
                         /\ [job[k] EXCEPT !.stage = stage].owner = job[k].owner
           /\ [job[k] EXCEPT !.lease = @ - 1].state = job[k].state
           /\ [job[k] EXCEPT !.lease = @ - 1].owner = job[k].owner
           /\ \A p, d : Completed([job[k] EXCEPT !.stage = ObservationsRecorded], p, d).state
                            = "completed"
  <1> DEFINE r == job[k]
  <1>1. r \in JobRow
    BY RowHere DEF Row
  <1> HIDE DEF r
  <1>2. \A e : AttemptLost(r, e).state \in {"pending", "failed"}
    BY <1>1 DEF JobRow, AttemptLost, Unleased
  <1>3. \A e : Suspended(r, e).state = "paused"
    BY <1>1 DEF JobRow, Suspended, Unleased
  <1>4. OperatorPaused(r).state = "paused" /\ Resumed(r).state = "pending"
    BY <1>1 DEF JobRow, OperatorPaused, Resumed
  <1>5. \A w : Leased(r, w).state = "processing" /\ Leased(r, w).owner = w
    BY <1>1 DEF JobRow, Leased
  <1>6. \A stage : /\ [r EXCEPT !.stage = stage].state = r.state
                   /\ [r EXCEPT !.stage = stage].owner = r.owner
    BY <1>1 DEF JobRow
  <1>7. [r EXCEPT !.lease = @ - 1].state = r.state /\ [r EXCEPT !.lease = @ - 1].owner = r.owner
    BY <1>1 DEF JobRow
  <1>8. \A p, d : Completed([r EXCEPT !.stage = ObservationsRecorded], p, d).state = "completed"
    BY <1>1 DEF JobRow, Completed, Unleased
  <1> QED BY <1>2, <1>3, <1>4, <1>5, <1>6, <1>7, <1>8 DEF r

\* An enqueue moves only rows that wait.
LEMMA EnqueuedStates ==
    ASSUME RowsInv, NEW k \in Job, NEW limit \in AttemptLimits
    PROVE  \/ EnqueuedRow(k, limit) = job[k]
           \/ job[k].state \in Waiting /\ EnqueuedRow(k, limit).state = "pending"
  <1>1. CASE job[k].state = "absent"
    <2>1. EnqueuedRow(k, limit) = NewRow(limit)
      BY <1>1, NothingMismatched DEF EnqueuedRow
    <2>2. NewRow(limit).state = "pending"
      BY DEF NewRow, NoRow
    <2> QED BY <1>1, <2>1, <2>2 DEF Waiting
  <1>2. CASE job[k].state = "paused"
    <2>1. EnqueuedRow(k, limit) = [Resumed(job[k]) EXCEPT !.limit = limit]
      BY <1>2, NothingMismatched DEF EnqueuedRow
    <2>2. [Resumed(job[k]) EXCEPT !.limit = limit].state = "pending"
      <3> DEFINE r == job[k]
      <3>1. r \in JobRow
        BY RowHere DEF Row
      <3> HIDE DEF r
      <3>2. [Resumed(r) EXCEPT !.limit = limit].state = "pending"
        BY <3>1 DEF JobRow, Resumed
      <3> QED BY <3>2 DEF r
    <2> QED BY <1>2, <2>1, <2>2 DEF Waiting
  <1>3. CASE job[k].state \notin {"absent", "paused"}
    BY <1>3, NothingMismatched DEF EnqueuedRow
  <1> QED BY <1>1, <1>2, <1>3

\* The sweep ends leases, and changes nothing else.
LEMMA SweptStates ==
    ASSUME RowsInv, NEW k \in Job
    PROVE  /\ Swept[k] = job[k] \/ (job[k].state = "processing" /\ Swept[k].state \in {"pending", "failed"})
           /\ Swept[k].state = "pending" => job[k].state \in Waiting \cup {"processing"}
           /\ \A w : Leased(Swept[k], w).state = "processing" /\ Leased(Swept[k], w).owner = w
  <1>1. Swept[k] = job[k] \/ (job[k].state = "processing" /\ Swept[k].state \in {"pending", "failed"})
    <2>1. CASE LeaseLapsed(job[k])
      <3>1. Swept[k] = AttemptLost(job[k], "WORKER_LEASE_EXPIRED") /\ job[k].state = "processing"
        BY <2>1 DEF Swept, LeaseLapsed
      <3>2. AttemptLost(job[k], "WORKER_LEASE_EXPIRED").state \in {"pending", "failed"}
        BY <3>1, RowStates
      <3> QED BY <3>1, <3>2
    <2>2. CASE ~LeaseLapsed(job[k])
      BY <2>2 DEF Swept
    <2> QED BY <2>1, <2>2
  <1>2. \A w : Leased(Swept[k], w).state = "processing" /\ Leased(Swept[k], w).owner = w
    <2> DEFINE r == Swept[k]
    <2>1. r \in JobRow
      BY SweptSucceeds DEF Successor, Row
    <2> HIDE DEF r
    <2>2. \A w : Leased(r, w).state = "processing" /\ Leased(r, w).owner = w
      BY <2>1 DEF JobRow, Leased
    <2> QED BY <2>2 DEF r
  <1> QED BY <1>1, <1>2 DEF Waiting

\* Inventory takes jobs away or hands them out; it neither leases nor finishes.
LEMMA InventoryFollows ==
    ASSUME QueueInv, NEW k \in Job,
           \/ \E withJob \in BOOLEAN : RecordPage(withJob)
           \/ CompleteRun \/ EnsureCurrentJobs
    PROVE  RowFollows(k)
  <1>1. RowsInv /\ holder'[k] = holder[k] /\ author'[k] = author[k]
    BY DEF QueueInv, RecordPage, CompleteRun, EnsureCurrentJobs, workVars
  <1>2. \/ job'[k] = job[k]
        \/ job'[k] = EnqueuedRow(k, MaxAttempts)
        \/ job[k].state \in InFlight /\ \E e : job'[k] = Suspended(job[k], e)
    BY DEF RecordPage, PagedRow, CompleteRun, SuspendJobs, EnsureCurrentJobs
  <1>3. CASE job'[k] = EnqueuedRow(k, MaxAttempts)
    BY <1>1, <1>3, EnqueuedStates, QueueAssumption DEF RowFollows, RowRests, Waiting
  <1>4. CASE job[k].state \in InFlight /\ \E e : job'[k] = Suspended(job[k], e)
    <2>1. PICK e : job'[k] = Suspended(job[k], e)
      BY <1>4
    <2>2. Suspended(job[k], e).state = "paused"
      BY <1>1, RowStates
    <2> QED BY <1>1, <1>4, <2>1, <2>2 DEF RowFollows, RowRests, RowLost, InFlight, Waiting
  <1> QED BY <1>1, <1>2, <1>3, <1>4 DEF RowFollows, RowRests

\* The operator only moves rows that wait.
LEMMA OperatorFollows ==
    ASSUME QueueInv, NEW k \in Job, PauseQueue \/ ResumeQueue PROVE RowFollows(k)
  <1>1. RowsInv /\ holder'[k] = holder[k] /\ author'[k] = author[k]
    BY DEF QueueInv, PauseQueue, ResumeQueue
  <1>2. \/ job'[k] = job[k]
        \/ job[k].state = "pending" /\ job'[k] = OperatorPaused(job[k])
        \/ job[k].state = "paused" /\ job'[k] = Resumed(job[k])
    BY DEF PauseQueue, ResumeQueue, OperatorPauseJobs, OperatorResumeJobs
  <1> QED BY <1>1, <1>2, RowStates DEF RowFollows, RowRests, Waiting

\* A claim takes one row, and loses the lapsed ones.
LEMMA ClaimFollows ==
    ASSUME QueueInv, NEW k \in Job, NEW e \in Exec, ClaimJob(e) \/ FindNoJob(e) PROVE RowFollows(k)
  <1>0. RowsInv
    BY DEF QueueInv
  <1>1. CASE ClaimJob(e)
    <2>1. PICK j \in Job : /\ ClaimProviderJob(Name(e), j)
                           /\ holder' = [holder EXCEPT ![j] = e]
      BY <1>1 DEF ClaimJob
    <2>2. author'[k] = author[k]
      BY <1>1 DEF ClaimJob
    <2>3. /\ Swept[j].state = "pending"
          /\ job' = [i \in Job |-> IF i = j THEN Leased(Swept[j], Name(e)) ELSE Swept[i]]
          /\ holder' = [i \in Job |-> IF i = j THEN e ELSE holder[i]]
      BY <2>1 DEF ClaimProviderJob, Claimable, Swept, QueueInv, ExecsFit
    <2>4. CASE k = j
      <3>1. exec'[e].pc = "claimed"
        <4> DEFINE old == exec[e]
        <4>1. old \in ExecState /\ exec = [x \in Exec |-> exec[x]]
          BY DEF QueueInv, ExecsFit, ExecFits
        <4>2. \E i \in Job : exec' = [exec EXCEPT ![e] = [old EXCEPT !.pc = "claimed", !.job = i]]
          BY <1>1, <4>1 DEF ClaimJob
        <4> HIDE DEF old
        <4>3. \A i : [old EXCEPT !.pc = "claimed", !.job = i].pc = "claimed"
          BY <4>1 DEF ExecState
        <4> QED BY <4>1, <4>2, <4>3
      <3> QED BY <1>0, <2>2, <2>3, <2>4, <3>1, SweptStates DEF RowFollows, RowTaken
    <2>5. CASE k # j
      BY <1>0, <2>2, <2>3, <2>5, SweptStates DEF RowFollows, RowRests, RowLost
    <2> QED BY <2>4, <2>5
  <1>2. CASE FindNoJob(e)
    <2>1. job'[k] = Swept[k] /\ holder'[k] = holder[k] /\ author'[k] = author[k]
      BY <1>2 DEF FindNoJob, ClaimNothing
    <2> QED BY <1>0, <2>1, SweptStates DEF RowFollows, RowRests, RowLost
  <1> QED BY <1>1, <1>2

\* Only a commit finishes a job, and only under the name the lease bears.
LEMMA ReportFollows ==
    ASSUME QueueInv, NEW k \in Job, NEW e \in Exec,
           VerifyInventory(e) \/ ReportFailure(e) \/ \E d \in Digest : Commit(e, d)
    PROVE  RowFollows(k)
  <1>0. RowsInv /\ job = [i \in Job |-> job[i]] /\ author = [i \in Job |-> author[i]]
    BY DEF QueueInv, RowsInv, LedgerInv, LedgerTypeOK, ExecsFit
  <1>1. CASE VerifyInventory(e)
    <2>1. holder'[k] = holder[k] /\ author'[k] = author[k]
      BY <1>1 DEF VerifyInventory
    <2>2. \/ job'[k] = job[k]
          \/ /\ job[k].state = "processing"
             /\ job'[k] = [job[k] EXCEPT !.stage = InventoryVerified]
      <3>1. CASE UNCHANGED ledgerVars
        BY <3>1 DEF ledgerVars
      <3>2. CASE Checkpoint(Name(e), Mine(e), InventoryVerified)
        BY <1>0, <3>2 DEF Checkpoint, LeaseCurrent, LeaseNamed
      <3> QED BY <1>1, <3>1, <3>2 DEF VerifyInventory
    <2>3. /\ [job[k] EXCEPT !.stage = InventoryVerified].state = job[k].state
          /\ [job[k] EXCEPT !.stage = InventoryVerified].owner = job[k].owner
      BY <1>0, RowStates
    <2>4. job'[k] = job[k] \/ (/\ job[k].state = "processing" /\ job'[k].state = "processing"
                               /\ job'[k].owner = job[k].owner)
      BY <2>2, <2>3
    <2> QED BY <2>1, <2>4 DEF RowFollows, RowRests
  <1>2. CASE ReportFailure(e)
    <2>1. holder'[k] = holder[k] /\ author'[k] = author[k]
      BY <1>2 DEF ReportFailure
    <2>2. \/ job'[k] = job[k]
          \/ job[k].state = "processing" /\ \E x : job'[k] = AttemptLost(job[k], x)
      <3>1. CASE UNCHANGED ledgerVars
        BY <3>1 DEF ledgerVars
      <3>2. CASE Fail(Name(e), Mine(e), exec[e].cause)
        BY <1>0, <3>2 DEF Fail, LeaseNamed
      <3> QED BY <1>2, <3>1, <3>2 DEF ReportFailure
    <2>3. job[k].state = "processing" => \A x : AttemptLost(job[k], x).state \in {"pending", "failed"}
      BY <1>0, RowStates
    <2>4. job'[k] = job[k] \/ (job[k].state = "processing" /\ job'[k].state \in {"pending", "failed"})
      BY <2>2, <2>3
    <2> QED BY <2>1, <2>4 DEF RowFollows, RowRests, RowLost
  <1>3. CASE \E d \in Digest : Commit(e, d)
    <2> DEFINE j == Mine(e)
    <2>1. PICK d \in Digest :
             /\ LeaseNamed(job[j], Name(e))
             /\ job' = [job EXCEPT ![j] = Completed([job[j] EXCEPT !.stage = ObservationsRecorded], d, d)]
             /\ author' = [author EXCEPT ![j] = IF author[j] = None THEN e ELSE author[j]]
             /\ holder' = holder
      BY <1>3 DEF Commit, Committed, LeaseCurrent
    <2>2. CASE k = j
      <3>1. /\ job'[k] = Completed([job[k] EXCEPT !.stage = ObservationsRecorded], d, d)
            /\ author'[k] = IF author[k] = None THEN e ELSE author[k]
        BY <1>0, <2>1, <2>2
      <3> QED BY <1>0, <2>1, <2>2, <3>1, RowStates DEF RowFollows, RowFinished
    <2>3. CASE k # j
      <3>1. job'[k] = job[k] /\ author'[k] = author[k]
        BY <1>0, <2>1, <2>3
      <3> QED BY <2>1, <3>1 DEF RowFollows, RowRests
    <2> QED BY <2>2, <2>3
  <1> QED BY <1>1, <1>2, <1>3

\* Every step does one of the four to each job.
LEMMA EveryRowFollows ==
    ASSUME QueueInv, [QueueNext]_queueVars, NEW k \in Job PROVE RowFollows(k)
  <1>1. CASE /\ job' = job /\ holder' = holder /\ author' = author
    BY <1>1 DEF RowFollows, RowRests
  <1>2. CASE \/ \E a \in Asset, presence \in Presence, edits \in BOOLEAN :
                    LibraryMoves(a, presence, edits)
             \/ \E kind \in {"full", "presence"} : FetchPage(kind)
             \/ RecordPresencePage \/ ReconcileBindings \/ ReconcileAssets
             \/ UNCHANGED queueVars
    BY <1>1, <1>2 DEF LibraryMoves, FetchPage, RecordPresencePage, ReconcileBindings,
       ReconcileAssets, queueVars, ledgerVars, workVars
  <1>3. CASE \/ \E withJob \in BOOLEAN : RecordPage(withJob)
             \/ CompleteRun \/ EnsureCurrentJobs
    BY <1>3, InventoryFollows
  <1>4. CASE PauseQueue \/ ResumeQueue
    BY <1>4, OperatorFollows
  <1>5. ASSUME NEW e \in Exec, WorkerStep(e) \/ Stop(e) PROVE RowFollows(k)
    <2>1. CASE ClaimJob(e) \/ FindNoJob(e)
      BY <2>1, ClaimFollows
    <2>2. CASE VerifyInventory(e) \/ ReportFailure(e) \/ \E d \in Digest : Commit(e, d)
      BY <2>2, ReportFollows
    <2>3. CASE \/ ReadControl(e) \/ LocateProjection(e) \/ ReadMetadata(e) \/ ReadBytes(e)
               \/ DetectorFails(e) \/ CommitRefused(e) \/ Stop(e)
      BY <1>1, <2>3 DEF ReadControl, LocateProjection, ReadMetadata, ReadBytes, DetectorFails,
         CommitRefused, Stop, ledgerVars
    <2> QED BY <1>5, <2>1, <2>2, <2>3 DEF WorkerStep
  <1>6. CASE LeaseTick
    <2>1. \/ job'[k] = job[k]
          \/ job[k].state = "processing" /\ job'[k] = [job[k] EXCEPT !.lease = @ - 1]
      BY <1>6 DEF LeaseTick, Tick
    <2>2. RowsInv /\ holder' = holder /\ author' = author
      BY <1>6 DEF LeaseTick, workVars, QueueInv
    <2> QED BY <2>1, <2>2, RowStates DEF RowFollows, RowRests
  <1> QED BY <1>2, <1>3, <1>4, <1>5, <1>6 DEF QueueNext

-----------------------------------------------------------------------------
(* Exclusive work: the refinement, where every execution leases under a name of its own *)

\* As the backlog command names its workers.
OwnNames == \A e, f \in Exec : WorkerName[e] = WorkerName[f] => e = f

\* A lease bears the name of the execution that made the claim; only a completed job has an author.
HoldersFit ==
    \A k \in Job : /\ job[k].state = "processing" =>
                         holder[k] \in Exec /\ job[k].owner = Name(holder[k])
                   /\ job[k].state # "completed" => author[k] = None

HeldInv == QueueInv /\ HoldersFit

\* No lease, no author.
LEMMA HeldInitially == QueueInit => HeldInv
  <1> SUFFICES ASSUME QueueInit PROVE HeldInv
    OBVIOUS
  <1>1. \A k \in Job : job[k].state = "absent" /\ author[k] = None
    BY DEF QueueInit, LedgerInit, NoRow
  <1> QED BY <1>1, QueueInitially DEF HeldInv, HoldersFit

\* Every step keeps the names of the leases.
LEMMA HeldStepKeeps == HeldInv /\ [QueueNext]_queueVars => HeldInv'
  <1> SUFFICES ASSUME HeldInv, [QueueNext]_queueVars PROVE HeldInv'
    OBVIOUS
  <1>1. QueueInv'
    BY QueueStepKeeps DEF HeldInv
  <1>2. ASSUME NEW k \in Job
        PROVE  /\ job'[k].state = "processing" =>
                     holder'[k] \in Exec /\ job'[k].owner = Name(holder'[k])
               /\ job'[k].state # "completed" => author'[k] = None
    <2>1. RowFollows(k)
      BY EveryRowFollows DEF HeldInv
    <2>2. CASE RowRests(k)
      BY <2>2 DEF RowRests, HeldInv, HoldersFit, Waiting
    <2>3. CASE RowTaken(k)
      BY <2>3 DEF RowTaken, HeldInv, HoldersFit, Waiting
    <2>4. CASE RowLost(k)
      BY <2>4 DEF RowLost, HeldInv, HoldersFit
    <2>5. CASE RowFinished(k)
      BY <2>5 DEF RowFinished
    <2> QED BY <2>1, <2>2, <2>3, <2>4, <2>5 DEF RowFollows
  <1> QED BY <1>1, <1>2 DEF HeldInv, HoldersFit, Name

\* What the abstract work sees of a job.
PhaseOf(k) == CASE job[k].state = "completed" -> "done"
                [] job[k].state = "failed" -> "dead"
                [] OTHER -> "open"
HolderOf(k) == IF job[k].state = "processing" THEN holder[k] ELSE None

\* Every step moves every job as exclusive work moves.
LEMMA JobRefines ==
    ASSUME OwnNames, HeldInv, [QueueNext]_queueVars, NEW k \in Job
    PROVE  \/ PhaseOf(k)' = PhaseOf(k) /\ HolderOf(k)' = HolderOf(k) /\ author'[k] = author[k]
           \/ /\ PhaseOf(k) = "open" /\ PhaseOf(k)' = "open"
              /\ HolderOf(k)' \in Exec /\ author'[k] = None
           \/ /\ PhaseOf(k) = "open" /\ PhaseOf(k)' \in {"open", "dead"}
              /\ HolderOf(k) # None /\ HolderOf(k)' = None /\ author'[k] = None
           \/ /\ PhaseOf(k) = "open" /\ PhaseOf(k)' = "done"
              /\ HolderOf(k) # None /\ HolderOf(k)' = None /\ author'[k] = HolderOf(k)
  <1>1. RowFollows(k)
    BY EveryRowFollows DEF HeldInv
  <1>2. /\ job[k].state = "processing" => /\ holder[k] \in Exec /\ holder[k] # None
                                          /\ job[k].owner = Name(holder[k])
        /\ job[k].state # "completed" => author[k] = None
    BY QueueAssumption DEF HeldInv, HoldersFit
  <1>3. CASE RowRests(k)
    <2>1. CASE job'[k] = job[k]
      BY <1>3, <2>1 DEF RowRests, PhaseOf, HolderOf
    <2>2. CASE job[k].state \in Waiting /\ job'[k].state \in Waiting
      <3>1. PhaseOf(k) = "open" /\ PhaseOf(k)' = "open" /\ HolderOf(k) = None /\ HolderOf(k)' = None
        BY <2>2 DEF PhaseOf, HolderOf, Waiting
      <3> QED BY <1>3, <3>1 DEF RowRests
    <2>3. CASE job[k].state = "processing" /\ job'[k].state = "processing"
      <3>1. /\ PhaseOf(k) = "open" /\ PhaseOf(k)' = "open"
            /\ HolderOf(k) = holder[k] /\ HolderOf(k)' = holder'[k]
        BY <2>3 DEF PhaseOf, HolderOf
      <3> QED BY <1>3, <3>1 DEF RowRests
    <2> QED BY <1>3, <2>1, <2>2, <2>3 DEF RowRests
  <1>4. CASE RowTaken(k)
    <2>1. PhaseOf(k) = "open" /\ PhaseOf(k)' = "open" /\ HolderOf(k)' = holder'[k]
      BY <1>4 DEF RowTaken, PhaseOf, HolderOf, Waiting
    <2>2. author'[k] = None /\ holder'[k] \in Exec
      BY <1>2, <1>4 DEF RowTaken, Waiting
    <2> QED BY <2>1, <2>2
  <1>5. CASE RowLost(k)
    <2>1. /\ PhaseOf(k) = "open" /\ PhaseOf(k)' \in {"open", "dead"}
          /\ HolderOf(k) = holder[k] /\ HolderOf(k)' = None
      BY <1>5 DEF RowLost, PhaseOf, HolderOf
    <2>2. author'[k] = None /\ holder[k] # None
      BY <1>2, <1>5 DEF RowLost
    <2> QED BY <2>1, <2>2
  <1>6. CASE RowFinished(k)
    <2>1. PICK e \in Exec : /\ job[k].state = "processing" /\ job[k].owner = Name(e)
                            /\ author'[k] = IF author[k] = None THEN e ELSE author[k]
      BY <1>6 DEF RowFinished, LeaseNamed
    <2>2. holder[k] = e
      BY <1>2, <2>1 DEF OwnNames, Name
    <2>3. author'[k] = holder[k]
      BY <1>2, <2>1, <2>2
    <2>4. /\ PhaseOf(k) = "open" /\ PhaseOf(k)' = "done"
          /\ HolderOf(k) = holder[k] /\ HolderOf(k)' = None
      BY <1>6, <2>1 DEF RowFinished, PhaseOf, HolderOf
    <2> QED BY <1>2, <2>1, <2>3, <2>4
  <1> QED BY <1>1, <1>3, <1>4, <1>5, <1>6 DEF RowFollows

\* The queue implements exclusive work: one holder at a time, finished once and by its holder,
\* given up for good.
THEOREM QueueImplementsExclusiveWork == ASSUME OwnNames PROVE QueueSpec => WorkExclusive
  <1>1. QueueInit => Work!Init
    <2> SUFFICES ASSUME QueueInit PROVE Work!Init
      OBVIOUS
    <2>1. \A k \in Job : job[k].state = "absent"
      BY DEF QueueInit, LedgerInit, NoRow
    <2>2. author = [k \in Job |-> None]
      BY DEF QueueInit
    <2> QED BY <2>1, <2>2 DEF Work!Init
  <1>2. HeldInv /\ [QueueNext]_queueVars => [Work!Next]_(Work!workVars)
    <2> SUFFICES ASSUME HeldInv, [QueueNext]_queueVars PROVE Work!Next
      OBVIOUS
    <2> SUFFICES ASSUME NEW k \in Job
                 PROVE  Work!Same(k) \/ Work!Take(k) \/ Work!Lose(k) \/ Work!Finish(k)
      BY DEF Work!Next
    <2> QED BY JobRefines DEF Work!Same, Work!Take, Work!Lose, Work!Finish, PhaseOf, HolderOf
  <1>3. QueueSpec => []HeldInv
    BY HeldInitially, HeldStepKeeps, PTL DEF QueueSpec
  <1> QED BY <1>1, <1>2, <1>3, PTL DEF QueueSpec, WorkExclusive, Work!Spec

-----------------------------------------------------------------------------
(* No obsolete result *)

Reading == {"located", "described", "read", "verified"}

\* An execution past its check of the projection holds its lease only while the projection agrees.
RevisionsFit ==
    \A e \in Exec :
        exec[e].pc \in Reading /\ LeaseNamed(job[Mine(e)], Name(e)) =>
            projection[AssetOf[Mine(e)]].rev = RevisionOf[Mine(e)]

RevisedInv == HeldInv /\ RevisionsFit

\* Only the check lets an execution read.
LEMMA ReadersStay ==
    ASSUME QueueInv, [QueueNext]_queueVars, NEW x \in Exec, exec'[x].pc \in Reading,
           ~LocateProjection(x)
    PROVE  exec[x].pc \in Reading /\ exec'[x].job = exec[x].job
  <1>1. CASE exec' = exec
    BY <1>1
  <1>2. CASE \E e \in Exec : WorkerStep(e) \/ Stop(e)
    <2>1. PICK e \in Exec : WorkerStep(e) \/ Stop(e)
      BY <1>2
    <2> DEFINE old == exec[e]
    <2>2. exec = [y \in Exec |-> exec[y]] /\ old \in ExecState
      BY DEF QueueInv, ExecsFit, ExecFits
    <2>3. CASE x # e
      <3>1. exec'[x] = exec[x]
        BY <2>1, <2>2, <2>3 DEF WorkerStep, Stop, ReadControl, ClaimJob, FindNoJob, LocateProjection,
           ReadMetadata, ReadBytes, VerifyInventory, DetectorFails, CommitRefused, ReportFailure,
           Commit, Committed, Goes, Fails, Ends
      <3> QED BY <3>1
    <2>4. CASE x = e
      <3>1. ~LocateProjection(e)
        BY <2>4
      <3>2. \/ exec'[e] = [old EXCEPT !.pc = "admitted"]
            \/ \E j \in Job : exec'[e] = [old EXCEPT !.pc = "claimed", !.job = j]
            \/ exec'[e] = Idle
            \/ \E code : exec'[e] = [old EXCEPT !.pc = "failing", !.cause = code]
            \/ old.pc = "located" /\ exec'[e] = [old EXCEPT !.pc = "described"]
            \/ old.pc = "described" /\ \E b : exec'[e] = [old EXCEPT !.pc = "read", !.bytes = b]
            \/ old.pc = "read" /\ exec'[e] = [old EXCEPT !.pc = "verified"]
        BY <2>1, <2>2, <3>1 DEF WorkerStep, Stop, ReadControl, ClaimJob, FindNoJob,
           ReadMetadata, ReadBytes, VerifyInventory, DetectorFails, CommitRefused, ReportFailure,
           Commit, Committed, Goes, Fails, Ends
      <3>3. exec'[e].pc \in Reading
        BY <2>4
      <3> HIDE DEF old
      <3>4. /\ [old EXCEPT !.pc = "admitted"].pc = "admitted"
            /\ \A j : [old EXCEPT !.pc = "claimed", !.job = j].pc = "claimed"
            /\ \A code : [old EXCEPT !.pc = "failing", !.cause = code].pc = "failing"
            /\ [old EXCEPT !.pc = "described"].job = old.job
            /\ [old EXCEPT !.pc = "verified"].job = old.job
            /\ \A b : [old EXCEPT !.pc = "read", !.bytes = b].job = old.job
        BY <2>2 DEF ExecState
      <3>5. \/ old.pc = "located" /\ exec'[e] = [old EXCEPT !.pc = "described"]
            \/ old.pc = "described" /\ \E b : exec'[e] = [old EXCEPT !.pc = "read", !.bytes = b]
            \/ old.pc = "read" /\ exec'[e] = [old EXCEPT !.pc = "verified"]
        <4>1. /\ exec'[e] # Idle /\ exec'[e] # [old EXCEPT !.pc = "admitted"]
              /\ \A j : exec'[e] # [old EXCEPT !.pc = "claimed", !.job = j]
              /\ \A code : exec'[e] # [old EXCEPT !.pc = "failing", !.cause = code]
          BY <3>3, <3>4, IdleFits DEF Reading
        <4> QED BY <3>2, <4>1
      <3>6. old.pc \in Reading /\ exec'[e].job = old.job
        <4>1. CASE old.pc = "described" /\ \E b : exec'[e] = [old EXCEPT !.pc = "read", !.bytes = b]
          <5>1. PICK b : exec'[e] = [old EXCEPT !.pc = "read", !.bytes = b]
            BY <4>1
          <5>2. [old EXCEPT !.pc = "read", !.bytes = b].job = old.job
            BY <3>4
          <5> QED BY <4>1, <5>1, <5>2 DEF Reading
        <4>2. CASE \/ old.pc = "located" /\ exec'[e] = [old EXCEPT !.pc = "described"]
                   \/ old.pc = "read" /\ exec'[e] = [old EXCEPT !.pc = "verified"]
          BY <3>4, <4>2 DEF Reading
        <4> QED BY <3>5, <4>1, <4>2
      <3> QED BY <2>4, <3>6 DEF old
    <2> QED BY <2>3, <2>4
  <1> QED BY <1>1, <1>2 DEF QueueNext, LibraryMoves, FetchPage, RecordPage, RecordPresencePage,
         CompleteRun, ReconcileBindings, ReconcileAssets, EnsureCurrentJobs, PauseQueue, ResumeQueue,
         LeaseTick, workVars, queueVars

\* A page that moves a projection takes the older jobs from their executions.
LEMMA RecordPageRevises ==
    ASSUME OwnNames, RevisedInv, NEW withJob \in BOOLEAN, RecordPage(withJob) PROVE RevisionsFit'
  <1> SUFFICES ASSUME NEW e \in Exec, exec'[e].pc \in Reading, LeaseNamed(job'[Mine(e)'], Name(e))
               PROVE  projection'[AssetOf[Mine(e)']].rev = RevisionOf[Mine(e)']
    BY DEF RevisionsFit, LeaseNamed, Name
  <1> DEFINE k == Mine(e)
             a == AssetOf[k]
  <1>1. /\ exec' = exec /\ job' = [j \in Job |-> PagedRow(j, withJob)]
        /\ projection' = [b \in Asset |-> IF b \in Listed
                                          THEN [rev |-> run.listing[b].rev, state |-> "active"]
                                          ELSE projection[b]]
    BY DEF RecordPage, workVars
  <1>2. Mine(e)' = k /\ exec[e].pc \in Reading
    BY <1>1 DEF Mine
  <1>3. k \in Job /\ a \in Asset /\ RevisionOf[k] # None
    BY <1>2, ClaimedHas, LedgerAssumption, QueueAssumption DEF RevisedInv, HeldInv, Reading
  <1>4. job'[k] = PagedRow(k, withJob) /\ job'[k].state = "processing" /\ job'[k].owner = Name(e)
    BY <1>1, <1>2, <1>3 DEF LeaseNamed
  <1>5. job[k].state = "processing" /\ job[k].owner = Name(e)
    <2>1. RowFollows(k)
      BY <1>3, InventoryFollows DEF RevisedInv, HeldInv
    <2>2. ~RowTaken(k) /\ ~RowLost(k) /\ ~RowFinished(k)
      <3>1. holder'[k] = holder[k]
        BY DEF RecordPage, workVars
      <3>2. CASE RowTaken(k)
        <4>1. exec[holder[k]].pc = "claimed" /\ holder[k] \in Exec /\ job'[k].owner = Name(holder[k])
          BY <1>1, <3>1, <3>2 DEF RowTaken
        <4>2. holder[k] = e
          BY <1>4, <4>1 DEF OwnNames, Name
        <4> QED BY <1>2, <4>1, <4>2 DEF Reading
      <3> QED BY <1>4, <3>2 DEF RowLost, RowFinished
    <2> QED BY <1>4, <2>1, <2>2 DEF RowFollows, RowRests, Waiting
  <1>6. projection[a].rev = RevisionOf[k]
    BY <1>2, <1>5 DEF RevisedInv, RevisionsFit, LeaseNamed
  <1>7. CASE a \notin Listed
    BY <1>1, <1>2, <1>3, <1>6, <1>7
  <1>8. CASE a \in Listed /\ RevisionOf[k] = run.listing[a].rev
    BY <1>1, <1>2, <1>3, <1>8
  <1>9. CASE a \in Listed /\ RevisionOf[k] # run.listing[a].rev
    <2>1. Superseded(a) /\ job[k].state \in InFlight
      BY <1>3, <1>5, <1>6, <1>9 DEF Superseded, InFlight
    <2>2. job'[k] = Suspended(job[k], "INPUT_REVISION_SUPERSEDED")
      BY <1>4, <1>9, <2>1 DEF PagedRow
    <2>3. Suspended(job[k], "INPUT_REVISION_SUPERSEDED").state = "paused"
      BY <1>3, RowStates DEF RevisedInv, HeldInv, QueueInv
    <2> QED BY <1>4, <2>2, <2>3
  <1> QED BY <1>7, <1>8, <1>9

\* Any other step leaves the projections' revisions, and gives leases only to executions that have
\* not looked yet.
LEMMA OthersRevise ==
    ASSUME OwnNames, RevisedInv, [QueueNext]_queueVars,
           \A a \in Asset : projection'[a].rev = projection[a].rev
    PROVE  RevisionsFit'
  <1> SUFFICES ASSUME NEW e \in Exec, exec'[e].pc \in Reading, LeaseNamed(job'[Mine(e)'], Name(e))
               PROVE  projection'[AssetOf[Mine(e)']].rev = RevisionOf[Mine(e)']
    BY DEF RevisionsFit, LeaseNamed, Name
  <1>1. CASE LocateProjection(e)
    <2> DEFINE old == exec[e]
    <2>1. /\ old \in ExecState /\ exec = [y \in Exec |-> exec[y]] /\ projection' = projection
          /\ old.pc = "claimed"
          /\ \/ /\ projection[AssetOf[old.job]] = [rev |-> RevisionOf[old.job], state |-> "active"]
                /\ exec' = [exec EXCEPT ![e] = [old EXCEPT !.pc = "located"]]
             \/ exec' = [exec EXCEPT ![e] = [old EXCEPT !.pc = "failing",
                                             !.cause = "IMMICH_ASSET_PROJECTION_UNAVAILABLE"]]
      BY <1>1 DEF LocateProjection, Goes, Fails, Mine, RevisedInv, HeldInv, QueueInv, ExecsFit, ExecFits,
         worldVars
    <2> HIDE DEF old
    <2>2. /\ [old EXCEPT !.pc = "located"].job = old.job
          /\ [old EXCEPT !.pc = "failing",
                         !.cause = "IMMICH_ASSET_PROJECTION_UNAVAILABLE"].pc = "failing"
      BY <2>1 DEF ExecState
    <2>3. exec' # [exec EXCEPT ![e] = [old EXCEPT !.pc = "failing",
                                       !.cause = "IMMICH_ASSET_PROJECTION_UNAVAILABLE"]]
      BY <2>1, <2>2 DEF Reading
    <2>4. exec'[e].job = old.job
      BY <2>1, <2>2, <2>3
    <2> QED BY <2>1, <2>3, <2>4 DEF Mine
  <1>2. CASE ~LocateProjection(e)
    <2>1. exec[e].pc \in Reading /\ Mine(e)' = Mine(e)
      BY <1>2, ReadersStay DEF RevisedInv, HeldInv, Mine
    <2>2. Mine(e) \in Job /\ AssetOf[Mine(e)] \in Asset
      BY <2>1, ClaimedHas, LedgerAssumption DEF RevisedInv, HeldInv, Reading
    <2>3. RowFollows(Mine(e))
      BY <2>2, EveryRowFollows DEF RevisedInv, HeldInv
    <2>4. job'[Mine(e)].state = "processing" /\ job'[Mine(e)].owner = Name(e)
      BY <2>1 DEF LeaseNamed
    <2>5. ~RowTaken(Mine(e))
      <3> SUFFICES ASSUME RowTaken(Mine(e)) PROVE FALSE
        OBVIOUS
      <3>1. holder'[Mine(e)] = e
        BY <2>4 DEF RowTaken, OwnNames, Name
      <3> QED BY <3>1 DEF RowTaken, Reading
    <2>6. LeaseNamed(job[Mine(e)], Name(e))
      BY <2>3, <2>4, <2>5 DEF RowFollows, RowRests, RowLost, RowFinished, Waiting, LeaseNamed
    <2> QED BY <2>1, <2>2, <2>6 DEF RevisedInv, RevisionsFit
  <1> QED BY <1>1, <1>2

\* Every step keeps what readers may rely on.
LEMMA RevisedStepKeeps ==
    ASSUME OwnNames PROVE RevisedInv /\ [QueueNext]_queueVars => RevisedInv'
  <1> SUFFICES ASSUME RevisedInv, [QueueNext]_queueVars PROVE RevisedInv'
    OBVIOUS
  <1>1. HeldInv'
    BY HeldStepKeeps DEF RevisedInv
  <1>2. CASE \E withJob \in BOOLEAN : RecordPage(withJob)
    BY <1>1, <1>2, RecordPageRevises DEF RevisedInv
  <1>3. CASE projection' = projection
    BY <1>1, <1>3, OthersRevise DEF RevisedInv
  <1>4. CASE RecordPresencePage \/ CompleteRun
    <2>1. \A a \in Asset : projection'[a].rev = projection[a].rev
      <3> SUFFICES ASSUME NEW a \in Asset PROVE projection'[a].rev = projection[a].rev
        OBVIOUS
      <3>1. projection'[a] = projection[a] \/ \E s : projection'[a] = [projection[a] EXCEPT !.state = s]
        <4>1. CASE RecordPresencePage
          <5> DEFINE seen == IF run.listing[a].trashed THEN "missing" ELSE "active"
          <5>1. projection'[a] = projection[a] \/ projection'[a] = [projection[a] EXCEPT !.state = seen]
            BY <4>1 DEF RecordPresencePage
          <5> QED BY <5>1
        <4>2. CASE CompleteRun
          <5>1. projection'[a] = projection[a] \/ projection'[a] = [projection[a] EXCEPT !.state = "missing"]
            BY <4>2 DEF CompleteRun
          <5> QED BY <5>1
        <4> QED BY <1>4, <4>1, <4>2
      <3>2. \A s : [projection[a] EXCEPT !.state = s].rev = projection[a].rev
        <4> DEFINE old == projection[a]
        <4>1. old \in ProjectionRow
          BY DEF RevisedInv, HeldInv, QueueInv, WorldFits
        <4> HIDE DEF old
        <4>2. \A s : [old EXCEPT !.state = s].rev = old.rev
          BY <4>1 DEF ProjectionRow
        <4> QED BY <4>2 DEF old
      <3> QED BY <3>1, <3>2
    <2> QED BY <1>1, <2>1, OthersRevise DEF RevisedInv
  <1>5. CASE \/ \E a \in Asset, presence \in Presence, edits \in BOOLEAN :
                    LibraryMoves(a, presence, edits)
             \/ \E kind \in {"full", "presence"} : FetchPage(kind)
             \/ ReconcileBindings \/ ReconcileAssets \/ EnsureCurrentJobs \/ PauseQueue \/ ResumeQueue
             \/ LeaseTick \/ UNCHANGED queueVars
    BY <1>3, <1>5 DEF LibraryMoves, FetchPage, ReconcileBindings, ReconcileAssets, EnsureCurrentJobs,
       PauseQueue, ResumeQueue, LeaseTick, queueVars, worldVars
  <1>6. CASE \E e \in Exec : WorkerStep(e) \/ Stop(e)
    BY <1>3, <1>6 DEF WorkerStep, Stop, ReadControl, ClaimJob, FindNoJob, LocateProjection,
       ReadMetadata, ReadBytes, VerifyInventory, DetectorFails, CommitRefused, ReportFailure, Commit,
       Committed, worldVars
  <1> QED BY <1>2, <1>4, <1>5, <1>6 DEF QueueNext

\* Only a commit stores a result.
LEMMA OnlyCommitStores ==
    ASSUME RevisedInv, [QueueNext]_queueVars, NEW j \in Job, result'[j] # result[j]
    PROVE  projection[AssetOf[j]].rev = RevisionOf[j]
  <1>1. \E e \in Exec, d \in Digest : Commit(e, d)
    <2>1. CASE \E e \in Exec : WorkerStep(e) \/ Stop(e)
      BY <2>1 DEF WorkerStep, Stop, ReadControl, ClaimJob, FindNoJob, LocateProjection,
         ReadMetadata, ReadBytes, VerifyInventory, DetectorFails, CommitRefused, ReportFailure
    <2> QED BY <2>1 DEF QueueNext, LibraryMoves, FetchPage, RecordPage, RecordPresencePage,
         CompleteRun, ReconcileBindings, ReconcileAssets, EnsureCurrentJobs, PauseQueue, ResumeQueue,
         LeaseTick, workVars, queueVars
  <1>2. PICK e \in Exec, d \in Digest : Commit(e, d)
    BY <1>1
  <1>3. result = [k \in Job |-> result[k]]
    BY DEF RevisedInv, HeldInv, QueueInv, ExecsFit
  <1>4. j = Mine(e) /\ exec[e].pc = "verified" /\ LeaseNamed(job[Mine(e)], Name(e))
    BY <1>2, <1>3 DEF Commit, Committed, LeaseCurrent
  <1> QED BY <1>4 DEF RevisedInv, RevisionsFit, Reading

\* A result is only committed for the revision its projection has.
THEOREM QueueNoObsoleteResult == ASSUME OwnNames PROVE QueueSpec => NoObsoleteResult
  <1>1. QueueInit => RevisedInv
    <2>1. QueueInit => \A e \in Exec : exec[e].pc = "idle"
      BY DEF QueueInit, Idle
    <2> QED BY <2>1, HeldInitially DEF RevisedInv, RevisionsFit, Reading
  <1>2. RevisedInv /\ [QueueNext]_queueVars => RevisedInv'
    BY RevisedStepKeeps
  <1>3. RevisedInv /\ [QueueNext]_queueVars =>
            [\A j \in Job : result'[j] # result[j] => projection[AssetOf[j]].rev = RevisionOf[j]]_queueVars
    BY OnlyCommitStores
  <1> QED BY <1>1, <1>2, <1>3, PTL DEF QueueSpec, NoObsoleteResult
=============================================================================
