---------------------------- MODULE RebuildQueue ----------------------------
(***************************************************************************)
(* The queue of SourcePack rebuild requests of one person and              *)
(* configuration.  A correction of the archive is a transaction whose      *)
(* trigger enqueues a request, or folds it into one that is pending.       *)
(* Workers claim the pending requests under a lease, compile a pack from   *)
(* the corrections committed so far and complete the requests with it.     *)
(* The owner's compile command builds a pack without a claim, and then     *)
(* completes the requests that are pending and older than the command.     *)
(*                                                                         *)
(* A request has the name of the correction that made it.  Row locks are   *)
(* those of the transactions that are open: a claim holds its batch FOR    *)
(* UPDATE, a folded insert holds the request it names FOR KEY SHARE.       *)
(* Updates of a row wait for the claim that holds it.                      *)
(*                                                                         *)
(* Left out: the batch limit (500 requests), the cycle limit, the pack's   *)
(* contents, requests of other people and configurations.                  *)
(***************************************************************************)
EXTENDS Integers, FiniteSets

CONSTANTS
    Correction,     \* transactions that correct what packs are compiled from
    Rebuilder,      \* worker ids; at most one process runs under an id
    MaxTries,       \* maxAttempts
    MaxFaults       \* bound: crashes, rollbacks, lapses under a live worker, compile commands

ASSUME RebuildAssumption ==
    /\ "no request" \notin Correction
    /\ {"no owner", "the owner"} \cap Rebuilder = {}
    /\ MaxTries \in Nat \ {0} /\ MaxFaults \in Nat

VARIABLES
    request,        \* [Correction -> its committed rebuild request]
    correction,     \* [Correction -> the state of its transaction]
    enqueueLock,    \* the correction that holds the advisory lock of the person
    rebuilder,      \* [Rebuilder -> the state of its process]
    compiler,       \* the state of the compile command
    faults          \* faults so far

rebuildVars == <<request, correction, enqueueLock, rebuilder, compiler, faults>>

-----------------------------------------------------------------------------

NoRequest == "no request"
NoOwner == "no owner"

NewRequest == [state |-> "pending", into |-> NoRequest, owner |-> NoOwner, attempts |-> 0,
               lapsed |-> FALSE, by |-> NoOwner, pack |-> {}]
Unmade == [NewRequest EXCEPT !.state = "none"]
Folded(r) == [NewRequest EXCEPT !.state = "superseded", !.into = r]
Owned(row, w) == row.state = "processing" /\ row.owner = w

\* found: the pending request read; timely: it was still pending when the insert named it (history).
NewCorrection == [pc |-> "idle", found |-> NoRequest, timely |-> TRUE]
IdleRebuilder == [pc |-> "idle", batch |-> {}, snapshot |-> {}]
TheOwner == "the owner"
IdleCompiler == [pc |-> "idle", older |-> {}, snapshot |-> {}]

RebuildInit ==
    /\ request = [c \in Correction |-> Unmade]
    /\ correction = [c \in Correction |-> NewCorrection]
    /\ enqueueLock = NoRequest
    /\ rebuilder = [w \in Rebuilder |-> IdleRebuilder]
    /\ compiler = IdleCompiler
    /\ faults = 0

InState(state) == {c \in Correction : request[c].state = state}
Committed == {c \in Correction : correction[c].pc = "committed"}

Locked(r) == \E w \in Rebuilder : rebuilder[w].pc = "claiming" /\ r \in rebuilder[w].batch
KeyShared(r) == \E c \in Correction : correction[c].pc = "inserted" /\ correction[c].found = r

-----------------------------------------------------------------------------
(* A correction *)

Fault == faults < MaxFaults /\ faults' = faults + 1

\* The trigger takes the lock of the person and looks for a pending request.
ReadPending(c) ==
    /\ correction[c].pc = "idle" /\ enqueueLock = NoRequest
    /\ enqueueLock' = c
    /\ \E found \in IF InState("pending") = {} THEN {NoRequest} ELSE InState("pending") :
        correction' = [correction EXCEPT ![c].pc = "enqueueing", ![c].found = found]
    /\ UNCHANGED <<request, rebuilder, compiler, faults>>

\* The foreign key of a folded request waits while a claim holds the request it names.
InsertRequest(c) ==
    LET found == correction[c].found IN
    /\ correction[c].pc = "enqueueing"
    /\ found = NoRequest \/ ~Locked(found)
    /\ correction' = [correction EXCEPT ![c].pc = "inserted",
                          ![c].timely = found = NoRequest \/ request[found].state = "pending"]
    /\ UNCHANGED <<request, enqueueLock, rebuilder, compiler, faults>>

CommitCorrection(c) ==
    LET found == correction[c].found IN
    /\ correction[c].pc = "inserted"
    /\ correction' = [correction EXCEPT ![c].pc = "committed"]
    /\ request' = [request EXCEPT ![c] = IF found = NoRequest THEN NewRequest ELSE Folded(found)]
    /\ enqueueLock' = NoRequest
    /\ UNCHANGED <<rebuilder, compiler, faults>>

\* The correction fails or is abandoned: nothing of it was visible.
RollBackCorrection(c) ==
    /\ correction[c].pc \in {"enqueueing", "inserted"}
    /\ Fault
    /\ correction' = [correction EXCEPT ![c] = NewCorrection]
    /\ enqueueLock' = NoRequest
    /\ UNCHANGED <<request, rebuilder, compiler>>

-----------------------------------------------------------------------------
(* A worker *)

RecoveredUntried == {r \in InState("processing") : request[r].lapsed /\ request[r].attempts < MaxTries}
Recovered == {r \in InState("processing") : request[r].lapsed}

\* Lapsed leases are recovered without looking at their attempts; rows another transaction has
\* locked are skipped, except that the recovery waits for a claim that recovers the same rows.
OpenClaim(w) ==
    LET batch == {r \in InState("pending") \cup Recovered : ~Locked(r) /\ ~KeyShared(r)} IN
    /\ rebuilder[w].pc = "idle"
    /\ \A r \in Recovered : ~Locked(r)
    /\ batch # {}
    /\ rebuilder' = [rebuilder EXCEPT ![w] = [IdleRebuilder EXCEPT !.pc = "claiming", !.batch = batch]]
    /\ UNCHANGED <<request, correction, enqueueLock, compiler, faults>>

\* attempts counts to the limit: nothing tells higher counts apart.
Leased(row, w) ==
    [row EXCEPT !.state = "processing", !.owner = w, !.lapsed = FALSE,
                !.attempts = IF @ < MaxTries THEN @ + 1 ELSE @]

CommitClaim(w) ==
    /\ rebuilder[w].pc = "claiming"
    /\ request' = [r \in Correction |-> IF r \in rebuilder[w].batch THEN Leased(request[r], w)
                                        ELSE request[r]]
    /\ rebuilder' = [rebuilder EXCEPT ![w].pc = "claimed"]
    /\ UNCHANGED <<correction, enqueueLock, compiler, faults>>

\* compileAndPersistSourcePack loads the faces of every committed correction.
Compile(w) ==
    /\ rebuilder[w].pc = "claimed"
    /\ rebuilder' = [rebuilder EXCEPT ![w].pc = "compiled", ![w].snapshot = Committed]
    /\ UNCHANGED <<request, correction, enqueueLock, compiler, faults>>

KeptRows(w) == {r \in rebuilder[w].batch : request[r].state = "processing"}
Kept(w) == {r \in rebuilder[w].batch : Owned(request[r], w)}

Writable(w) == \A r \in Kept(w) : ~Locked(r)

\* The rows this worker still leases are completed; the process fails when one was taken over.
CompleteBatch(w) ==
    /\ rebuilder[w].pc = "compiled" /\ Writable(w)
    /\ request' = [r \in Correction |->
                      IF r \in Kept(w)
                      THEN [request[r] EXCEPT !.state = "completed", !.owner = NoOwner,
                                              !.lapsed = FALSE, !.by = w,
                                              !.pack = rebuilder[w].snapshot]
                      ELSE request[r]]
    /\ rebuilder' = [rebuilder EXCEPT ![w] = IdleRebuilder]
    /\ UNCHANGED <<correction, enqueueLock, compiler, faults>>

\* Compiling fails: the rows still leased wait again, or have failed for good.
ReleaseFailedBatch(w) ==
    /\ rebuilder[w].pc \in {"claimed", "compiled"} /\ Writable(w)
    /\ request' = [r \in Correction |->
                      IF r \in Kept(w)
                      THEN [request[r] EXCEPT !.owner = NoOwner, !.lapsed = FALSE,
                                !.state = IF request[r].attempts >= MaxTries THEN "failed"
                                          ELSE "pending"]
                      ELSE request[r]]
    /\ rebuilder' = [rebuilder EXCEPT ![w] = IdleRebuilder]
    /\ UNCHANGED <<correction, enqueueLock, compiler, faults>>

\* The process dies; its open claim is rolled back, its lease stays until it lapses.
CrashRebuilder(w) ==
    /\ rebuilder[w].pc # "idle"
    /\ Fault
    /\ rebuilder' = [rebuilder EXCEPT ![w] = IdleRebuilder]
    /\ UNCHANGED <<request, correction, enqueueLock, compiler>>

Working(r) == \E w \in Rebuilder : r \in rebuilder[w].batch /\ request[r].owner = w

LeaseLapses(r) ==
    /\ request[r].state = "processing" /\ ~request[r].lapsed
    /\ IF Working(r) THEN Fault ELSE UNCHANGED faults
    /\ request' = [request EXCEPT ![r].lapsed = TRUE]
    /\ UNCHANGED <<correction, enqueueLock, rebuilder, compiler>>

-----------------------------------------------------------------------------
(* The owner's compile command *)

\* A request has the time its transaction began at: those open now count as older.
BeginCompile ==
    /\ compiler.pc = "idle" /\ Fault
    /\ compiler' = [IdleCompiler EXCEPT !.pc = "begun",
                       !.older = {c \in Correction : correction[c].pc # "idle"}]
    /\ UNCHANGED <<request, correction, enqueueLock, rebuilder>>

LoadFaces ==
    /\ compiler.pc = "begun"
    /\ compiler' = [compiler EXCEPT !.pc = "loaded", !.snapshot = Committed]
    /\ UNCHANGED <<request, correction, enqueueLock, rebuilder, faults>>

Outdated == InState("pending") \cap compiler.older

\* One statement; it waits for a claim that holds one of its rows.
CompletePendingRebuilds ==
    /\ compiler.pc = "loaded" /\ \A r \in Outdated : ~Locked(r)
    /\ request' = [r \in Correction |->
                      IF r \in Outdated
                      THEN [request[r] EXCEPT !.state = "completed", !.by = TheOwner,
                                              !.pack = compiler.snapshot]
                      ELSE request[r]]
    /\ compiler' = IdleCompiler
    /\ UNCHANGED <<correction, enqueueLock, rebuilder, faults>>

\* The evidence does not give a pack, or the process ends.
CompileFails ==
    /\ compiler.pc # "idle"
    /\ compiler' = IdleCompiler
    /\ UNCHANGED <<request, correction, enqueueLock, rebuilder, faults>>

-----------------------------------------------------------------------------

Enqueues(c) == ReadPending(c) \/ InsertRequest(c) \/ CommitCorrection(c)
Rebuilds(w) == OpenClaim(w) \/ CommitClaim(w) \/ Compile(w) \/ CompleteBatch(w)
                \/ ReleaseFailedBatch(w)

RebuildNext ==
    \/ \E c \in Correction : Enqueues(c) \/ RollBackCorrection(c) \/ LeaseLapses(c)
    \/ \E w \in Rebuilder : Rebuilds(w) \/ CrashRebuilder(w)
    \/ BeginCompile \/ LoadFaces \/ CompletePendingRebuilds \/ CompileFails

\* A correction's transaction ends, the operator keeps the workers running, and time passes.
RebuildFairness ==
    /\ \A c \in Correction :
        /\ WF_rebuildVars(correction[c].pc # "idle" /\ (InsertRequest(c) \/ CommitCorrection(c)))
        /\ WF_rebuildVars(~Working(c) /\ LeaseLapses(c))
    /\ \A w \in Rebuilder : WF_rebuildVars(Rebuilds(w))

RebuildSpec == RebuildInit /\ [][RebuildNext]_rebuildVars

-----------------------------------------------------------------------------
(* Properties *)

RebuildTypeOK ==
    /\ request \in [Correction ->
            [state : {"none", "pending", "processing", "completed", "failed", "superseded"},
             into : Correction \cup {NoRequest}, owner : Rebuilder \cup {NoOwner},
             attempts : 0..MaxTries, lapsed : BOOLEAN,
             by : Rebuilder \cup {NoOwner, TheOwner}, pack : SUBSET Correction]]
    /\ correction \in [Correction ->
            [pc : {"idle", "enqueueing", "inserted", "committed"},
             found : Correction \cup {NoRequest}, timely : BOOLEAN]]
    /\ enqueueLock \in Correction \cup {NoRequest}
    /\ rebuilder \in [Rebuilder -> [pc : {"idle", "claiming", "claimed", "compiled"},
                                    batch : SUBSET Correction, snapshot : SUBSET Correction]]
    /\ compiler \in [pc : {"idle", "begun", "loaded"}, older : SUBSET Correction,
                     snapshot : SUBSET Correction]
    /\ faults \in 0..MaxFaults

Answering(c) == IF request[c].state = "superseded" THEN request[c].into ELSE c

\* A pack with which a worker completes a request contains every correction that was folded into
\* the request while it was pending, also when leases lapse under slow workers, another worker
\* takes over and fails, and the first one completes late.
TimelyCorrectionPacked ==
    \A c \in Committed :
        correction[c].timely /\ request[Answering(c)].by \in Rebuilder
            => c \in request[Answering(c)].pack

\* A committed correction is in a pack, or a request is open that a later pack will answer, or
\* its request has failed for good: it is never swallowed by an older snapshot.
CorrectionNeverSwallowed ==
    \A c \in Committed :
        \/ \E r \in Correction : request[r].state \in {"pending", "processing"}
        \/ \E r \in InState("completed") : c \in request[r].pack
        \/ request[Answering(c)].state = "failed"

\* Once crashes, rollbacks and lapses under live workers stop, the queue drains: every request is
\* completed or has failed for good, also when leases lapse and recovered requests lapse again.
RequestsSettle ==
    LET open == InState("pending") \cup InState("processing") IN open # {} ~> open = {}
=============================================================================
