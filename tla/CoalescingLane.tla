--------------------------- MODULE CoalescingLane ---------------------------
(***************************************************************************)
(* The in-process maintenance lane: requests to refresh a key (a person,   *)
(* an asset) are coalesced, so that a key waits at most once and runs at   *)
(* most once at a time, and a request made during a run causes another.    *)
(*                                                                         *)
(* JavaScript runs one callback at a time; an action is what happens       *)
(* between two of them: a call of schedule or whenIdle, the drain          *)
(* microtask, the settling of a worker's promise, a retry timer.           *)
(*                                                                         *)
(* Left out: counters, events, and two requests in the same millisecond    *)
(* (age orders keys by requestedAt).                                       *)
(***************************************************************************)
EXTENDS Integers, FiniteSets, FiniteSetsExt

CONSTANTS
    Key,            \* what the lane refreshes
    Priority,       \* the priorities callers pass
    Concurrency,    \* maximumConcurrency
    MaxRuns,        \* maximumAttempts
    Waiter          \* callers of whenIdle

ASSUME LaneAssumption ==
    /\ IsFiniteSet(Key)
    /\ Priority \subseteq Nat /\ Priority # {}
    /\ Concurrency \in Nat \ {0}
    /\ MaxRuns \in Nat \ {0}

TopPriority == Max(Priority)

VARIABLES
    jobs,           \* [Key -> its entry of jobs]
    pending,        \* [Key -> how often it is in pending]
    calls,          \* [Key -> worker calls under way]
    active,         \* the count of them
    age,            \* <<k, l>>: of these tracked keys, k has the earlier requestedAt
    drainScheduled, \* a drain microtask is queued
    idleWaiters,    \* callers whose whenIdle has not resolved
    owed            \* [Key -> what its last request still waits for] (history)

laneVars == <<jobs, pending, calls, active, age, drainScheduled, idleWaiters, owed>>

-----------------------------------------------------------------------------

NoJob == [state |-> "none", dirty |-> FALSE, attempt |-> 0, priority |-> 0]

Tracked == {k \in Key : jobs[k] # NoJob}

LaneIdle == active = 0 /\ \A k \in Key : pending[k] = 0 /\ jobs[k] = NoJob

Others(k) == {o \in age : k \notin {o[1], o[2]}}

\* requestedAt is set to now.
Requested(k) == age' = Others(k) \cup ((Tracked \ {k}) \X {k})

Pushed(k) == pending' = [pending EXCEPT ![k] = @ + 1]

\* Resolves every waiter once nothing is active, pending or tracked.
SettleIdleUntracked ==
    idleWaiters' = IF active' = 0 /\ (\A k \in Key : pending'[k] = 0) THEN {} ELSE idleWaiters
SettleIdle == idleWaiters' = IF LaneIdle' THEN {} ELSE idleWaiters

LaneInit ==
    /\ jobs = [k \in Key |-> NoJob]
    /\ pending = [k \in Key |-> 0]
    /\ calls = [k \in Key |-> 0]
    /\ active = 0
    /\ age = {}
    /\ drainScheduled = FALSE
    /\ idleWaiters = {}
    /\ owed = [k \in Key |-> "nothing"]

-----------------------------------------------------------------------------
(* schedule *)

ScheduleNew(k, p) ==
    /\ jobs[k] = NoJob
    /\ jobs' = [jobs EXCEPT ![k] = [NoJob EXCEPT !.state = "queued", !.priority = p]]
    /\ Pushed(k)
    /\ Requested(k)
    /\ drainScheduled' = TRUE

CoalesceRequeueing(k, p) ==
    /\ jobs[k] # NoJob
    /\ jobs' = [jobs EXCEPT ![k].priority = Max({@, p}),
                            ![k].dirty = @ \/ jobs[k].state = "running"]
    /\ IF jobs[k].state = "backoff" THEN Pushed(k) ELSE UNCHANGED pending
    /\ drainScheduled' = TRUE
    /\ UNCHANGED age
Coalesce(k, p) ==
    /\ jobs[k] # NoJob
    /\ jobs' = [jobs EXCEPT ![k].priority = Max({@, p}),
                            ![k].dirty = @ \/ jobs[k].state = "running"]
    /\ UNCHANGED <<pending, age, drainScheduled>>

Schedule(k, p) ==
    /\ ScheduleNew(k, p) \/ Coalesce(k, p)
    /\ owed' = [owed EXCEPT ![k] = "run"]
    /\ UNCHANGED <<calls, active, idleWaiters>>

-----------------------------------------------------------------------------
(* drain *)

Pending == {k \in Key : pending[k] > 0}

Before(k, l) ==
    \/ jobs[k].priority > jobs[l].priority
    \/ jobs[k].priority = jobs[l].priority /\ <<k, l>> \in age

\* The keys the loop starts: one after another, the first of the order, while a slot is free.
Started ==
    LET free == Concurrency - active
        waiting == Pending
    IN {k \in waiting : Cardinality({l \in waiting : Before(l, k)}) < free}

Drain ==
    LET started == Started IN
    /\ drainScheduled
    /\ drainScheduled' = FALSE
    /\ jobs' = [k \in Key |-> IF k \in started
                              THEN [jobs[k] EXCEPT !.state = "running", !.dirty = FALSE,
                                                   !.attempt = @ + 1]
                              ELSE jobs[k]]
    /\ pending' = [k \in Key |-> IF k \in started THEN pending[k] - 1 ELSE pending[k]]
    /\ calls' = [k \in Key |-> IF k \in started THEN calls[k] + 1 ELSE calls[k]]
    /\ active' = active + Cardinality(started)
    /\ owed' = [k \in Key |-> IF k \in started THEN "settling" ELSE owed[k]]
    /\ SettleIdle
    /\ UNCHANGED age

-----------------------------------------------------------------------------
(* The end of a run *)

Retries(row) == row.attempt < MaxRuns

\* The run counts for its key: a request made meanwhile runs it again with a fresh budget.
Requeue(k) ==
    /\ jobs[k].dirty
    /\ jobs' = [jobs EXCEPT ![k].attempt = 0, ![k].state = "queued"]
    /\ Pushed(k)
    /\ Requested(k)

Delete(k) ==
    /\ jobs' = [jobs EXCEPT ![k] = NoJob]
    /\ age' = Others(k)
    /\ UNCHANGED pending

Release(k) ==
    /\ Requeue(k) \/ (~jobs[k].dirty /\ Delete(k))
    /\ owed' = [owed EXCEPT ![k] = IF @ = "settling" THEN "nothing" ELSE @]
    /\ drainScheduled' = TRUE

\* A failed run waits for its timer.  No drain is queued: the slot stays free until the timer or
\* another request queues one.
BackOff(k) ==
    /\ jobs' = [jobs EXCEPT ![k].state = "backoff"]
    /\ Requested(k)
    /\ UNCHANGED <<pending, drainScheduled, owed>>

Ended(k) ==
    /\ calls[k] > 0
    /\ calls' = [calls EXCEPT ![k] = @ - 1]
    /\ active' = active - 1

WorkerSucceeds(k) == Ended(k) /\ Release(k) /\ SettleIdle

WorkerFailsForgetting(k) ==
    /\ Ended(k)
    /\ \/ Retries(jobs[k]) /\ BackOff(k)
       \/ ~Retries(jobs[k]) /\ Delete(k) /\ drainScheduled' = TRUE /\ UNCHANGED owed
    /\ SettleIdle
WorkerFails(k) ==
    /\ Ended(k)
    /\ \/ Retries(jobs[k]) /\ BackOff(k)
       \/ ~Retries(jobs[k]) /\ Release(k)
    /\ SettleIdle

BackoffElapsesSilently(k) ==
    /\ jobs[k].state = "backoff"
    /\ jobs' = [jobs EXCEPT ![k].state = "queued"]
    /\ Pushed(k)
    /\ UNCHANGED <<calls, active, age, drainScheduled, idleWaiters, owed>>
BackoffElapses(k) ==
    /\ jobs[k].state = "backoff"
    /\ jobs' = [jobs EXCEPT ![k].state = "queued"]
    /\ Pushed(k)
    /\ drainScheduled' = TRUE
    /\ UNCHANGED <<calls, active, age, idleWaiters, owed>>

WhenIdle(w) ==
    /\ ~LaneIdle
    /\ idleWaiters' = idleWaiters \cup {w}
    /\ UNCHANGED <<jobs, pending, calls, active, age, drainScheduled, owed>>

-----------------------------------------------------------------------------

Advances(k) == WorkerSucceeds(k) \/ WorkerFails(k) \/ BackoffElapses(k)

LaneNext ==
    \/ \E k \in Key, p \in Priority : Schedule(k, p)
    \/ Drain
    \/ \E k \in Key : Advances(k)
    \/ \E w \in Waiter : WhenIdle(w)

\* Microtasks and timers run, and a worker's promise settles (its work is database statements);
\* how it settles is open, and nobody has to request anything.
LaneSpec ==
    /\ LaneInit /\ [][LaneNext]_laneVars
    /\ WF_laneVars(Drain)
    /\ \A k \in Key : WF_laneVars(Advances(k))

-----------------------------------------------------------------------------
(* Properties *)

LaneTypeOK ==
    /\ jobs \in [Key -> [state : {"none", "queued", "running", "backoff"}, dirty : BOOLEAN,
                        attempt : 0..MaxRuns, priority : Priority \cup {0}]]
    /\ pending \in [Key -> Nat] /\ calls \in [Key -> Nat]
    /\ age \subseteq Tracked \X Tracked
    /\ \A k, l \in Tracked : k # l => (<<k, l>> \in age <=> <<l, k>> \notin age)
    /\ drainScheduled \in BOOLEAN
    /\ idleWaiters \subseteq Waiter
    /\ owed \in [Key -> {"nothing", "run", "settling"}]

\* A key waits or runs at most once whatever is requested, also during a run or a backoff, and no
\* more keys run than the lane allows: two refreshes of one person never write its rows together.
KeyExclusive ==
    /\ \A k \in Key : calls[k] + pending[k] <= 1
    /\ Cardinality({k \in Key : calls[k] > 0}) <= Concurrency

\* The lane's state keeps its type, and its keys and slots are exclusive.
LaneSafe == LaneTypeOK /\ KeyExclusive

\* No request is lost to coalescing: until its key is done there is a queue entry, a timer or a
\* call under way for it, and a call that began before the request is marked to be followed by
\* another one, also when it fails for the last time.
RequestCovered ==
    \A k \in Key : owed[k] # "nothing" =>
        \/ pending[k] = 1 \/ jobs[k].state = "backoff"
        \/ calls[k] = 1 /\ (owed[k] = "run" => jobs[k].dirty)

\* whenIdle is a barrier: it resolves only when every request made so far has been answered by a
\* run that began after it and succeeded or was given up, also through a backoff, when nothing is
\* active and nothing pending.
IdleMeansDone ==
    [][idleWaiters \subseteq idleWaiters' \/ \A k \in Key : owed'[k] = "nothing"]_laneVars

\* A request at the highest priority is eventually followed by a run of its key, however many
\* requests for other keys keep coming and however often runs fail.
TopServedFor(k) == owed[k] = "run" /\ jobs[k].priority = TopPriority ~> owed[k] # "run"
TopServed == \A k \in Key : TopServedFor(k)
=============================================================================
