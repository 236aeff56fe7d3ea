------------------------- MODULE CoalescingLaneProofs -------------------------
(***************************************************************************)
(* The maintenance lane is safe for any keys, priorities and limits: keys  *)
(* and slots are exclusive, no request is lost, and whenIdle is a barrier. *)
(* A job's state says where its key is (queued, under way or in backoff);  *)
(* the count of calls is right; and the drain's order is total, so that it *)
(* starts no more keys than there are free slots.                          *)
(***************************************************************************)
EXTENDS CoalescingLane, FiniteSetTheorems, TLAPS

JobRow == [state : {"none", "queued", "running", "backoff"}, dirty : BOOLEAN,
           attempt : 0..MaxRuns, priority : Priority \cup {0}]

\* The state of a job says how often its key waits (n) and runs (c), and if an attempt is left.
Placed(row, n, c) ==
    /\ row.state = "none" => row = NoJob /\ n = 0 /\ c = 0
    /\ row.state = "queued" => n = 1 /\ c = 0 /\ row.attempt < MaxRuns
    /\ row.state = "running" => n = 0 /\ c = 1
    /\ row.state = "backoff" => n = 0 /\ c = 0 /\ row.attempt < MaxRuns
InPlace(k) == Placed(jobs[k], pending[k], calls[k])

\* RequestCovered, of a key that is owed what o says.
Covered(row, n, c, o) ==
    o # "nothing" => n = 1 \/ row.state = "backoff" \/ (c = 1 /\ (o = "run" => row.dirty))

Calling == {k \in Key : calls[k] > 0}

\* requestedAt orders the tracked keys.
AgeOrders ==
    /\ age \subseteq Tracked \X Tracked
    /\ \A k, l \in Tracked : k # l => (<<k, l>> \in age <=> <<l, k>> \notin age)
    /\ \A k \in Tracked : <<k, k>> \notin age
    /\ \A k, l, m \in Tracked : <<k, l>> \in age /\ <<l, m>> \in age => <<k, m>> \in age

LaneInv ==
    /\ jobs \in [Key -> JobRow] /\ pending \in [Key -> Nat] /\ calls \in [Key -> Nat]
    /\ drainScheduled \in BOOLEAN /\ idleWaiters \subseteq Waiter
    /\ owed \in [Key -> {"nothing", "run", "settling"}]
    /\ \A k \in Key : InPlace(k)
    /\ active = Cardinality(Calling) /\ active <= Concurrency
    /\ AgeOrders
    /\ RequestCovered

-------------------------------------------------------------------------------
(* How many keys a drain starts. *)

LEMMA FinitelyMany ==
    ASSUME LaneInv, NEW S, S \subseteq Key
    PROVE  IsFiniteSet(S) /\ Cardinality(S) \in Nat
<1> QED
  BY LaneAssumption, FS_Subset, FS_CardinalityType

\* The drain's order is total and strict on the tracked keys.
LEMMA BeforeOrders ==
    ASSUME LaneInv, NEW k \in Tracked, NEW l \in Tracked, NEW m \in Tracked
    PROVE  /\ ~Before(k, k)
           /\ k # l => Before(k, l) \/ Before(l, k)
           /\ Before(k, l) /\ Before(l, m) => Before(k, m)
<1>1. jobs[k].priority \in Nat /\ jobs[l].priority \in Nat /\ jobs[m].priority \in Nat
  <2>1. jobs[k] \in JobRow /\ jobs[l] \in JobRow /\ jobs[m] \in JobRow
    BY DEF LaneInv, Tracked
  <2>2. Priority \cup {0} \subseteq Nat
    BY LaneAssumption
  <2>3. \A row \in JobRow : row.priority \in Priority \cup {0}
    BY DEF JobRow
  <2> QED
    BY <2>1, <2>2, <2>3
<1>2. /\ <<k, k>> \notin age
      /\ k # l => <<k, l>> \in age \/ <<l, k>> \in age
      /\ <<k, l>> \in age /\ <<l, m>> \in age => <<k, m>> \in age
  BY DEF LaneInv, AgeOrders
<1> QED
  BY <1>1, <1>2 DEF Before

Ahead(k) == {l \in Pending : Before(l, k)}

\* Of two waiting keys, the later one has more keys ahead of it.
LEMMA AheadGrows ==
    ASSUME LaneInv, Pending \subseteq Tracked, NEW k \in Pending, NEW l \in Pending, Before(k, l)
    PROVE  Cardinality(Ahead(k)) < Cardinality(Ahead(l))
<1>1. Ahead(k) \subseteq Ahead(l)
  BY BeforeOrders DEF Ahead
<1>2. k \in Ahead(l) /\ k \notin Ahead(k)
  BY BeforeOrders DEF Ahead
<1>3. IsFiniteSet(Ahead(l)) /\ Cardinality(Ahead(l)) \in Nat /\ Cardinality(Ahead(k)) \in Nat
  BY FinitelyMany DEF Ahead, Pending
<1>4. /\ Cardinality(Ahead(k)) <= Cardinality(Ahead(l))
      /\ Cardinality(Ahead(l)) = Cardinality(Ahead(k)) => Ahead(l) = Ahead(k)
  BY <1>1, <1>3, FS_Subset
<1> QED
  BY <1>2, <1>3, <1>4

LEMMA PendingTracked == ASSUME LaneInv PROVE Pending \subseteq Tracked
<1> SUFFICES ASSUME NEW k \in Pending PROVE k \in Tracked
  OBVIOUS
<1>1. jobs[k] \in JobRow /\ InPlace(k) /\ pending[k] # 0 /\ k \in Key
  BY DEF LaneInv, Pending
<1>2. jobs[k] # NoJob
  BY <1>1 DEF InPlace, Placed, NoJob
<1> QED
  BY <1>1, <1>2 DEF Tracked

\* A drain starts waiting keys, no more than there are free slots: each has its own number of keys
\* ahead of it, below the number of free slots.
LEMMA StartedFits ==
    ASSUME LaneInv
    PROVE  /\ Started \subseteq Pending
           /\ IsFiniteSet(Started) /\ Cardinality(Started) \in Nat
           /\ active + Cardinality(Started) <= Concurrency
<1> DEFINE free == Concurrency - active
           T == 0..(free - 1)
           f == [k \in Started |-> Cardinality(Ahead(k))]
<1>1. Started = {k \in Pending : Cardinality(Ahead(k)) < free}
  BY DEF Started, Ahead
<1>2. IsFiniteSet(Started) /\ Cardinality(Started) \in Nat /\ Started \subseteq Pending
  BY <1>1, FinitelyMany DEF Pending
<1>3. active \in Nat /\ active <= Concurrency /\ Concurrency \in Nat
  <2>1. Cardinality(Calling) \in Nat
    BY FinitelyMany DEF Calling
  <2> QED
    BY <2>1, LaneAssumption DEF LaneInv
<1>4. free \in Nat /\ IsFiniteSet(T) /\ Cardinality(T) = free
  <2>1. free \in Nat /\ 0 \in Int /\ free - 1 \in Int
    BY <1>3
  <2> HIDE DEF free
  <2>2. IsFiniteSet(T) /\ Cardinality(T) = IF 0 > free - 1 THEN 0 ELSE (free - 1) - 0 + 1
    BY <2>1, FS_Interval
  <2> QED
    BY <2>1, <2>2
<1>5. ASSUME Cardinality(Started) > free PROVE FALSE
  <2>1. f \in [Started -> T]
    <3> SUFFICES ASSUME NEW k \in Started PROVE Cardinality(Ahead(k)) \in T
      OBVIOUS
    <3>1. Cardinality(Ahead(k)) \in Nat
      BY FinitelyMany DEF Ahead, Pending
    <3>2. Cardinality(Ahead(k)) < free
      BY <1>1
    <3> HIDE DEF free
    <3> QED
      BY <1>4, <3>1, <3>2
  <2> HIDE DEF T
  <2>2. \E x, y \in Started : x # y /\ f[x] = f[y]
    <3> HIDE DEF f
    <3>1. Cardinality(T) < Cardinality(Started)
      BY <1>2, <1>4, <1>5
    <3> QED
      BY <1>2, <1>4, <2>1, <3>1, FS_PigeonHole
  <2>3. PICK x \in Started, y \in Started : x # y /\ f[x] = f[y]
    BY <2>2
  <2>4. x \in Pending /\ y \in Pending /\ x \in Tracked /\ y \in Tracked
    BY <1>2, PendingTracked
  <2>5. Before(x, y) \/ Before(y, x)
    BY <2>3, <2>4, BeforeOrders
  <2>6. Cardinality(Ahead(x)) < Cardinality(Ahead(y)) \/ Cardinality(Ahead(y)) < Cardinality(Ahead(x))
    BY <2>4, <2>5, AheadGrows, PendingTracked
  <2>7. /\ Cardinality(Ahead(x)) = Cardinality(Ahead(y))
        /\ Cardinality(Ahead(x)) \in Nat /\ Cardinality(Ahead(y)) \in Nat
    BY <2>3, FinitelyMany DEF Ahead, Pending
  <2> QED
    BY <2>6, <2>7
<1> QED
  BY <1>2, <1>3, <1>4, <1>5

-------------------------------------------------------------------------------
(* The invariant is inductive. *)

LEMMA LaneInitInv == LaneInit => LaneInv
<1> SUFFICES ASSUME LaneInit PROVE LaneInv
  OBVIOUS
<1>1. NoJob \in JobRow
  BY LaneAssumption DEF NoJob, JobRow
<1>2. jobs \in [Key -> JobRow] /\ pending \in [Key -> Nat] /\ calls \in [Key -> Nat]
  BY <1>1 DEF LaneInit
<1>3. \A k \in Key : InPlace(k)
  BY DEF LaneInit, InPlace, Placed, NoJob
<1>4. active = Cardinality(Calling) /\ active <= Concurrency
  <2>1. Calling = {} /\ active = 0
    BY DEF LaneInit, Calling
  <2> QED
    BY <2>1, FS_EmptySet, LaneAssumption
<1>5. AgeOrders
  BY DEF LaneInit, AgeOrders, Tracked
<1>6. RequestCovered
  BY DEF LaneInit, RequestCovered
<1> QED
  BY <1>2, <1>3, <1>4, <1>5, <1>6 DEF LaneInv, LaneInit

LEMMA AgeRequested ==
    ASSUME AgeOrders, NEW k \in Key, Requested(k), Tracked' = Tracked \cup {k}
    PROVE  AgeOrders'
<1>1. \A i, j : <<i, j>> \in age' <=> ((<<i, j>> \in age /\ i # k /\ j # k)
                                      \/ (i \in Tracked /\ i # k /\ j = k))
  BY DEF Requested, Others
<1>2. age' \subseteq Tracked' \X Tracked'
  BY DEF AgeOrders, Requested, Others
<1>3. \A i, j \in Tracked' : i # j => (<<i, j>> \in age' <=> <<j, i>> \notin age')
  BY <1>1 DEF AgeOrders
<1>4. \A i \in Tracked' : <<i, i>> \notin age'
  BY <1>1 DEF AgeOrders
<1>5. \A i, j, m \in Tracked' : <<i, j>> \in age' /\ <<j, m>> \in age' => <<i, m>> \in age'
  BY <1>1 DEF AgeOrders
<1> QED
  BY <1>2, <1>3, <1>4, <1>5 DEF AgeOrders

LEMMA AgeDeleted ==
    ASSUME AgeOrders, NEW k \in Key, age' = Others(k), Tracked' = Tracked \ {k}
    PROVE  AgeOrders'
<1>1. \A i, j : <<i, j>> \in age' <=> <<i, j>> \in age /\ i # k /\ j # k
  BY DEF Others
<1>2. age' \subseteq Tracked' \X Tracked'
  BY DEF AgeOrders, Others
<1> QED
  BY <1>1, <1>2 DEF AgeOrders

\* A step of one key: what it has to show.
LEMMA KeyStep ==
    ASSUME LaneInv, NEW k \in Key,
           NEW row \in JobRow, jobs' = [jobs EXCEPT ![k] = row],
           NEW n \in Nat, pending' = [pending EXCEPT ![k] = n],
           NEW c \in Nat, calls' = [calls EXCEPT ![k] = c],
           NEW o \in {"nothing", "run", "settling"}, owed' = [owed EXCEPT ![k] = o],
           drainScheduled' \in BOOLEAN, idleWaiters' \subseteq Waiter,
           active' = Cardinality(Calling'), active' <= Concurrency, AgeOrders',
           Placed(row, n, c), Covered(row, n, c, o)
    PROVE  LaneInv'
<1>1. /\ jobs' \in [Key -> JobRow] /\ pending' \in [Key -> Nat] /\ calls' \in [Key -> Nat]
      /\ owed' \in [Key -> {"nothing", "run", "settling"}]
  BY DEF LaneInv
<1>2. jobs'[k] = row /\ pending'[k] = n /\ calls'[k] = c /\ owed'[k] = o
  BY DEF LaneInv
<1>3. \A l \in Key \ {k} : /\ jobs'[l] = jobs[l] /\ pending'[l] = pending[l]
                           /\ calls'[l] = calls[l] /\ owed'[l] = owed[l]
  BY DEF LaneInv
<1>4. \A l \in Key : InPlace(l)'
  BY <1>2, <1>3 DEF LaneInv, InPlace
<1>5. \A l \in Key : Covered(jobs[l], pending[l], calls[l], owed[l])
  BY DEF LaneInv, RequestCovered, Covered
<1>6. \A l \in Key : Covered(jobs'[l], pending'[l], calls'[l], owed'[l])
  BY <1>2, <1>3, <1>5
<1>7. RequestCovered'
  BY <1>6 DEF RequestCovered, Covered
<1> QED
  BY <1>1, <1>4, <1>7 DEF LaneInv

\* Which keys call is unchanged, or what a step adds to it or takes from it.
LEMMA CallingKept ==
    ASSUME LaneInv, UNCHANGED <<calls, active>>
    PROVE  active' = Cardinality(Calling') /\ active' <= Concurrency
<1> QED
  BY DEF LaneInv, Calling

LEMMA CallingEnded ==
    ASSUME LaneInv, NEW k \in Key, Ended(k)
    PROVE  /\ calls[k] = 1 /\ jobs[k].state = "running" /\ pending[k] = 0
           /\ calls' = [calls EXCEPT ![k] = 0]
           /\ active' = Cardinality(Calling') /\ active' <= Concurrency
<1>1. jobs[k] \in JobRow /\ InPlace(k) /\ calls \in [Key -> Nat] /\ calls[k] > 0
  BY DEF LaneInv, Ended
<1>2. calls[k] = 1 /\ jobs[k].state = "running" /\ pending[k] = 0
  BY <1>1 DEF InPlace, Placed, JobRow
<1>3. calls' = [calls EXCEPT ![k] = 0]
  BY <1>2 DEF Ended
<1>4. Calling' = Calling \ {k} /\ k \in Calling
  BY <1>1, <1>2, <1>3 DEF Calling
<1>5. IsFiniteSet(Calling) /\ Cardinality(Calling) \in Nat
  BY FinitelyMany DEF Calling
<1>6. Cardinality(Calling') = Cardinality(Calling) - 1
  BY <1>4, <1>5, FS_RemoveElement
<1>7. active = Cardinality(Calling) /\ active <= Concurrency /\ active' = active - 1 /\ Concurrency \in Nat
  BY LaneAssumption DEF LaneInv, Ended
<1>8. active' = Cardinality(Calling') /\ active' <= Concurrency
  BY <1>5, <1>6, <1>7
<1> QED
  BY <1>2, <1>3, <1>8

LEMMA SettlesWaiters ==
    ASSUME LaneInv, SettleIdle
    PROVE  idleWaiters' \subseteq Waiter
<1> QED
  BY DEF LaneInv, SettleIdle

LEMMA HighestOfTwo ==
    ASSUME NEW a \in Priority \cup {0}, NEW b \in Priority \cup {0}
    PROVE  Max({a, b}) \in Priority \cup {0}
<1>1. a \in Nat /\ b \in Nat
  BY LaneAssumption
<1>2. \E x \in {a, b} : \A y \in {a, b} : x >= y
  BY <1>1
<1>3. Max({a, b}) \in {a, b}
  BY <1>2 DEF Max
<1> QED
  BY <1>3

LEMMA ScheduleStep ==
    ASSUME LaneInv, NEW k \in Key, NEW p \in Priority, Schedule(k, p)
    PROVE  LaneInv'
<1>1. /\ jobs \in [Key -> JobRow] /\ pending \in [Key -> Nat] /\ calls \in [Key -> Nat]
      /\ InPlace(k) /\ jobs[k] \in JobRow /\ calls' = [calls EXCEPT ![k] = calls[k]]
      /\ idleWaiters' \subseteq Waiter /\ AgeOrders
  BY DEF LaneInv, Schedule
<1>2. active' = Cardinality(Calling') /\ active' <= Concurrency
  BY CallingKept DEF Schedule
<1>3. owed' = [owed EXCEPT ![k] = "run"]
  BY DEF Schedule
<1>4. CASE ScheduleNew(k, p)
  <2> DEFINE row == [NoJob EXCEPT !.state = "queued", !.priority = p]
  <2>0. NoJob \in JobRow /\ NoJob.attempt = 0 /\ NoJob.state = "none"
    BY LaneAssumption DEF NoJob, JobRow
  <2>1. row \in JobRow /\ row.state = "queued" /\ row.attempt = 0 /\ row # NoJob
    <3>1. row \in JobRow
      BY <2>0 DEF JobRow
    <3>2. row.state = "queued" /\ row.attempt = 0
      BY <2>0 DEF JobRow
    <3> HIDE DEF row
    <3> QED
      BY <2>0, <3>1, <3>2
  <2>2. jobs' = [jobs EXCEPT ![k] = row] /\ drainScheduled' = TRUE /\ jobs[k] = NoJob
    BY <1>4 DEF ScheduleNew
  <2> HIDE DEF row
  <2>3. pending[k] = 0 /\ calls[k] = 0
    BY <1>1, <2>2 DEF InPlace, Placed, NoJob
  <2>4. pending' = [pending EXCEPT ![k] = 1]
    BY <1>1, <1>4, <2>3 DEF ScheduleNew, Pushed
  <2>5. Tracked' = Tracked \cup {k}
    BY <1>1, <2>1, <2>2 DEF Tracked
  <2>6. AgeOrders'
    BY <1>1, <1>4, <2>5, AgeRequested DEF ScheduleNew
  <2>7. Placed(row, 1, calls[k]) /\ Covered(row, 1, calls[k], "run")
    BY <2>1, <2>3, LaneAssumption DEF Placed, Covered
  <2> QED
    BY <1>1, <1>2, <1>3, <2>1, <2>2, <2>4, <2>6, <2>7, KeyStep
<1>5. CASE Coalesce(k, p)
  <2> DEFINE high == Max({jobs[k].priority, p})
             row == [jobs[k] EXCEPT !.priority = high,
                                   !.dirty = @ \/ jobs[k].state = "running"]
  <2>1. high \in Priority \cup {0}
    BY <1>1, HighestOfTwo DEF JobRow
  <2> HIDE DEF high
  <2>2. /\ row \in JobRow /\ row.state = jobs[k].state /\ row.attempt = jobs[k].attempt
        /\ row.state = "running" => row.dirty
    BY <1>1, <2>1 DEF JobRow
  <2>3. jobs' = [jobs EXCEPT ![k] = row]
    BY <1>1, <1>5 DEF Coalesce, high
  <2> HIDE DEF row
  <2>4. jobs[k] # NoJob /\ UNCHANGED <<pending, age, drainScheduled>>
    BY <1>5 DEF Coalesce
  <2>5. jobs[k].state # "none"
    BY <1>1, <2>4 DEF InPlace, Placed
  <2>6. row # NoJob
    BY <2>2, <2>5 DEF NoJob
  <2>7. Tracked' = Tracked
    BY <1>1, <2>3, <2>4, <2>6 DEF Tracked
  <2>8. AgeOrders'
    BY <1>1, <2>4, <2>7 DEF AgeOrders
  <2>9. Placed(row, pending[k], calls[k]) /\ Covered(row, pending[k], calls[k], "run")
    BY <1>1, <2>2, <2>5 DEF InPlace, Placed, Covered, JobRow
  <2>10. pending' = [pending EXCEPT ![k] = pending[k]] /\ drainScheduled' \in BOOLEAN
    BY <1>1, <2>4 DEF LaneInv
  <2>11. pending[k] \in Nat /\ calls[k] \in Nat
    BY <1>1
  <2> QED
    BY <1>1, <1>2, <1>3, <2>2, <2>3, <2>8, <2>9, <2>10, <2>11, KeyStep
<1> QED
  BY <1>4, <1>5 DEF Schedule

\* After a run its key is done, waits again or backs off, and the call no longer counts.
LEMMA EndStep ==
    ASSUME LaneInv, NEW k \in Key, Ended(k), SettleIdle, drainScheduled' \in BOOLEAN,
           \/ Release(k)
           \/ Retries(jobs[k]) /\ BackOff(k)
    PROVE  LaneInv'
<1>1. /\ jobs \in [Key -> JobRow] /\ pending \in [Key -> Nat] /\ calls \in [Key -> Nat]
      /\ owed \in [Key -> {"nothing", "run", "settling"}]
      /\ InPlace(k) /\ jobs[k] \in JobRow /\ AgeOrders /\ idleWaiters' \subseteq Waiter
  BY SettlesWaiters DEF LaneInv
<1>2. /\ calls[k] = 1 /\ jobs[k].state = "running" /\ pending[k] = 0
      /\ calls' = [calls EXCEPT ![k] = 0]
      /\ active' = Cardinality(Calling') /\ active' <= Concurrency
  BY CallingEnded
<1>3. k \in Tracked
  BY <1>2 DEF Tracked, NoJob
<1>4. owed[k] = "run" => jobs[k].dirty
  BY <1>2 DEF LaneInv, RequestCovered
<1>5. CASE Requeue(k) /\ owed' = [owed EXCEPT ![k] = IF @ = "settling" THEN "nothing" ELSE @]
  <2> DEFINE row == [jobs[k] EXCEPT !.attempt = 0, !.state = "queued"]
             o == IF owed[k] = "settling" THEN "nothing" ELSE owed[k]
  <2>1. row \in JobRow /\ row.state = "queued" /\ row.attempt = 0
    <3>1. 0 \in 0..MaxRuns
      BY LaneAssumption
    <3> QED
      BY <1>1, <3>1 DEF JobRow
  <2>2. jobs' = [jobs EXCEPT ![k] = row] /\ owed' = [owed EXCEPT ![k] = o]
    BY <1>1, <1>5 DEF Requeue
  <2> HIDE DEF row
  <2>3. o \in {"nothing", "run", "settling"}
    BY <1>1
  <2> HIDE DEF o
  <2>4. pending' = [pending EXCEPT ![k] = 1] /\ Requested(k)
    BY <1>1, <1>2, <1>5 DEF Requeue, Pushed
  <2>5. row # NoJob
    BY <2>1 DEF NoJob
  <2>6. Tracked' = Tracked \cup {k}
    BY <1>1, <2>2, <2>5 DEF Tracked
  <2>7. AgeOrders'
    BY <1>1, <2>4, <2>6, AgeRequested
  <2>8. Placed(row, 1, 0) /\ Covered(row, 1, 0, o)
    BY <2>1, LaneAssumption DEF Placed, Covered
  <2> QED
    BY <1>1, <1>2, <2>1, <2>2, <2>3, <2>4, <2>7, <2>8, KeyStep
<1>6. CASE /\ ~jobs[k].dirty /\ Delete(k)
           /\ owed' = [owed EXCEPT ![k] = IF @ = "settling" THEN "nothing" ELSE @]
  <2>1. owed[k] # "run"
    BY <1>4, <1>6
  <2>2. owed' = [owed EXCEPT ![k] = "nothing"]
    BY <1>1, <1>6, <2>1
  <2>3. NoJob \in JobRow /\ NoJob.state = "none"
    BY LaneAssumption DEF NoJob, JobRow
  <2>4. jobs' = [jobs EXCEPT ![k] = NoJob] /\ age' = Others(k) /\ pending' = pending
    BY <1>6 DEF Delete
  <2>5. pending' = [pending EXCEPT ![k] = 0]
    BY <1>1, <1>2, <2>4
  <2>6. Tracked' = Tracked \ {k}
    BY <1>1, <2>4 DEF Tracked
  <2>7. AgeOrders'
    BY <1>1, <2>4, <2>6, AgeDeleted
  <2>8. Placed(NoJob, 0, 0) /\ Covered(NoJob, 0, 0, "nothing")
    BY <2>3 DEF Placed, Covered
  <2> QED
    BY <1>1, <1>2, <2>2, <2>3, <2>4, <2>5, <2>7, <2>8, KeyStep
<1>7. CASE Retries(jobs[k]) /\ BackOff(k)
  <2> DEFINE row == [jobs[k] EXCEPT !.state = "backoff"]
  <2>1. row \in JobRow /\ row.state = "backoff" /\ row.attempt < MaxRuns
    BY <1>1, <1>7 DEF JobRow, Retries
  <2>2. jobs' = [jobs EXCEPT ![k] = row]
    BY <1>1, <1>7 DEF BackOff
  <2> HIDE DEF row
  <2>3. Requested(k) /\ UNCHANGED <<pending, owed>>
    BY <1>7 DEF BackOff
  <2>4. pending' = [pending EXCEPT ![k] = 0] /\ owed' = [owed EXCEPT ![k] = owed[k]]
    BY <1>1, <1>2, <2>3
  <2>5. owed[k] \in {"nothing", "run", "settling"}
    BY <1>1
  <2>6. row # NoJob
    BY <2>1 DEF NoJob
  <2>7. Tracked' = Tracked \cup {k}
    BY <1>1, <2>2, <2>6 DEF Tracked
  <2>8. AgeOrders'
    BY <1>1, <2>3, <2>7, AgeRequested
  <2>9. Placed(row, 0, 0) /\ Covered(row, 0, 0, owed[k])
    BY <2>1 DEF Placed, Covered
  <2> QED
    BY <1>1, <1>2, <2>1, <2>2, <2>4, <2>5, <2>8, <2>9, KeyStep
<1> QED
  BY <1>5, <1>6, <1>7 DEF Release

LEMMA BackoffStep ==
    ASSUME LaneInv, NEW k \in Key, BackoffElapses(k)
    PROVE  LaneInv'
<1>1. /\ jobs \in [Key -> JobRow] /\ pending \in [Key -> Nat] /\ calls \in [Key -> Nat]
      /\ owed \in [Key -> {"nothing", "run", "settling"}]
      /\ InPlace(k) /\ jobs[k] \in JobRow /\ AgeOrders /\ idleWaiters' \subseteq Waiter
  BY DEF LaneInv, BackoffElapses
<1>2. active' = Cardinality(Calling') /\ active' <= Concurrency
  BY CallingKept DEF BackoffElapses
<1>3. jobs[k].state = "backoff" /\ pending[k] = 0 /\ calls[k] = 0 /\ jobs[k].attempt < MaxRuns
  BY <1>1 DEF BackoffElapses, InPlace, Placed
<1> DEFINE row == [jobs[k] EXCEPT !.state = "queued"]
<1>4. row \in JobRow /\ row.state = "queued" /\ row.attempt < MaxRuns
  BY <1>1, <1>3 DEF JobRow
<1>5. jobs' = [jobs EXCEPT ![k] = row]
  BY <1>1 DEF BackoffElapses
<1> HIDE DEF row
<1>6. /\ pending' = [pending EXCEPT ![k] = 1] /\ calls' = [calls EXCEPT ![k] = 0]
      /\ owed' = [owed EXCEPT ![k] = owed[k]] /\ drainScheduled' \in BOOLEAN
      /\ owed[k] \in {"nothing", "run", "settling"} /\ age' = age
  BY <1>1, <1>3 DEF BackoffElapses, Pushed
<1>7. row # NoJob /\ jobs[k] # NoJob
  BY <1>3, <1>4 DEF NoJob
<1>8. Tracked' = Tracked
  BY <1>1, <1>5, <1>7 DEF Tracked
<1>9. AgeOrders'
  BY <1>1, <1>6, <1>8 DEF AgeOrders
<1>10. Placed(row, 1, 0) /\ Covered(row, 1, 0, owed[k])
  BY <1>4 DEF Placed, Covered
<1> QED
  BY <1>1, <1>2, <1>4, <1>5, <1>6, <1>9, <1>10, KeyStep

LEMMA DrainStep ==
    ASSUME LaneInv, Drain
    PROVE  LaneInv'
<1>1. /\ jobs \in [Key -> JobRow] /\ pending \in [Key -> Nat] /\ calls \in [Key -> Nat]
      /\ owed \in [Key -> {"nothing", "run", "settling"}]
      /\ AgeOrders /\ idleWaiters' \subseteq Waiter /\ drainScheduled' \in BOOLEAN
  BY SettlesWaiters DEF LaneInv, Drain
<1>2. \A k \in Key : InPlace(k) /\ Covered(jobs[k], pending[k], calls[k], owed[k])
  BY DEF LaneInv, RequestCovered, Covered
<1>3. ASSUME NEW k \in Started
      PROVE  /\ k \in Key /\ jobs[k].state = "queued" /\ pending[k] = 1 /\ calls[k] = 0
             /\ jobs[k].attempt < MaxRuns
  <2>1. k \in Key /\ pending[k] > 0
    BY StartedFits DEF Pending
  <2> QED
    BY <1>1, <1>2, <2>1 DEF InPlace, Placed, JobRow, NoJob
<1> DEFINE row(k) == [jobs[k] EXCEPT !.state = "running", !.dirty = FALSE, !.attempt = @ + 1]
<1>4. ASSUME NEW k \in Started
      PROVE  /\ jobs'[k] = row(k) /\ pending'[k] = 0 /\ calls'[k] = 1 /\ owed'[k] = "settling"
             /\ row(k) \in JobRow /\ row(k).state = "running"
  <2>1. jobs'[k] = row(k)
    BY <1>3 DEF Drain
  <2>2. pending'[k] = 0 /\ calls'[k] = 1 /\ owed'[k] = "settling"
    <3>1. pending'[k] = pending[k] - 1 /\ calls'[k] = calls[k] + 1
      BY <1>3 DEF Drain
    <3>2. owed'[k] = "settling"
      BY <1>3 DEF Drain
    <3> QED
      BY <1>3, <3>1, <3>2
  <2>3. jobs[k] \in JobRow /\ jobs[k].attempt + 1 \in 0..MaxRuns
    BY <1>1, <1>3, LaneAssumption DEF JobRow
  <2>4. row(k) \in JobRow /\ row(k).state = "running"
    BY <2>3 DEF JobRow
  <2> QED
    BY <2>1, <2>2, <2>4
<1>5. \A k \in Key \ Started : /\ jobs'[k] = jobs[k] /\ pending'[k] = pending[k]
                              /\ calls'[k] = calls[k] /\ owed'[k] = owed[k]
  BY DEF Drain
<1>6. /\ jobs' = [k \in Key |-> jobs'[k]] /\ pending' = [k \in Key |-> pending'[k]]
      /\ calls' = [k \in Key |-> calls'[k]] /\ owed' = [k \in Key |-> owed'[k]]
  BY DEF Drain
<1> HIDE DEF row
<1>7. ASSUME NEW k \in Key
      PROVE  /\ jobs'[k] \in JobRow /\ pending'[k] \in Nat /\ calls'[k] \in Nat
             /\ owed'[k] \in {"nothing", "run", "settling"}
             /\ InPlace(k)' /\ Covered(jobs'[k], pending'[k], calls'[k], owed'[k])
             /\ jobs'[k] = NoJob <=> jobs[k] = NoJob
  <2>1. CASE k \in Started
    BY <1>3, <1>4, <2>1 DEF InPlace, Placed, Covered, NoJob
  <2>2. CASE k \notin Started
    BY <1>1, <1>2, <1>5, <2>2 DEF InPlace
  <2> QED
    BY <2>1, <2>2
<1>8. /\ jobs' \in [Key -> JobRow] /\ pending' \in [Key -> Nat] /\ calls' \in [Key -> Nat]
      /\ owed' \in [Key -> {"nothing", "run", "settling"}]
  BY <1>6, <1>7
<1>9. RequestCovered'
  BY <1>7 DEF RequestCovered, Covered
<1>10. AgeOrders'
  <2>1. Tracked' = Tracked /\ age' = age
    BY <1>7 DEF Tracked, Drain
  <2> QED
    BY <1>1, <2>1 DEF AgeOrders
<1>11. active' = Cardinality(Calling') /\ active' <= Concurrency
  <2>1. Calling' = Calling \cup Started
    BY <1>1, <1>3, <1>4, <1>5 DEF Calling
  <2>2. Calling \cap Started = {}
    BY <1>3 DEF Calling
  <2>3. IsFiniteSet(Calling) /\ IsFiniteSet(Started)
    BY FinitelyMany, StartedFits DEF Calling
  <2>4. Cardinality(Calling') = Cardinality(Calling) + Cardinality(Started) - Cardinality(Calling \cap Started)
    BY <2>1, <2>3, FS_Union
  <2>5. Cardinality(Calling \cap Started) = 0
    BY <2>2, FS_EmptySet
  <2>6. Cardinality(Calling) \in Nat /\ Cardinality(Started) \in Nat
    BY <2>3, FS_CardinalityType
  <2>7. active' = active + Cardinality(Started) /\ active = Cardinality(Calling)
    BY DEF Drain, LaneInv
  <2> QED
    BY <2>4, <2>5, <2>6, <2>7, StartedFits
<1> QED
  BY <1>1, <1>7, <1>8, <1>9, <1>10, <1>11 DEF LaneInv

LEMMA LaneNextInv == LaneInv /\ [LaneNext]_laneVars => LaneInv'
<1> SUFFICES ASSUME LaneInv, [LaneNext]_laneVars PROVE LaneInv'
  OBVIOUS
<1>1. ASSUME NEW k \in Key, NEW p \in Priority, Schedule(k, p) PROVE LaneInv'
  BY <1>1, ScheduleStep
<1>2. CASE Drain
  BY <1>2, DrainStep
<1>3. ASSUME NEW k \in Key, WorkerSucceeds(k) \/ WorkerFails(k) PROVE LaneInv'
  <2>1. Ended(k) /\ SettleIdle /\ (Release(k) \/ (Retries(jobs[k]) /\ BackOff(k)))
    BY <1>3 DEF WorkerSucceeds, WorkerFails
  <2>2. drainScheduled' \in BOOLEAN
    BY <2>1 DEF Release, BackOff, LaneInv
  <2> QED
    BY <2>1, <2>2, EndStep
<1>4. ASSUME NEW k \in Key, BackoffElapses(k) PROVE LaneInv'
  BY <1>4, BackoffStep
<1>5. ASSUME UNCHANGED <<jobs, pending, calls, active, age, drainScheduled, owed>>, idleWaiters' \subseteq Waiter
      PROVE  LaneInv'
  <2>1. \A k \in Key : InPlace(k)'
    BY <1>5 DEF LaneInv, InPlace
  <2>2. active' = Cardinality(Calling') /\ active' <= Concurrency
    BY <1>5, CallingKept
  <2>3. AgeOrders' /\ RequestCovered'
    BY <1>5 DEF LaneInv, AgeOrders, Tracked, RequestCovered
  <2> QED
    BY <1>5, <2>1, <2>2, <2>3 DEF LaneInv
<1>6. ASSUME NEW w \in Waiter, WhenIdle(w) PROVE LaneInv'
  BY <1>5, <1>6 DEF WhenIdle, LaneInv
<1>7. CASE UNCHANGED laneVars
  BY <1>5, <1>7 DEF laneVars, LaneInv
<1> QED
  BY <1>1, <1>2, <1>3, <1>4, <1>6, <1>7 DEF LaneNext, Advances

\* Jobs, counts and the drain's order agree in every state (schedule, drain, run and whenIdle).
THEOREM LaneInvariant == LaneSpec => []LaneInv
<1> QED
  BY LaneInitInv, LaneNextInv, PTL DEF LaneSpec

\* Keys and slots are exclusive for any keys and limits: a key waits or runs at most once, and the
\* lane runs no more keys than its concurrency.
THEOREM LaneIsSafe == LaneSpec => []LaneSafe
<1>1. LaneInv => LaneSafe
  <2> SUFFICES ASSUME LaneInv PROVE LaneSafe
    OBVIOUS
  <2>1. LaneTypeOK
    BY DEF LaneInv, AgeOrders, LaneTypeOK, JobRow
  <2>2. ASSUME NEW k \in Key PROVE calls[k] + pending[k] <= 1
    <3>1. jobs[k] \in JobRow /\ InPlace(k)
      BY DEF LaneInv
    <3> QED
      BY <3>1 DEF InPlace, Placed, JobRow
  <2>3. Cardinality({k \in Key : calls[k] > 0}) <= Concurrency
    BY DEF LaneInv, Calling
  <2> QED
    BY <2>1, <2>2, <2>3 DEF LaneSafe, KeyExclusive
<1> QED
  BY <1>1, LaneInvariant, PTL

\* No request is lost to coalescing, whatever runs, fails and backs off meanwhile.
THEOREM LaneCoversRequests == LaneSpec => []RequestCovered
<1>1. LaneInv => RequestCovered
  BY DEF LaneInv
<1> QED
  BY <1>1, LaneInvariant, PTL

\* whenIdle resolves only when every request made so far has been done with.
THEOREM LaneIdleIsBarrier == LaneSpec => IdleMeansDone
<1>1. ASSUME LaneInv, LaneInv', [LaneNext]_laneVars
      PROVE  [idleWaiters \subseteq idleWaiters' \/ \A k \in Key : owed'[k] = "nothing"]_laneVars
  <2>1. ASSUME SettleIdle
        PROVE  idleWaiters \subseteq idleWaiters' \/ \A k \in Key : owed'[k] = "nothing"
    <3> SUFFICES ASSUME LaneIdle', NEW k \in Key PROVE owed'[k] = "nothing"
      BY <2>1 DEF SettleIdle
    <3>1. jobs'[k] = NoJob /\ pending'[k] = 0
      BY DEF LaneIdle
    <3>2. InPlace(k)'
      BY <1>1 DEF LaneInv
    <3>3. calls'[k] = 0 /\ jobs'[k].state = "none"
      BY <3>1, <3>2 DEF InPlace, Placed, NoJob
    <3> QED
      BY <1>1, <3>1, <3>3 DEF LaneInv, RequestCovered
  <2>2. CASE LaneNext
    BY <2>1, <2>2 DEF LaneNext, Advances, Schedule, Drain, WorkerSucceeds, WorkerFails,
                      BackoffElapses, WhenIdle
  <2> QED
    BY <1>1, <2>2
<1> QED
  BY <1>1, LaneInvariant, PTL DEF LaneSpec, IdleMeansDone

===============================================================================
