---------------------------- MODULE BoundedBacklog ----------------------------
(***************************************************************************)
(* One bounded run over the face-detection backlog: it schedules missing   *)
(* work up to its limit, lets several worker loops take jobs from the      *)
(* shared queue until the limit is issued or the queue has nothing for     *)
(* them, waits for every loop to settle and sums the run up in one state.  *)
(*                                                                         *)
(* Meanwhile the operator pauses and resumes the queue, synchronisation    *)
(* suspends images, rival workers take jobs from the same queue, and loops *)
(* crash.                                                                  *)
(*                                                                         *)
(* The queue is reduced to what a loop sees of it: the ledger is modelled  *)
(* by MediaJobLedger, and the steps inside an attempt by DetectionQueue.   *)
(* Left out: priority tiers, timings, the counts of faces.                 *)
(***************************************************************************)
EXTENDS Integers, FiniteSets, FiniteSetsExt

CONSTANTS
    Image,          \* active images without a detection result
    Waiting,        \* those that have a job when the run begins
    Loop,           \* the worker loops of the run
    Limit,          \* limitJobs
    Batch,          \* jobs one scheduling call may ensure (10,000)
    Attempts,       \* attempts of a job
    Rival,          \* a worker outside the run
    NoOne,
    MaxMeddling     \* bound on pauses, suspensions and claims from outside the run

ASSUME BacklogAssumption ==
    /\ IsFiniteSet(Image) /\ Waiting \subseteq Image /\ IsFiniteSet(Loop) /\ Loop # {}
    /\ Limit \in Nat \ {0} /\ Batch \in Nat \ {0} /\ Attempts \in Nat \ {0}
    /\ Rival \notin Loop /\ NoOne \notin Loop \cup {Rival}
    /\ MaxMeddling \in Nat

VARIABLES
    work,           \* [Image -> state of its job, attempts so far, who is at it]
    gate,           \* the operator's control of the queue
    phase,          \* of the run
    budget,         \* jobs the run may still schedule
    issued,         \* calls of runNext so far
    loop,           \* [Loop -> how far it is, and with which image]
    sawPause,       \* a loop ended because the queue is paused
    summary,        \* attempts by their outcome
    report,         \* the state the run reports
    taken,          \* claims of this run (history)
    done,           \* images this run completed (history)
    meddling        \* what others did meanwhile

backlogVars == <<work, gate, phase, budget, issued, loop, sawPause, summary, report, taken, done,
                 meddling>>
runVars == <<phase, budget, report>>

-------------------------------------------------------------------------------

Free == [pc |-> "free", image |-> NoOne]

BacklogInit ==
    /\ work = [i \in Image |-> [state |-> IF i \in Waiting THEN "pending" ELSE "missing",
                                tries |-> 0, by |-> NoOne]]
    /\ gate \in {"running", "paused"}
    /\ phase = "scheduling" /\ budget = Limit /\ issued = 0
    /\ loop = [l \in Loop |-> Free]
    /\ sawPause = FALSE
    /\ summary = [completed |-> 0, failed |-> 0, retryPending |-> 0]
    /\ report = "none"
    /\ taken = 0 /\ done = {} /\ meddling = 0

In(state) == {i \in Image : work[i].state = state}

\* What becomes of an image when an attempt at it is lost.
GivenBack(row) ==
    [row EXCEPT !.state = IF row.tries >= Attempts THEN "failed" ELSE "pending", !.by = NoOne]

-------------------------------------------------------------------------------
(* Scheduling *)

\* Images without a job get one, as many as budget and batch admit; the run goes on when its
\* budget is used up or nothing was missing.
Schedule ==
    /\ phase = "scheduling"
    /\ \E missing \in SUBSET In("missing") :
        /\ Cardinality(missing) = Min({budget, Batch, Cardinality(In("missing"))})
        /\ work' = [i \in Image |-> IF i \in missing THEN [work[i] EXCEPT !.state = "pending"]
                                    ELSE work[i]]
        /\ budget' = budget - Cardinality(missing)
        /\ phase' = IF missing = {} \/ budget' = 0 THEN "working" ELSE "scheduling"
    /\ UNCHANGED <<gate, issued, loop, sawPause, summary, report, taken, done, meddling>>

-------------------------------------------------------------------------------
(* A worker loop *)

Moves(l, pc) == loop' = [loop EXCEPT ![l] = [Free EXCEPT !.pc = pc]]

\* The limit is tested and counted before anything is awaited.
AskNext(l) ==
    /\ phase = "working" /\ loop[l].pc = "free"
    /\ \/ /\ issued < Limit
          /\ issued' = issued + 1
          /\ Moves(l, "asking")
       \/ /\ issued >= Limit
          /\ Moves(l, "returned")
          /\ UNCHANGED issued
    /\ UNCHANGED <<work, gate, runVars, sawPause, summary, taken, done, meddling>>

ReadGate(l) ==
    /\ loop[l].pc = "asking"
    /\ Moves(l, IF gate = "paused" THEN "returned" ELSE "admitted")
    /\ sawPause' = (sawPause \/ gate = "paused")
    /\ UNCHANGED <<work, gate, runVars, issued, summary, taken, done, meddling>>

\* The next pending job, or an idle queue, which ends the loop.  A queue that was paused since the
\* loop read the gate looks idle, too.
ClaimNext(l) ==
    /\ loop[l].pc = "admitted"
    /\ \/ \E i \in In("pending") :
            /\ work' = [work EXCEPT ![i] = [state |-> "processing", tries |-> @.tries + 1, by |-> l]]
            /\ loop' = [loop EXCEPT ![l] = [pc |-> "busy", image |-> i]]
            /\ taken' = taken + 1
       \/ /\ In("pending") = {}
          /\ Moves(l, "returned")
          /\ UNCHANGED <<work, taken>>
    /\ UNCHANGED <<gate, runVars, issued, sawPause, summary, done, meddling>>

Tallied(l, outcome) ==
    /\ summary' = [summary EXCEPT ![outcome] = @ + 1]
    /\ Moves(l, "free")
    /\ UNCHANGED <<gate, runVars, issued, sawPause, taken, meddling>>

HasImage(l) == loop[l].pc = "busy" /\ work[loop[l].image].by = l

Completes(l) ==
    /\ HasImage(l)
    /\ work' = [work EXCEPT ![loop[l].image] = [@ EXCEPT !.state = "completed", !.by = NoOne]]
    /\ done' = done \cup {loop[l].image}
    /\ Tallied(l, "completed")

Fails(l) ==
    /\ HasImage(l)
    /\ work' = [work EXCEPT ![loop[l].image] = GivenBack(@)]
    /\ Tallied(l, IF work'[loop[l].image].state = "failed" THEN "failed" ELSE "retryPending")
    /\ UNCHANGED done

\* The job is no longer this worker's: neither a result nor a failure is accepted for it, and the
\* attempt counts as one that will be repeated.
FindsItGone(l) ==
    /\ loop[l].pc = "busy" /\ ~HasImage(l)
    /\ Tallied(l, "retryPending")
    /\ UNCHANGED <<work, done>>

\* A statement outside the attempt throws and ends the loop; what it had stays leased.
LoopDies(l) ==
    /\ loop[l].pc \in {"asking", "admitted", "busy"} /\ meddling < MaxMeddling
    /\ meddling' = meddling + 1
    /\ loop' = [loop EXCEPT ![l].pc = "dead"]
    /\ UNCHANGED <<work, gate, runVars, issued, sawPause, summary, taken, done>>

-------------------------------------------------------------------------------
(* The report *)

Dead == {l \in Loop : loop[l].pc = "dead"}

BacklogState ==
    IF sawPause THEN "paused"
    ELSE IF summary.failed > 0 \/ Dead # {} THEN "bounded_run_complete_with_failures"
    ELSE IF summary.retryPending > 0 THEN "bounded_run_complete_with_retries"
    ELSE "bounded_run_complete"

Settles(l) == loop[l].pc \in {"returned", "dead"}

ReportAtFirstFailure ==
    /\ phase = "working" /\ ((\A l \in Loop : Settles(l)) \/ Dead # {})
    /\ phase' = "over" /\ report' = BacklogState
    /\ UNCHANGED <<work, gate, budget, issued, loop, sawPause, summary, taken, done, meddling>>
Report ==
    /\ phase = "working" /\ \A l \in Loop : Settles(l)
    /\ phase' = "over" /\ report' = BacklogState
    /\ UNCHANGED <<work, gate, budget, issued, loop, sawPause, summary, taken, done, meddling>>

-------------------------------------------------------------------------------
(* Meanwhile *)

Meddles == meddling < MaxMeddling /\ meddling' = meddling + 1
RunUnchanged == UNCHANGED <<runVars, issued, loop, sawPause, summary, taken, done>>

StopQueue ==
    /\ gate = "running" /\ Meddles
    /\ gate' = "paused"
    /\ work' = [i \in Image |-> IF work[i].state = "pending"
                                THEN [work[i] EXCEPT !.state = "stopped"] ELSE work[i]]
    /\ RunUnchanged

OpenQueue ==
    /\ gate = "paused" /\ Meddles
    /\ gate' = "running"
    /\ work' = [i \in Image |-> IF work[i].state = "stopped"
                                THEN [work[i] EXCEPT !.state = "pending"] ELSE work[i]]
    /\ RunUnchanged

\* Its revision is superseded: the job is paused for good.
Withdraw(i) ==
    /\ work[i].state \in {"pending", "processing"} /\ Meddles
    /\ work' = [work EXCEPT ![i] = [@ EXCEPT !.state = "withdrawn", !.by = NoOne]]
    /\ UNCHANGED gate /\ RunUnchanged

RivalClaims(i) ==
    /\ work[i].state = "pending" /\ Meddles
    /\ work' = [work EXCEPT ![i] = [state |-> "processing", tries |-> @.tries + 1, by |-> Rival]]
    /\ UNCHANGED gate /\ RunUnchanged

\* A rival completes its job or gives it back; a lease nobody lives for is swept.
RivalEnds(i) ==
    /\ work[i].by \in {Rival} \cup Dead
    /\ \/ work' = [work EXCEPT ![i] = GivenBack(@)]
       \/ /\ work[i].by = Rival
          /\ work' = [work EXCEPT ![i] = [@ EXCEPT !.state = "completed", !.by = NoOne]]
    /\ UNCHANGED <<gate, meddling>> /\ RunUnchanged

BacklogNext ==
    \/ Schedule \/ Report
    \/ \E l \in Loop :
          \/ AskNext(l) \/ ReadGate(l) \/ ClaimNext(l) \/ Completes(l) \/ Fails(l) \/ FindsItGone(l)
          \/ LoopDies(l)
    \/ StopQueue \/ OpenQueue
    \/ \E i \in Image : Withdraw(i) \/ RivalClaims(i) \/ RivalEnds(i)

BacklogSpec == BacklogInit /\ [][BacklogNext]_backlogVars

-------------------------------------------------------------------------------
(* Properties *)

BacklogTypeOK ==
    /\ work \in [Image -> [state : {"missing", "pending", "processing", "completed", "failed",
                                    "stopped", "withdrawn"},
                           tries : 0..Attempts, by : Loop \cup {Rival, NoOne}]]
    /\ gate \in {"running", "paused"}
    /\ phase \in {"scheduling", "working", "over"}
    /\ budget \in 0..Limit /\ issued \in 0..Limit
    /\ loop \in [Loop -> [pc : {"free", "asking", "admitted", "busy", "returned", "dead"},
                          image : Image \cup {NoOne}]]
    /\ sawPause \in BOOLEAN
    /\ summary \in [{"completed", "failed", "retryPending"} -> Nat]
    /\ report \in {"none", "paused", "bounded_run_complete", "bounded_run_complete_with_failures",
                   "bounded_run_complete_with_retries"}
    /\ taken \in Nat /\ done \subseteq Image /\ meddling \in 0..MaxMeddling

\* The loops share one limit: together they never claim more jobs than the run was given, however
\* their calls overlap.  And the report comes last: no loop is at work when the run is over, and the
\* summary accounts for every claim, but those of the loops that died.
ReportIsFinal ==
    /\ taken <= Limit
    /\ phase = "over" =>
        /\ \A i \in Image : work[i].by \in Loop => work[i].by \in Dead
        /\ summary.completed = Cardinality(done)
        /\ taken - (summary.completed + summary.failed + summary.retryPending) \in 0..Cardinality(Dead)

\* A clean report is earned: every claim of the run was completed; and, unless others had a hand in
\* the queue, the run did as many jobs as it was asked for, or all there were.
CleanReportEarned ==
    report = "bounded_run_complete" =>
        /\ taken = Cardinality(done)
        /\ meddling = 0 /\ gate = "running" =>
              Cardinality(done) = Min({Limit, Cardinality(Image)})

\* The run's report is final, and a clean one earned.
ReportSound == ReportIsFinal /\ CleanReportEarned
===============================================================================
