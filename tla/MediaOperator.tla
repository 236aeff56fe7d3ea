---------------------------- MODULE MediaOperator ----------------------------
(***************************************************************************)
(* The media operator: durable pause, resume and run commands over the     *)
(* media-job queue.  A command is a row of media_operator_command, leased  *)
(* to the process that executes it; a client that got no answer repeats    *)
(* its request under the same commandId.                                   *)
(*                                                                         *)
(* A call is one execution of execute(): it begins (or finds) the command  *)
(* in one transaction, takes effect in others and records the outcome in   *)
(* yet another.  The process can die, or the lease run out, between them.  *)
(*                                                                         *)
(* Left out: a commandId reused with another request (409, nothing         *)
(* written), the envelope, and the work of a run, whose jobs are executed  *)
(* by the worker of DetectionQueue; here the ledger just moves on.         *)
(***************************************************************************)
EXTENDS MediaJobLedger

CONSTANTS
    Command,        \* command identifiers
    KindOf,         \* the kind each identifier is bound to
    Call,           \* calls of execute(), each made once
    Process,        \* process names (command lease_owner values)
    ProcessOf,      \* the process that serves each call
    CommandTicks    \* duration of a command lease

ASSUME OperatorAssumption ==
    /\ KindOf \in [Command -> {"pause", "resume", "run"}]
    /\ ProcessOf \in [Call -> Process]
    /\ CommandTicks \in Nat \ {0}
    /\ None \notin Command \cup Call \cup Process

VARIABLES
    control,    \* media_operator_control.state
    command,    \* [Command -> its media_operator_command row]
    call,       \* [Call -> how far it has come, for which command, and its answer]
    applied     \* [Command -> how often its effect was committed] (history)

operatorVars == <<ledgerVars, control, command, call, applied>>

-----------------------------------------------------------------------------

NoCommand == [state |-> "absent", owner |-> None, lease |-> 0, response |-> None]

NewCall == [pc |-> "new", command |-> None, answer |-> None]

OperatorInit ==
    /\ LedgerInit
    /\ control = "running"
    /\ command = [c \in Command |-> NoCommand]
    /\ call = [x \in Call |-> NewCall]
    /\ applied = [c \in Command |-> 0]

Kind(x) == KindOf[call[x].command]
CommandRow(x) == command[call[x].command]

Goes(x, pc) == call' = [call EXCEPT ![x].pc = pc]

\* The call returns, with the stored response it read or wrote, or with an error (None).
Answers(x, c, answer) ==
    call' = [call EXCEPT ![x] = [pc |-> "done", command |-> c, answer |-> answer]]

-----------------------------------------------------------------------------
(* begin *)

Final == {"completed", "failed"}

Held(x) ==
    [state |-> "processing", owner |-> ProcessOf[x], lease |-> CommandTicks, response |-> None]

\* A new command is inserted, one whose lease ran out is taken over, a finished one is replayed,
\* a running one is refused (409).
Begin(x, c) ==
    /\ call[x].pc = "new"
    /\ \/ /\ command[c].state = "absent" \/ (command[c].state = "processing" /\ command[c].lease = 0)
          /\ command' = [command EXCEPT ![c] = Held(x)]
          /\ call' = [call EXCEPT ![x] = [pc |-> "begun", command |-> c, answer |-> None]]
       \/ /\ command[c].state \in Final
          /\ Answers(x, c, command[c].response)
          /\ UNCHANGED command
       \/ /\ command[c].state = "processing" /\ command[c].lease > 0
          /\ Answers(x, c, None)
          /\ UNCHANGED command
    /\ UNCHANGED <<ledgerVars, control, applied>>

-----------------------------------------------------------------------------
(* The effect *)

Applied(x) ==
    /\ applied' = [applied EXCEPT ![call[x].command] = @ + 1]
    /\ Goes(x, "applied")
    /\ UNCHANGED <<asset, receipt, requeued, command>>

Pause(x) ==
    /\ call[x].pc = "begun" /\ Kind(x) = "pause"
    /\ control' = "paused"
    /\ OperatorPauseJobs
    /\ Applied(x)

Resume(x) ==
    /\ call[x].pc = "begun" /\ Kind(x) = "resume"
    /\ control' = "running"
    /\ OperatorResumeJobs
    /\ Applied(x)

\* A run on a paused queue does nothing and says so.
ReadControl(x) ==
    /\ call[x].pc = "begun" /\ Kind(x) = "run"
    /\ Goes(x, IF control = "paused" THEN "applied" ELSE "working")
    /\ UNCHANGED <<ledgerVars, control, command, applied>>

Work(x) ==
    /\ call[x].pc = "working"
    /\ Applied(x)
    /\ UNCHANGED <<job, control>>

\* A stage is not configured, a statement fails, or its commit is not acknowledged.
Throws(x) ==
    /\ call[x].pc \in {"begun", "working", "applied"}
    /\ Goes(x, "failing")
    /\ UNCHANGED <<ledgerVars, control, command, applied>>

-----------------------------------------------------------------------------
(* finish and fail *)

\* The row is written only by the process that holds it, while it is still being processed.
Holds(x) == CommandRow(x).state = "processing" /\ CommandRow(x).owner = ProcessOf[x]

Ended(state, response) ==
    [state |-> state, owner |-> None, lease |-> 0, response |-> response]

Finish(x) ==
    /\ call[x].pc = "applied"
    /\ Holds(x)
    /\ command' = [command EXCEPT ![call[x].command] = Ended("completed", x)]
    /\ Answers(x, call[x].command, x)
    /\ UNCHANGED <<ledgerVars, control, applied>>

\* The lease is another's by now, or the statement fails.  execute() returns the promise of
\* finish() unawaited, so no failure is recorded for the command.
FinishThrows(x) ==
    /\ call[x].pc = "applied"
    /\ Answers(x, call[x].command, None)
    /\ UNCHANGED <<ledgerVars, control, command, applied>>

\* The error is rethrown whether or not the row was still this process's.
RecordFailureHeedless(x) ==
    /\ call[x].pc = "failing"
    /\ command' = [command EXCEPT ![call[x].command] = Ended("failed", x)]
    /\ Answers(x, call[x].command, None)
    /\ UNCHANGED <<ledgerVars, control, applied>>
RecordFailure(x) ==
    /\ call[x].pc = "failing"
    /\ command' = [command EXCEPT ![call[x].command] = IF Holds(x) THEN Ended("failed", x) ELSE @]
    /\ Answers(x, call[x].command, None)
    /\ UNCHANGED <<ledgerVars, control, applied>>

-----------------------------------------------------------------------------

\* A process dies with every call it serves, and comes back under the same name or another.
Crash(p) ==
    /\ \E x \in Call : ProcessOf[x] = p /\ call[x].pc \notin {"new", "done"}
    /\ call' = [x \in Call |-> IF ProcessOf[x] = p /\ call[x].pc # "new"
                               THEN [call[x] EXCEPT !.pc = "done"] ELSE call[x]]
    /\ UNCHANGED <<ledgerVars, control, command, applied>>

CommandTick ==
    /\ \E c \in Command : command[c].lease > 0
    /\ command' = [c \in Command |-> IF command[c].lease > 0
                                     THEN [command[c] EXCEPT !.lease = @ - 1] ELSE command[c]]
    /\ UNCHANGED <<ledgerVars, control, call, applied>>

\* Inventory, workers and time go on meanwhile.
QueueMoves ==
    /\ \/ \E j \in Job, limit \in AttemptLimits : Enqueue(j, limit)
       \/ \E j \in Job, code \in SuspendCode : Suspend(j, code)
       \/ \E w \in Worker, j \in Job : ClaimProviderJob(w, j)
       \/ \E w \in Worker, j \in Job, code \in WorkerCode : Fail(w, j, code)
       \/ Tick
    /\ UNCHANGED <<control, command, call, applied>>

OperatorNext ==
    \/ \E x \in Call, c \in Command : Begin(x, c)
    \/ \E x \in Call :
          \/ Pause(x) \/ Resume(x) \/ ReadControl(x) \/ Work(x) \/ Throws(x)
          \/ Finish(x) \/ FinishThrows(x) \/ RecordFailure(x)
    \/ \E p \in Process : Crash(p)
    \/ CommandTick
    \/ QueueMoves

OperatorSpec == OperatorInit /\ [][OperatorNext]_operatorVars

-----------------------------------------------------------------------------
(* Properties *)

\* The table's CHECK: a command is leased exactly while it is processed and has its response
\* exactly when it is over.  0035_media_operator_control_v1.sql:34-44.
CommandRowsConsistent ==
    \A c \in Command :
        /\ command[c].state = "processing" <=> command[c].owner # None
        /\ command[c].state \in Final <=> command[c].response # None

OperatorTypeOK ==
    /\ LedgerTypeOK
    /\ control \in {"running", "paused"}
    /\ command \in [Command -> [state : {"absent", "processing"} \cup Final,
                                owner : Process \cup {None}, lease : 0..CommandTicks,
                                response : Call \cup {None}]]
    /\ CommandRowsConsistent
    /\ call \in [Call -> [pc : {"new", "begun", "working", "applied", "failing", "done"},
                          command : Command \cup {None}, answer : Call \cup {None}]]
    /\ applied \in [Command -> Nat]

\* Whoever is answered is told the same: the outcome that is stored, by the first call that ended
\* the command, whichever calls of it overlapped, died or came too late.
AnswersAgree ==
    \A x \in Call : call[x].answer # None => call[x].answer = CommandRow(x).response

\* Nothing stays paused by the operator on a running queue: control and jobs change together, and
\* what inventory and workers do to a job meanwhile never leaves the mark behind.
NothingStranded ==
    control = "running" => \A j \in Job : job[j].error # "OPERATOR_PAUSED"

\* What a command is answered is what is stored of it, and what it does it does to control and jobs.
OperatorSound == AnswersAgree /\ NothingStranded

-----------------------------------------------------------------------------
(* What the documentation says, and the code does not do *)

\* "replay is idempotent": a command whose effect was committed before does not move the control
\* again.  service/README.md:659.
ReplayIdempotent ==
    [][\A c \in Command : applied[c] > 0 /\ applied'[c] # applied[c] => control' = control]_operatorVars
=============================================================================
