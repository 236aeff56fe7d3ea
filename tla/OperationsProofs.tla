-------------------------- MODULE OperationsProofs --------------------------
(***************************************************************************)
(* What is proved of the operator's commands, of the starts that migrate   *)
(* the database, of the requests that correct faces, and of a bounded run  *)
(* over the backlog.                                                       *)
(***************************************************************************)
EXTENDS MCOperations, MediaJobLedgerProofs,
        SequenceTheorems, FiniteSetTheorems

-----------------------------------------------------------------------------
(***************************************************************************)
(* Safety of the operator's commands for every number of commands, calls,  *)
(* processes and jobs.  What the operator does to the queue are steps of   *)
(* the ledger, so the ledger's invariant comes for nothing; on top of it   *)
(* the outcome of a command never changes once somebody was told, and the  *)
(* mark of an operator pause and the control go together.                  *)
(***************************************************************************)

\* The operator and everybody else of this module move the ledger by its own steps.
LEMMA StepsOfLedger == [OperatorNext]_operatorVars => [LedgerNext]_ledgerVars
  <1> SUFFICES ASSUME OperatorNext, ~UNCHANGED ledgerVars PROVE LedgerNext
    BY DEF operatorVars
  <1>1. ASSUME NEW x \in Call, Pause(x) PROVE LedgerNext
    BY <1>1 DEF Pause, Applied, OperatorPause, LedgerNext
  <1>2. ASSUME NEW x \in Call, Resume(x) PROVE LedgerNext
    BY <1>2 DEF Resume, Applied, OperatorResume, LedgerNext
  <1>3. CASE QueueMoves
    <2>1. ASSUME NEW j \in Job, NEW limit \in AttemptLimits, Enqueue(j, limit) PROVE LedgerNext
      BY <2>1 DEF LedgerNext
    <2>2. ASSUME NEW j \in Job, NEW code \in SuspendCode, Suspend(j, code) PROVE LedgerNext
      BY <2>2 DEF LedgerNext
    <2>3. ASSUME NEW w \in Worker, NEW j \in Job, ClaimProviderJob(w, j) PROVE LedgerNext
      BY <2>3 DEF LedgerNext, Claim
    <2>4. ASSUME NEW w \in Worker, NEW j \in Job, NEW code \in WorkerCode, Fail(w, j, code)
          PROVE  LedgerNext
      BY <2>4 DEF LedgerNext
    <2>5. CASE Tick
      BY <2>5 DEF LedgerNext
    <2> QED BY <1>3, <2>1, <2>2, <2>3, <2>4, <2>5 DEF QueueMoves
  <1>4. ASSUME NEW x \in Call, \E c \in Command : Begin(x, c) PROVE UNCHANGED ledgerVars
    BY <1>4 DEF Begin
  <1>5. ASSUME NEW x \in Call,
               \/ ReadControl(x) \/ Throws(x) \/ Finish(x) \/ FinishThrows(x) \/ RecordFailure(x)
        PROVE  UNCHANGED ledgerVars
    BY <1>5 DEF ReadControl, Throws, Finish, FinishThrows, RecordFailure
  <1>6. ASSUME NEW x \in Call, Work(x) PROVE UNCHANGED ledgerVars
    BY <1>6 DEF Work, Applied, ledgerVars
  <1>7. ASSUME (\E p \in Process : Crash(p)) \/ CommandTick PROVE UNCHANGED ledgerVars
    BY <1>7 DEF Crash, CommandTick
  <1> QED BY <1>1, <1>2, <1>3, <1>4, <1>5, <1>6, <1>7 DEF OperatorNext

\* The operator's system implements the ledger: whatever is proved of the ledger holds in it.
THEOREM OperatorImplementsLedger == OperatorSpec => LedgerSpec
  <1>1. OperatorInit => LedgerInit
    BY DEF OperatorInit
  <1> QED BY <1>1, StepsOfLedger, PTL DEF OperatorSpec, LedgerSpec

\* The ledger's inductive invariant therefore holds here.
LEMMA LedgerInvHere == OperatorSpec => []LedgerInv
  BY OperatorImplementsLedger, LedgerInvariant, PTL

-----------------------------------------------------------------------------
(* The mark of an operator pause *)

Mark == "OPERATOR_PAUSED"

\* The mark is on paused jobs of a paused queue only.
MarkMeansPaused ==
    \A j \in Job : job[j].error = Mark => job[j].state = "paused" /\ control = "paused"

\* Whatever else moves the queue puts the mark on no job, and leaves the marked ones as they are
\* or removes their mark.
LEMMA QueueMovesMarkNothing ==
    ASSUME LedgerInv, MarkMeansPaused, QueueMoves, NEW k \in Job, job'[k].error = Mark
    PROVE  job'[k] = job[k]
  <1> USE DEF LedgerInv, LedgerTypeOK, Mark
  <1>1. job[k] \in JobRow /\ job = [j \in Job |-> job[j]]
    OBVIOUS
  <1>2. None # Mark
    BY NoneAssumption DEF ErrorCode
  <1>3. \A e : AttemptLost(job[k], e).error = e /\ Suspended(job[k], e).error = e
    BY <1>1 DEF AttemptLost, Suspended, Unleased, JobRow
  <1>4. ASSUME NEW j \in Job, NEW limit \in AttemptLimits, Enqueue(j, limit)
        PROVE  job'[k] = job[k]
    <2>1. CASE k = j
      <3>1. job'[k] = EnqueuedRow(k, limit)
        BY <1>4, <2>1 DEF Enqueue
      <3>2. NewRow(limit).error = None
        BY DEF NewRow, NoRow
      <3>3. [Resumed(job[k]) EXCEPT !.limit = limit].error = None
        BY <1>1 DEF Resumed, JobRow
      <3>4. Reopened(job[k], limit).error = "RESULT_RECEIPT_INVALID"
        BY <1>1 DEF Reopened, JobRow
      <3>5. \/ EnqueuedRow(k, limit) = NewRow(limit)
            \/ EnqueuedRow(k, limit) = [Resumed(job[k]) EXCEPT !.limit = limit]
            \/ EnqueuedRow(k, limit) = Reopened(job[k], limit)
            \/ EnqueuedRow(k, limit) = job[k]
        BY SMT DEF EnqueuedRow
      <3> QED BY <3>1, <3>2, <3>3, <3>4, <3>5, <1>2
    <2> QED BY <1>4, <2>1, <1>1 DEF Enqueue
  <1>5. ASSUME NEW j \in Job, NEW code \in SuspendCode, Suspend(j, code) PROVE job'[k] = job[k]
    BY <1>5, <1>3 DEF Suspend, SuspendJobs, SuspendCode
  <1>6. ASSUME NEW w \in Worker, NEW j \in Job, ClaimProviderJob(w, j) PROVE job'[k] = job[k]
    <2>1. job'[k] = IF k = j THEN Leased(Swept[k], w) ELSE Swept[k]
      BY <1>6 DEF ClaimProviderJob, Swept
    <2>2. Swept[k] \in JobRow
      BY SweptFits DEF Row
    <2>3. Leased(Swept[k], w).error = None
      BY <2>2 DEF Leased, JobRow
    <2>4. Swept[k] = job[k] \/ Swept[k].error = "WORKER_LEASE_EXPIRED"
      BY <1>3 DEF Swept
    <2> QED BY <2>1, <2>3, <2>4, <1>2
  <1>7. ASSUME NEW w \in Worker, NEW j \in Job, NEW code \in WorkerCode, Fail(w, j, code)
        PROVE  job'[k] = job[k]
    <2>1. job'[k] = IF k = j THEN AttemptLost(job[k], code) ELSE job[k]
      BY <1>7, <1>1 DEF Fail
    <2> QED BY <2>1, <1>3 DEF WorkerCode
  <1>8. CASE Tick
    <2>1. [job[k] EXCEPT !.lease = @ - 1].error = job[k].error
      BY <1>1 DEF JobRow
    <2> QED BY <1>8, <2>1 DEF Tick, MarkMeansPaused
  <1> QED BY <1>4, <1>5, <1>6, <1>7, <1>8 DEF QueueMoves

\* A pause marks and a resume unmarks in the transaction that moves the control.
LEMMA MarkKept ==
    LedgerInv /\ MarkMeansPaused /\ [OperatorNext]_operatorVars => MarkMeansPaused'
  <1> SUFFICES ASSUME LedgerInv, MarkMeansPaused, [OperatorNext]_operatorVars
               PROVE  MarkMeansPaused'
    OBVIOUS
  <1> USE DEF Mark
  <1>1. \A j \in Job : job[j] \in JobRow
    BY DEF LedgerInv, LedgerTypeOK
  <1>2. ASSUME NEW x \in Call, Pause(x) PROVE MarkMeansPaused'
    <2>1. \A j \in Job : OperatorPaused(job[j]).state = "paused"
      BY <1>1 DEF OperatorPaused, JobRow
    <2> QED BY <1>2, <2>1 DEF Pause, OperatorPauseJobs, MarkMeansPaused
  <1>3. ASSUME NEW x \in Call, Resume(x) PROVE MarkMeansPaused'
    <2>1. \A j \in Job : Resumed(job[j]).error = None
      BY <1>1 DEF Resumed, JobRow
    <2>2. None # Mark
      BY NoneAssumption DEF ErrorCode
    <2> QED BY <1>3, <2>1, <2>2 DEF Resume, OperatorResumeJobs, MarkMeansPaused
  <1>4. CASE QueueMoves
    <2>1. control' = control
      BY <1>4 DEF QueueMoves
    <2> QED BY <1>4, <2>1, QueueMovesMarkNothing DEF MarkMeansPaused
  <1>5. CASE UNCHANGED <<job, control>>
    BY <1>5 DEF MarkMeansPaused
  <1>6. ASSUME NEW x \in Call,
               \/ \E c \in Command : Begin(x, c)
               \/ ReadControl(x) \/ Work(x) \/ Throws(x)
               \/ Finish(x) \/ FinishThrows(x) \/ RecordFailure(x)
        PROVE  UNCHANGED <<job, control>>
    BY <1>6 DEF Begin, ReadControl, Work, Throws, Finish, FinishThrows, RecordFailure, ledgerVars
  <1>7. ASSUME (\E p \in Process : Crash(p)) \/ CommandTick \/ UNCHANGED operatorVars
        PROVE  UNCHANGED <<job, control>>
    BY <1>7 DEF Crash, CommandTick, operatorVars, ledgerVars
  <1> QED BY <1>2, <1>3, <1>4, <1>5, <1>6, <1>7 DEF OperatorNext

\* Nothing stays paused by the operator on a running queue, whatever commands overlap, repeat or
\* die, and whatever inventory and workers do to the jobs meanwhile.
THEOREM OperatorNothingStranded == OperatorSpec => []NothingStranded
  <1>1. OperatorInit => MarkMeansPaused
    BY NoneAssumption DEF OperatorInit, LedgerInit, NoRow, MarkMeansPaused, Mark, ErrorCode
  <1>2. MarkMeansPaused => NothingStranded
    BY DEF MarkMeansPaused, NothingStranded, Mark
  <1> QED BY <1>1, <1>2, MarkKept, LedgerInvHere, PTL DEF OperatorSpec

-----------------------------------------------------------------------------
(* Commands and their answers *)

CommandType ==
    [state : {"absent", "processing"} \cup Final, owner : Process \cup {None},
     lease : 0..CommandTicks, response : Call \cup {None}]

CallType ==
    [pc : {"new", "begun", "working", "applied", "failing", "done"},
     command : Command \cup {None}, answer : Call \cup {None}]

\* One row of the table is typed and meets its CHECK.
CommandFits(row) ==
    /\ row \in CommandType
    /\ row.state = "processing" <=> row.owner # None
    /\ row.state \in Final <=> row.response # None

\* One call is typed, has begun a command if it executes one, and was answered, if it was, with
\* what is stored for a command that is over.
CallFits(x) ==
    /\ call[x] \in CallType
    /\ call[x].pc \notin {"new", "done"} => call[x].command \in Command
    /\ call[x].pc # "done" => call[x].answer = None
    /\ call[x].answer # None =>
          /\ call[x].command \in Command
          /\ CommandRow(x).state \in Final
          /\ call[x].answer = CommandRow(x).response

CommandsFit ==
    /\ command = [c \in Command |-> command[c]] /\ \A c \in Command : CommandFits(command[c])
    /\ call = [x \in Call |-> call[x]] /\ \A x \in Call : CallFits(x)
    /\ applied \in [Command -> Nat]
    /\ control \in {"running", "paused"}

\* The rows a call writes meet the table's CHECK.
LEMMA WrittenRowsFit ==
    ASSUME NEW x \in Call
    PROVE  /\ CommandFits(NoCommand) /\ CommandFits(Held(x))
           /\ \A state \in Final : CommandFits(Ended(state, x))
  BY OperatorAssumption DEF CommandFits, CommandType, NoCommand, Held, Ended, Final

\* A step that writes at most one row, never one that is over, and moves one call.
LEMMA CallStep ==
    ASSUME CommandsFit, NEW x \in Call, NEW c \in Command, NEW row, NEW pc,
           NEW answer \in Call \cup {None},
           pc \in {"begun", "working", "applied", "failing", "done"},
           CommandFits(row), command[c].state \in Final => row = command[c],
           command' = [command EXCEPT ![c] = row],
           call[x].answer = None,
           call' = [call EXCEPT ![x] = [pc |-> pc, command |-> c, answer |-> answer]],
           answer # None => pc = "done" /\ row.state \in Final /\ row.response = answer,
           applied' \in [Command -> Nat], control' \in {"running", "paused"}
    PROVE  CommandsFit'
  <1>1. \A d \in Command : /\ CommandFits(command'[d])
                           /\ command[d].state \in Final => command'[d] = command[d]
    BY DEF CommandsFit
  <1>2. command' = [d \in Command |-> command'[d]] /\ call' = [y \in Call |-> call'[y]]
    BY DEF CommandsFit
  <1>3. ASSUME NEW y \in Call PROVE CallFits(y)'
    <2>1. CASE y = x
      <3>1. call'[x] = [pc |-> pc, command |-> c, answer |-> answer] /\ command'[c] = row
        BY DEF CommandsFit
      <3> QED BY <2>1, <3>1 DEF CallFits, CallType, CommandRow
    <2>2. CASE y # x
      <3>1. call'[y] = call[y] /\ CallFits(y)
        BY <2>2 DEF CommandsFit
      <3> QED BY <3>1, <1>1 DEF CallFits, CommandRow
    <2> QED BY <2>1, <2>2
  <1> QED BY <1>1, <1>2, <1>3 DEF CommandsFit

\* begin: a row it takes was absent or still processed; one it replays is over.
LEMMA BeginKeeps ==
    ASSUME CommandsFit, NEW x \in Call, NEW c \in Command, Begin(x, c) PROVE CommandsFit'
  <1>1. call[x].answer = None /\ call[x] \in CallType /\ CommandFits(command[c])
    BY DEF Begin, CommandsFit, CallFits
  <1>2. applied' \in [Command -> Nat] /\ control' \in {"running", "paused"}
    BY DEF Begin, CommandsFit
  <1>3. CASE /\ command[c].state \in {"absent", "processing"}
             /\ command' = [command EXCEPT ![c] = Held(x)]
             /\ call' = [call EXCEPT ![x] = [pc |-> "begun", command |-> c, answer |-> None]]
    <2>1. command[c].state \notin Final
      BY <1>3 DEF Final
    <2> QED BY <1>1, <1>2, <1>3, <2>1, WrittenRowsFit, CallStep
  <1>4. CASE /\ command[c].state \in Final
             /\ Answers(x, c, command[c].response)
             /\ UNCHANGED command
    <2>1. command' = [command EXCEPT ![c] = command[c]]
      BY <1>4 DEF CommandsFit
    <2>2. command[c].response \in Call \cup {None}
      BY <1>1 DEF CommandFits, CommandType
    <2> QED BY <1>1, <1>2, <1>4, <2>1, <2>2, CallStep DEF Answers
  <1>5. CASE Answers(x, c, None) /\ UNCHANGED command
    <2>1. command' = [command EXCEPT ![c] = command[c]]
      BY <1>5 DEF CommandsFit
    <2> QED BY <1>1, <1>2, <1>5, <2>1, CallStep DEF Answers
  <1> QED BY <1>3, <1>4, <1>5 DEF Begin

\* A call that executes a command and was not answered moves on without touching the row.
LEMMA GoesKeeps ==
    ASSUME CommandsFit, NEW x \in Call, call[x].pc \in {"begun", "working", "applied"},
           NEW pc \in {"working", "applied", "failing"}, Goes(x, pc), UNCHANGED command,
           applied' \in [Command -> Nat], control' \in {"running", "paused"}
    PROVE  CommandsFit'
  <1>1. call[x].answer = None /\ call[x] \in CallType /\ call[x].command \in Command
    BY DEF CommandsFit, CallFits
  <1>2. call' = [call EXCEPT ![x] = [pc |-> pc, command |-> call[x].command, answer |-> None]]
    <2>1. [call[x] EXCEPT !.pc = pc] = [pc |-> pc, command |-> call[x].command, answer |-> None]
      BY <1>1 DEF CallType
    <2> QED BY <2>1 DEF Goes
  <1>3. /\ command' = [command EXCEPT ![call[x].command] = CommandRow(x)]
        /\ CommandFits(CommandRow(x))
    BY <1>1 DEF CommandsFit, CommandRow
  <1> QED BY <1>1, <1>2, <1>3, CallStep DEF CommandRow

\* The effect of a command, counted.
LEMMA EffectKeeps ==
    ASSUME CommandsFit, NEW x \in Call, Pause(x) \/ Resume(x) \/ Work(x) PROVE CommandsFit'
  <1>1. call[x].pc \in {"begun", "working"} /\ Applied(x)
    BY DEF Pause, Resume, Work
  <1>2. call[x].command \in Command
    BY <1>1 DEF CommandsFit, CallFits
  <1>3. applied' \in [Command -> Nat]
    BY <1>1, <1>2 DEF Applied, CommandsFit
  <1>4. control' \in {"running", "paused"}
    BY DEF Pause, Resume, Work, CommandsFit
  <1> QED BY <1>1, <1>3, <1>4, GoesKeeps DEF Applied

\* finish and fail: the outcome is written to a row that is still processed, or not at all.
LEMMA EndKeeps ==
    ASSUME CommandsFit, NEW x \in Call, Finish(x) \/ FinishThrows(x) \/ RecordFailure(x)
    PROVE  CommandsFit'
  <1> DEFINE c == call[x].command
  <1>1. call[x].answer = None /\ c \in Command /\ CommandFits(command[c])
    BY DEF Finish, FinishThrows, RecordFailure, CommandsFit, CallFits
  <1>2. applied' \in [Command -> Nat] /\ control' \in {"running", "paused"}
    BY DEF Finish, FinishThrows, RecordFailure, CommandsFit
  <1>3. Holds(x) => command[c].state \notin Final
    BY DEF Holds, CommandRow, Final
  <1>4. CASE Finish(x)
    <2>1. /\ CommandFits(Ended("completed", x))
          /\ Ended("completed", x).state \in Final /\ Ended("completed", x).response = x
      BY WrittenRowsFit DEF Ended, Final
    <2> QED BY <1>1, <1>2, <1>3, <1>4, <2>1, CallStep DEF Finish, Answers
  <1>5. CASE FinishThrows(x)
    <2>1. command' = [command EXCEPT ![c] = command[c]]
      BY <1>5 DEF FinishThrows, CommandsFit
    <2> QED BY <1>1, <1>2, <1>5, <2>1, CallStep DEF FinishThrows, Answers
  <1>6. CASE RecordFailure(x)
    <2> DEFINE row == IF Holds(x) THEN Ended("failed", x) ELSE command[c]
    <2>1. command' = [command EXCEPT ![c] = row]
      BY <1>1, <1>6 DEF RecordFailure, CommandsFit
    <2>2. CommandFits(row) /\ (command[c].state \in Final => row = command[c])
      BY <1>1, <1>3, WrittenRowsFit DEF Final
    <2>3. call' = [call EXCEPT ![x] = [pc |-> "done", command |-> c, answer |-> None]]
      BY <1>6 DEF RecordFailure, Answers
    <2> HIDE DEF row
    <2> QED BY <1>1, <1>2, <2>1, <2>2, <2>3, CallStep
  <1> QED BY <1>4, <1>5, <1>6

\* A crash ends calls and answers nobody; a lease that runs down says nothing of the outcome.
LEMMA CrashOrTickKeeps ==
    ASSUME CommandsFit, (\E p \in Process : Crash(p)) \/ CommandTick PROVE CommandsFit'
  <1>1. ASSUME NEW p \in Process, Crash(p) PROVE CommandsFit'
    <2>1. \A y \in Call : call[y] \in CallType
      BY DEF CommandsFit, CallFits
    <2>2. ASSUME NEW y \in Call
          PROVE  /\ call'[y] \in CallType
                 /\ call'[y].command = call[y].command /\ call'[y].answer = call[y].answer
                 /\ call'[y].pc \in {call[y].pc, "done"}
      BY <1>1, <2>1 DEF Crash, CallType
    <2>3. \A y \in Call : CallFits(y)'
      BY <1>1, <2>2 DEF Crash, CommandsFit, CallFits, CommandRow
    <2>4. call' = [y \in Call |-> call'[y]]
      BY <1>1 DEF Crash
    <2> QED BY <1>1, <2>3, <2>4 DEF Crash, CommandsFit
  <1>2. CASE CommandTick
    <2>1. ASSUME NEW c \in Command
          PROVE  /\ CommandFits(command'[c])
                 /\ command'[c].state = command[c].state
                 /\ command'[c].response = command[c].response
      <3>1. CommandFits(command[c])
        BY DEF CommandsFit
      <3>2. CASE command[c].lease > 0
        <4>1. command'[c] = [command[c] EXCEPT !.lease = @ - 1]
          BY <1>2, <3>2 DEF CommandTick
        <4> QED BY <3>1, <3>2, <4>1, OperatorAssumption DEF CommandFits, CommandType
      <3>3. CASE ~(command[c].lease > 0)
        BY <1>2, <3>1, <3>3 DEF CommandTick
      <3> QED BY <3>2, <3>3
    <2>2. \A y \in Call : CallFits(y)'
      BY <1>2, <2>1 DEF CommandTick, CommandsFit, CallFits, CommandRow
    <2>3. command' = [c \in Command |-> command'[c]]
      BY <1>2 DEF CommandTick
    <2> QED BY <1>2, <2>1, <2>2, <2>3 DEF CommandTick, CommandsFit
  <1> QED BY <1>1, <1>2

\* Every step.
LEMMA CommandsFitKept == CommandsFit /\ [OperatorNext]_operatorVars => CommandsFit'
  <1> SUFFICES ASSUME CommandsFit, [OperatorNext]_operatorVars PROVE CommandsFit'
    OBVIOUS
  <1>1. ASSUME NEW x \in Call, ReadControl(x) \/ Throws(x) PROVE CommandsFit'
    <2>1. CASE ReadControl(x)
      BY <2>1, GoesKeeps DEF ReadControl, CommandsFit
    <2>2. CASE Throws(x)
      BY <2>2, GoesKeeps DEF Throws, CommandsFit
    <2> QED BY <1>1, <2>1, <2>2
  <1>2. CASE QueueMoves \/ UNCHANGED operatorVars
    <2>1. UNCHANGED <<control, command, call, applied>>
      BY <1>2 DEF QueueMoves, operatorVars
    <2> QED BY <2>1 DEF CommandsFit, CallFits, CommandRow
  <1> QED BY <1>1, <1>2, BeginKeeps, EffectKeeps, EndKeeps, CrashOrTickKeeps DEF OperatorNext

\* No command is known at the start.
LEMMA CommandsFitInitially == OperatorInit => CommandsFit
  BY WrittenRowsFit, OperatorAssumption
  DEF OperatorInit, CommandsFit, CallFits, CallType, NewCall, CommandFits, CommandType, NoCommand,
      Final

\* The invariant of the commands.
LEMMA CommandsInvariant == OperatorSpec => []CommandsFit
  BY CommandsFitInitially, CommandsFitKept, PTL DEF OperatorSpec

\* With the ledger's invariant it gives the types.
LEMMA CommandsTyped == CommandsFit /\ LedgerInv => OperatorTypeOK
  <1> SUFFICES ASSUME CommandsFit, LedgerInv PROVE OperatorTypeOK
    OBVIOUS
  <1>1. command \in [Command -> CommandType] /\ CommandRowsConsistent
    BY DEF CommandsFit, CommandFits, CommandRowsConsistent
  <1>2. call \in [Call -> CallType]
    BY DEF CommandsFit, CallFits
  <1> QED BY <1>1, <1>2 DEF OperatorTypeOK, CommandsFit, LedgerInv, CommandType, CallType

\* Every command row meets the table's CHECK, whichever calls of it overlap, die or come late.
THEOREM OperatorTyped == OperatorSpec => []OperatorTypeOK
  BY CommandsTyped, CommandsInvariant, LedgerInvHere, PTL

\* Whoever is answered is told the outcome that is stored: it is written once, and every answer
\* is read from it or written with it.
THEOREM OperatorAnswersAgree == OperatorSpec => []AnswersAgree
  <1>1. CommandsFit => AnswersAgree
    BY DEF CommandsFit, CallFits, AnswersAgree
  <1> QED BY <1>1, CommandsInvariant, PTL

\* Both together: one outcome per command, and nothing stranded.
THEOREM OperatorIsSound == OperatorSpec => []OperatorSound
  <1>1. AnswersAgree /\ NothingStranded => OperatorSound
    BY DEF OperatorSound
  <1> QED BY <1>1, OperatorAnswersAgree, OperatorNothingStranded, PTL

-----------------------------------------------------------------------------
(***************************************************************************)
(* What the ledgers tell, and how starts end, for any number of starts and *)
(* releases, any bundles that keep MigrationAssumption, and any number of  *)
(* failures.                                                               *)
(*                                                                         *)
(* Who works holds the lock, so what it read of the ledgers is still what  *)
(* they say; and everybody else is waiting or has ended, and what it ended *)
(* with stays right when the rows grow.                                    *)
(***************************************************************************)

StartRow == [pc : {"new", "done", "refused", "failed"} \cup Working,
             versions : Seq(Source), patches : Seq(Source), wrote : BOOLEAN]

\* Why a start may be refused.
Cause(s) ==
    \/ predates /\ (s \notin Adopting \/ Len(Versions[s]) < Base \/ Len(schema) < Base)
    \/ ~IsPrefix(versionRows, Versions[s]) \/ ~IsPrefix(patchRows, Patches[s])
    \/ Len(versionRows) > Base /\ patchRows # Patches[s]

Follows(s) == IsPrefix(versionRows, Versions[s]) /\ IsPrefix(patchRows, Patches[s])
Current(s) == IsPrefix(Versions[s], versionRows) /\ IsPrefix(Patches[s], patchRows)

\* What a start knows at each of its steps.
Knows(s, row) ==
    /\ row.pc \in {"read", "judged", "applying"} => row.versions = versionRows
    /\ row.pc \in {"judged", "applying"} => versionRows # <<>> \/ schema = <<>>
    /\ row.pc = "applying" => row.patches = patchRows /\ Follows(s)
    /\ row.wrote =>
          /\ row.pc \notin {"new", "locked", "read"}
          /\ row.pc = "judged" => Follows(s) /\ Len(versionRows) <= Base
          /\ row.pc = "applying" =>
                (Len(patchRows) < Len(Patches[s]) => Len(versionRows) <= Base)
    /\ row.pc = "done" => Current(s)
    /\ row.pc = "refused" => ~row.wrote /\ Cause(s)

\* What holds of the database.
SchemaFits ==
    /\ patchRows # <<>> => Len(versionRows) >= Base
    /\ predates /\ versionRows = <<>> => schema \in Legacy
    /\ predates /\ versionRows # <<>> => Len(schema) >= Base
    /\ LedgersTell

MigrationInv ==
    /\ MigrationTypeOK
    /\ SchemaFits
    /\ \A s \in Start : start[s].pc \in Working => lockHolder = s
    /\ \A s \in Start : Knows(s, start[s])

-----------------------------------------------------------------------------
(* Sequences *)

\* Rows that follow a bundle still do with the bundle's next file.
LEMMA PrefixNext ==
    ASSUME NEW a \in Seq(Source), NEW b \in Seq(Source), Len(a) < Len(b), IsPrefix(a, b)
    PROVE  IsPrefix(Append(a, b[Len(a) + 1]), b)
  BY DEF IsPrefix

\* Rows that go beyond a bundle still do when one more is added.
LEMMA PrefixOfGrown ==
    ASSUME NEW a \in Seq(Source), NEW b \in Seq(Source), NEW x \in Source, IsPrefix(a, b)
    PROVE  IsPrefix(a, Append(b, x))
  BY DEF IsPrefix

\* Rows a bundle does not have do not become its by growing.
LEMMA GrownPrefix ==
    ASSUME NEW a \in Seq(Source), NEW b \in Seq(Source), NEW x \in Source,
           IsPrefix(Append(a, x), b)
    PROVE  IsPrefix(a, b)
  <1>1. /\ Len(Append(a, x)) = Len(a) + 1
        /\ \A i \in 1..Len(a) : Append(a, x)[i] = a[i]
    OBVIOUS
  <1>2. Len(a) + 1 <= Len(b) /\ SubSeq(Append(a, x), 1, Len(a) + 1) = SubSeq(b, 1, Len(a) + 1)
    BY <1>1 DEF IsPrefix
  <1>3. \A i \in 1..Len(a) : a[i] = b[i]
    BY <1>1, <1>2
  <1> QED BY <1>2, <1>3 DEF IsPrefix

\* As many rows as the bundle has files, and following it, are the bundle.
LEMMA PrefixOfSameLength ==
    ASSUME NEW a \in Seq(Source), NEW b \in Seq(Source), IsPrefix(a, b), Len(a) >= Len(b)
    PROVE  IsPrefix(b, a)
  BY DEF IsPrefix

\* Every bundle begins with nothing.
LEMMA PrefixEmpty ==
    ASSUME NEW b \in Seq(Source)
    PROVE  IsPrefix(<<>>, b)
  BY DEF IsPrefix

\* A bundle's first files are a prefix of it.
LEMMA PrefixStart ==
    ASSUME NEW b \in Seq(Source), NEW n \in 0..Len(b)
    PROVE  SubSeq(b, 1, n) \in Seq(Source) /\ Len(SubSeq(b, 1, n)) = n /\ IsPrefix(SubSeq(b, 1, n), b)
  BY DEF IsPrefix

\* One more row.
LEMMA Appended ==
    ASSUME NEW a \in Seq(Source), NEW x \in Source
    PROVE  /\ Append(a, x) \in Seq(Source) /\ Len(Append(a, x)) = Len(a) + 1
           /\ Append(a, x) # <<>>
  <1>1. Append(a, x) \in Seq(Source) /\ Append(a, x) # <<>> /\ Len(Append(a, x)) = Len(a) + 1
    BY AppendProperties
  <1> QED BY <1>1

\* Sequences of the same files are equal.
LEMMA SameFiles ==
    ASSUME NEW a \in Seq(Source), NEW b \in Seq(Source), Len(a) = Len(b),
           \A i \in 1..Len(a) : a[i] = b[i]
    PROVE  a = b
  OBVIOUS

\* The next migration goes to the end of what the database holds.
LEMMA ChainMigration ==
    ASSUME NEW v \in Seq(Source), NEW p \in Seq(Source), NEW x \in Source,
           p # <<>> => Len(v) >= Base
    PROVE  Chain(Append(v, x), p) = Append(Chain(v, p), x)
  <1>1. CASE p = <<>>
    BY <1>1 DEF Chain
  <1>2. CASE p # <<>>
    <2> DEFINE head == SubSeq(v, 1, Base)
               tail == SubSeq(v, Base + 1, Len(v))
    <2>1. Base \in Nat \ {0} /\ Len(v) >= Base
      BY <1>2, MigrationAssumption
    <2>2. SubSeq(Append(v, x), 1, Base) = head
      BY <2>1
    <2>3. SubSeq(Append(v, x), Base + 1, Len(v) + 1) = Append(tail, x)
      <3> DEFINE longer == SubSeq(Append(v, x), Base + 1, Len(v) + 1)
      <3>1. longer \in Seq(Source) /\ Len(longer) = Len(v) + 1 - Base
        BY <2>1
      <3>2. tail \in Seq(Source) /\ Len(tail) = Len(v) - Base
        BY <2>1
      <3>3. \A i \in 1..(Len(v) - Base) : longer[i] = v[Base + i] /\ tail[i] = v[Base + i]
        BY <2>1
      <3>4. longer[Len(v) + 1 - Base] = x
        BY <2>1
      <3> HIDE DEF longer, tail
      <3>5. \A i \in 1..Len(longer) : longer[i] = Append(tail, x)[i]
        BY <2>1, <3>1, <3>2, <3>3, <3>4
      <3>6. Append(tail, x) \in Seq(Source) /\ Len(Append(tail, x)) = Len(longer)
        BY <2>1, <3>1, <3>2, Appended
      <3>7. longer = Append(tail, x)
        BY <3>1, <3>5, <3>6, SameFiles
      <3> QED BY <3>7 DEF longer
    <2>4. Len(Append(v, x)) = Len(v) + 1
      OBVIOUS
    <2>5. head \in Seq(Source) /\ tail \in Seq(Source)
      BY <2>1
    <2> HIDE DEF head, tail
    <2>6. head \o p \o Append(tail, x) = Append(head \o p \o tail, x)
      <3>1. head \o p \in Seq(Source)
        BY <2>5
      <3> QED BY <2>5, <3>1
    <2>7. Chain(v, p) = head \o p \o tail
      BY <1>2 DEF Chain, head, tail
    <2>8. Chain(Append(v, x), p) = head \o p \o Append(tail, x)
      BY <1>2, <2>2, <2>3, <2>4 DEF Chain
    <2> QED BY <2>6, <2>7, <2>8
  <1> QED BY <1>1, <1>2

\* So does a patch that is due.
LEMMA ChainPatch ==
    ASSUME NEW v \in Seq(Source), NEW p \in Seq(Source), NEW x \in Source, Len(v) = Base
    PROVE  Chain(v, Append(p, x)) = Append(Chain(v, p), x)
  <1>1. Base \in Nat \ {0}
    BY MigrationAssumption
  <1>2. SubSeq(v, 1, Base) = v /\ SubSeq(v, Base + 1, Len(v)) = <<>>
    BY <1>1
  <1>3. Append(p, x) # <<>> /\ v \o Append(p, x) \o <<>> = Append(v \o p, x)
    OBVIOUS
  <1>4. CASE p = <<>>
    <2>1. v \o p = v
      BY <1>4
    <2> QED BY <1>2, <1>3, <1>4, <2>1 DEF Chain
  <1>5. CASE p # <<>>
    <2>1. v \o p \o <<>> = v \o p
      OBVIOUS
    <2> QED BY <1>2, <1>3, <1>5, <2>1 DEF Chain
  <1> QED BY <1>4, <1>5

-----------------------------------------------------------------------------
(* Steps that leave the database alone *)

\* An empty or a legacy database, and no start yet.
LEMMA MigrationInitially == MigrationInit => MigrationInv
  <1> SUFFICES ASSUME MigrationInit PROVE MigrationInv
    OBVIOUS
  <1>1. schema \in Seq(Source)
    <2>1. \A held \in Legacy : held \in Seq(Source)
      BY MigrationAssumption
    <2>2. <<>> \in Seq(Source)
      OBVIOUS
    <2> QED BY <2>1, <2>2 DEF MigrationInit
  <1>2. MigrationTypeOK
    BY <1>1, MigrationAssumption DEF MigrationInit, MigrationTypeOK, NewStart, Working
  <1>3. LedgersTell
    BY DEF MigrationInit, LedgersTell, Chain
  <1>4. SchemaFits
    BY <1>3 DEF MigrationInit, SchemaFits
  <1>5. \A s \in Start : start[s].pc \notin Working /\ Knows(s, start[s])
    BY DEF MigrationInit, NewStart, Working, Knows
  <1> QED BY <1>2, <1>4, <1>5 DEF MigrationInv

\* A step of one start that writes nothing keeps the invariant, if what that start knows then is
\* true, and the lock is still its own while it works.
LEMMA StartMoves ==
    ASSUME MigrationInv, NEW s \in Start, NEW row \in StartRow,
           start' = [start EXCEPT ![s] = row],
           UNCHANGED <<schema, versionRows, patchRows, predates>>,
           failures' \in 0..MaxFailures,
           Knows(s, row),
           \/ lockHolder' = s /\ (lockHolder = Nobody \/ lockHolder = s)
           \/ lockHolder' = (IF lockHolder = s THEN Nobody ELSE lockHolder) /\ row.pc \notin Working
    PROVE  MigrationInv'
  <1>1. start \in [Start -> StartRow] /\ lockHolder \in Start \cup {Nobody}
    BY DEF MigrationInv, MigrationTypeOK, StartRow
  <1>2. start' \in [Start -> StartRow]
    BY <1>1
  <1>3. lockHolder' \in Start \cup {Nobody}
    BY <1>1
  <1>4. MigrationTypeOK'
    BY <1>2, <1>3 DEF MigrationInv, MigrationTypeOK, StartRow
  <1>5. SchemaFits'
    BY DEF MigrationInv, SchemaFits, LedgersTell, Chain
  <1>6. ASSUME NEW r \in Start, start'[r].pc \in Working
        PROVE  lockHolder' = r
    <2>1. CASE r = s
      BY <1>1, <1>6, <2>1
    <2>2. CASE r # s
      <3>1. start[r].pc \in Working
        BY <1>1, <1>6, <2>2
      <3>2. lockHolder = r
        BY <3>1 DEF MigrationInv
      <3> QED BY <2>2, <3>2, MigrationAssumption
    <2> QED BY <2>1, <2>2
  <1>7. ASSUME NEW r \in Start
        PROVE  Knows(r, start[r])' 
    <2>1. Knows(r, start'[r])
      <3>1. CASE r = s
        BY <1>1, <3>1
      <3>2. CASE r # s
        BY <1>1, <3>2 DEF MigrationInv
      <3> QED BY <3>1, <3>2
    <2> QED BY <2>1 DEF Knows, Follows, Current, Cause
  <1> QED BY <1>4, <1>5, <1>6, <1>7 DEF MigrationInv

\* Taking the lock tells a start nothing.
LEMMA LockKeeps ==
    ASSUME MigrationInv, NEW s \in Start, Lock(s)
    PROVE  MigrationInv'
  <1> DEFINE row == [start[s] EXCEPT !.pc = "locked"]
  <1>1. start[s] \in StartRow /\ start[s].pc = "new" /\ Knows(s, start[s])
    BY DEF MigrationInv, MigrationTypeOK, StartRow, Lock
  <1>2. row \in StartRow
    BY <1>1 DEF StartRow, Working
  <1>3. Knows(s, row)
    BY <1>1 DEF Knows, StartRow
  <1>4. failures' \in 0..MaxFailures
    BY DEF Lock, MigrationInv, MigrationTypeOK
  <1>5. start' = [start EXCEPT ![s] = row]
    BY DEF Lock
  <1> HIDE DEF row
  <1> QED BY <1>2, <1>3, <1>4, <1>5, StartMoves DEF Lock

\* What is read under the lock is what the ledger says.
LEMMA ReadLedgerKeeps ==
    ASSUME MigrationInv, NEW s \in Start, ReadLedger(s)
    PROVE  MigrationInv'
  <1> DEFINE row == [start[s] EXCEPT !.pc = "read", !.versions = versionRows]
  <1>1. start[s] \in StartRow /\ start[s].pc = "locked" /\ Knows(s, start[s])
        /\ versionRows \in Seq(Source) /\ lockHolder = s
    BY DEF MigrationInv, MigrationTypeOK, StartRow, ReadLedger, Working
  <1>2. row \in StartRow
    BY <1>1 DEF StartRow, Working
  <1>3. Knows(s, row)
    BY <1>1 DEF Knows, StartRow
  <1>4. failures' \in 0..MaxFailures
    BY DEF ReadLedger, MigrationInv, MigrationTypeOK
  <1>5. start' = [start EXCEPT ![s] = row]
    BY <1>1 DEF ReadLedger, StartRow
  <1> HIDE DEF row
  <1> QED BY <1>1, <1>2, <1>3, <1>4, <1>5, StartMoves DEF ReadLedger

\* Whoever returns writes nothing, and is right about how it ended.
LEMMA ReturnsKeeps ==
    ASSUME MigrationInv, NEW s \in Start, NEW outcome \in {"done", "refused", "failed"},
           start[s].pc \in Working,
           Returns(s, outcome),
           UNCHANGED <<schema, versionRows, patchRows, predates>>,
           failures' \in 0..MaxFailures,
           outcome = "done" => Current(s),
           outcome = "refused" => ~start[s].wrote /\ Cause(s)
    PROVE  MigrationInv'
  <1> DEFINE row == [start[s] EXCEPT !.pc = outcome]
  <1>1. start[s] \in StartRow /\ Knows(s, start[s])
    BY DEF MigrationInv, MigrationTypeOK, StartRow
  <1>2. row \in StartRow /\ row.pc \notin Working
    BY <1>1 DEF StartRow, Working
  <1>3. Knows(s, row)
    BY <1>1 DEF Knows, StartRow
  <1>4. start' = [start EXCEPT ![s] = row]
    BY DEF Returns
  <1> HIDE DEF row
  <1> QED BY <1>2, <1>3, <1>4, StartMoves DEF Returns

\* A start goes on only with rows its bundle has; others are its cause to refuse.
LEMMA CompareLedgersKeeps ==
    ASSUME MigrationInv, NEW s \in Start, CompareLedgers(s)
    PROVE  MigrationInv'
  <1>1. start[s] \in StartRow /\ start[s].pc = "judged" /\ Knows(s, start[s]) /\ lockHolder = s
        /\ patchRows \in Seq(Source) /\ start[s].versions = versionRows
    BY DEF MigrationInv, MigrationTypeOK, StartRow, CompareLedgers, Working, Knows
  <1>2. failures' \in 0..MaxFailures
    BY DEF CompareLedgers, MigrationInv, MigrationTypeOK
  <1>3. CASE Follows(s)
    <2> DEFINE row == [start[s] EXCEPT !.pc = "applying", !.patches = patchRows]
    <2>1. row \in StartRow
      BY <1>1 DEF StartRow, Working
    <2>2. start[s].wrote => Len(versionRows) <= Base
      BY <1>1 DEF Knows
    <2>3. Knows(s, row)
      BY <1>1, <1>3, <2>2 DEF Knows, StartRow
    <2>4. start' = [start EXCEPT ![s] = row] /\ UNCHANGED lockHolder
      BY <1>1, <1>3 DEF CompareLedgers, StartRow, Follows
    <2> HIDE DEF row
    <2> QED BY <1>1, <1>2, <2>1, <2>3, <2>4, StartMoves DEF CompareLedgers
  <1>4. CASE ~Follows(s)
    <2>1. Returns(s, "refused")
      BY <1>1, <1>4 DEF CompareLedgers, Follows
    <2>2. ~start[s].wrote /\ Cause(s)
      BY <1>1, <1>4 DEF Knows, Follows, Cause
    <2> QED BY <1>1, <1>2, <2>1, <2>2, ReturnsKeeps DEF CompareLedgers, Working
  <1> QED BY <1>3, <1>4

\* A patch is missed only by a start that has written nothing: another release went past it.
LEMMA RefusePatchKeeps ==
    ASSUME MigrationInv, NEW s \in Start, RefusePatch(s)
    PROVE  MigrationInv'
  <1>1. start[s].pc = "applying" /\ Knows(s, start[s]) /\ PatchMissed(s)
    BY DEF MigrationInv, RefusePatch
  <1>2. Len(patchRows) < Len(Patches[s]) /\ Len(versionRows) > Base
    BY <1>1 DEF Knows, PatchMissed, PatchesLeft, At
  <1>3. Len(versionRows) \in Nat /\ Base \in Nat
    BY MigrationAssumption DEF MigrationInv, MigrationTypeOK
  <1>4. ~start[s].wrote
    BY <1>1, <1>2, <1>3 DEF Knows
  <1>5. Cause(s)
    BY <1>2 DEF Cause
  <1>6. failures' \in 0..MaxFailures
    BY DEF RefusePatch, MigrationInv, MigrationTypeOK
  <1> QED BY <1>1, <1>4, <1>5, <1>6, ReturnsKeeps DEF RefusePatch, Working

\* Nothing is left to apply.
LEMMA DoneKeeps ==
    ASSUME MigrationInv, NEW s \in Start, Done(s)
    PROVE  MigrationInv'
  <1>1. start[s].pc = "applying" /\ Knows(s, start[s]) /\ Follows(s)
        /\ start[s].versions = versionRows /\ start[s].patches = patchRows
    BY DEF MigrationInv, Done, Knows
  <1>2. /\ versionRows \in Seq(Source) /\ patchRows \in Seq(Source)
        /\ Versions[s] \in Seq(Source) /\ Patches[s] \in Seq(Source) /\ Base \in Nat
    BY MigrationAssumption DEF MigrationInv, MigrationTypeOK
  <1>3. IsPrefix(Versions[s], versionRows)
    BY <1>1, <1>2, PrefixOfSameLength DEF Done, At, Follows
  <1>4. Len(patchRows) >= Len(Patches[s])
    <2>1. CASE Patches[s] = <<>>
      BY <1>2, <2>1
    <2>2. CASE Patches[s] # <<>>
      <3>1. Len(versionRows) >= Base
        BY <1>1, <2>2, MigrationAssumption DEF Done, At
      <3> QED BY <1>1, <1>2, <3>1 DEF Done, At, PatchDue, PatchMissed, PatchesLeft
    <2> QED BY <2>1, <2>2
  <1>5. IsPrefix(Patches[s], patchRows)
    BY <1>1, <1>2, <1>4, PrefixOfSameLength DEF Follows
  <1>6. failures' \in 0..MaxFailures
    BY DEF Done, MigrationInv, MigrationTypeOK
  <1> QED BY <1>1, <1>3, <1>5, <1>6, ReturnsKeeps DEF Done, Working, Current

\* A failing start leaves the rows as they were.
LEMMA StatementFailsKeeps ==
    ASSUME MigrationInv, NEW s \in Start, StatementFails(s)
    PROVE  MigrationInv'
  <1>1. failures' \in 0..MaxFailures
    BY MigrationAssumption DEF StatementFails, MigrationInv, MigrationTypeOK
  <1> QED BY <1>1, ReturnsKeeps DEF StatementFails

\* So does one that dies.
LEMMA RestartKeeps ==
    ASSUME MigrationInv, NEW s \in Start, Restart(s)
    PROVE  MigrationInv'
  <1>1. failures' \in 0..MaxFailures
    BY MigrationAssumption DEF Restart, MigrationInv, MigrationTypeOK
  <1>2. NewStart \in StartRow /\ NewStart.pc \notin Working
    BY DEF StartRow, NewStart, Working
  <1>3. Knows(s, NewStart)
    BY DEF Knows, NewStart
  <1> QED BY <1>1, <1>2, <1>3, StartMoves DEF Restart

-----------------------------------------------------------------------------
(* Steps that write *)

\* A start writes while it holds the lock, so the others wait or have ended; what they ended with
\* must stay right.
LEMMA StartWrites ==
    ASSUME MigrationInv, NEW s \in Start, NEW row \in StartRow,
           start[s].pc \in Working,
           start' = [start EXCEPT ![s] = row],
           UNCHANGED <<lockHolder, predates, failures>>,
           schema' \in Seq(Source), versionRows' \in Seq(Source), patchRows' \in Seq(Source),
           SchemaFits',
           Knows(s, row)',
           \A r \in Start : (Current(r) => Current(r)') /\ (Cause(r) => Cause(r)')
    PROVE  MigrationInv'
  <1>1. start \in [Start -> StartRow] /\ lockHolder = s
    BY DEF MigrationInv, MigrationTypeOK, StartRow
  <1>2. start' \in [Start -> StartRow] /\ start'[s] = row
    BY <1>1
  <1>3. MigrationTypeOK'
    BY <1>2 DEF MigrationInv, MigrationTypeOK, StartRow
  <1>4. ASSUME NEW r \in Start, r # s
        PROVE  start'[r] = start[r] /\ start[r].pc \notin Working
    BY <1>1, <1>4 DEF MigrationInv
  <1>5. ASSUME NEW r \in Start, start'[r].pc \in Working
        PROVE  lockHolder' = r
    BY <1>1, <1>4, <1>5
  <1>6. ASSUME NEW r \in Start
        PROVE  Knows(r, start[r])'
    <2>1. CASE r = s
      BY <1>2, <2>1 DEF Knows, Follows, Current, Cause
    <2>2. CASE r # s
      <3>1. Knows(r, start[r]) /\ start'[r] = start[r] /\ start[r].pc \notin Working
        BY <1>4, <2>2 DEF MigrationInv
      <3>2. (Current(r) => Current(r)') /\ (Cause(r) => Cause(r)')
        OBVIOUS
      <3> QED BY <3>1, <3>2 DEF Knows, Working
    <2> QED BY <2>1, <2>2
  <1> QED BY <1>3, <1>5, <1>6 DEF MigrationInv

\* Adoption writes the rows of what the database holds: its bundle's first migrations.
LEMMA AdoptKeeps ==
    ASSUME MigrationInv, NEW s \in Start, start[s].pc = "read", Unledgered(s), Verified(s), Adopt(s),
           UNCHANGED <<schema, patchRows, predates, failures>>
    PROVE  MigrationInv'
  <1>1. start[s] \in StartRow /\ Knows(s, start[s]) /\ versionRows \in Seq(Source)
        /\ schema \in Seq(Source) /\ patchRows \in Seq(Source)
    BY DEF MigrationInv, MigrationTypeOK, StartRow
  <1>2. versionRows = <<>> /\ schema # <<>>
    BY <1>1 DEF Unledgered, Knows
  <1>3. /\ Base \in Nat \ {0} /\ Versions[s] \in Seq(Source) /\ Len(Versions[s]) >= Base
        /\ s \in Adopting /\ Len(schema) >= Base
    BY MigrationAssumption DEF Verified
  <1>4. patchRows = <<>>
    BY <1>2, <1>3 DEF MigrationInv, SchemaFits
  <1>5. predates /\ schema \in Legacy
    BY <1>2, <1>4 DEF MigrationInv, SchemaFits, LedgersTell, Chain
  <1>6. schema = SubSeq(Versions[s], 1, Base)
    BY <1>3, <1>5, MigrationAssumption
  <1> DEFINE rows == SubSeq(Versions[s], 1, Base)
  <1>7. rows \in Seq(Source) /\ Len(rows) = Base /\ IsPrefix(rows, Versions[s]) /\ rows # <<>>
    BY <1>3, PrefixStart
  <1> HIDE DEF rows
  <1>8. [start[s] EXCEPT !.pc = "judged", !.versions = rows, !.wrote = TRUE] \in StartRow
    BY <1>1, <1>7 DEF StartRow, Working
  <1>9. PICK row \in StartRow :
           row = [start[s] EXCEPT !.pc = "judged", !.versions = rows, !.wrote = TRUE]
    BY <1>8
  <1>10. versionRows' = rows /\ start' = [start EXCEPT ![s] = row] /\ UNCHANGED lockHolder
    BY <1>1, <1>2, <1>9 DEF Adopt, StartRow, rows
  <1>11. row.pc = "judged" /\ row.versions = rows
    BY <1>1, <1>9 DEF StartRow
  <1>12. Knows(s, row)'
    <2>1. IsPrefix(patchRows, Patches[s])
      BY <1>4, PrefixEmpty, MigrationAssumption
    <2>2. Follows(s)'
      BY <1>7, <1>10, <2>1 DEF Follows
    <2>3. Len(versionRows') <= Base
      BY <1>3, <1>7, <1>10
    <2> QED BY <1>7, <1>10, <1>11, <2>2, <2>3 DEF Knows
  <1>13. SchemaFits'
    BY <1>3, <1>4, <1>6, <1>7, <1>10 DEF SchemaFits, LedgersTell, Chain, rows
  <1>14. ASSUME NEW r \in Start
         PROVE  (Current(r) => Current(r)') /\ (Cause(r) => Cause(r)')
    <2>1. Versions[r] \in Seq(Source) /\ Patches[r] \in Seq(Source)
      BY MigrationAssumption
    <2>2. ASSUME Current(r) PROVE Current(r)'
      <3>1. Versions[r] = <<>>
        BY <1>2, <2>1, <2>2 DEF Current, IsPrefix
      <3>2. IsPrefix(Versions[r], rows)
        BY <1>7, <3>1, PrefixEmpty
      <3> QED BY <1>10, <2>2, <3>2 DEF Current
    <2>3. ASSUME Cause(r) PROVE Cause(r)'
      <3>1. IsPrefix(versionRows, Versions[r]) /\ IsPrefix(patchRows, Patches[r])
        BY <1>2, <1>4, <2>1, PrefixEmpty
      <3>2. predates /\ (r \notin Adopting \/ Len(Versions[r]) < Base \/ Len(schema) < Base)
        BY <1>2, <1>3, <2>3, <3>1 DEF Cause
      <3> QED BY <3>2 DEF Cause
    <2> QED BY <2>2, <2>3
  <1>15. schema' \in Seq(Source) /\ versionRows' \in Seq(Source) /\ patchRows' \in Seq(Source)
    BY <1>1, <1>7, <1>10
  <1> QED BY <1>10, <1>12, <1>13, <1>14, <1>15, StartWrites DEF Working

\* An unledgered database is adopted, or is the cause to refuse.
LEMMA JudgeKeeps ==
    ASSUME MigrationInv, NEW s \in Start, Judge(s)
    PROVE  MigrationInv'
  <1>1. start[s] \in StartRow /\ start[s].pc = "read" /\ Knows(s, start[s]) /\ lockHolder = s
    BY DEF MigrationInv, MigrationTypeOK, StartRow, Judge, Working
  <1>2. failures' \in 0..MaxFailures
    BY DEF Judge, MigrationInv, MigrationTypeOK
  <1>3. CASE ~Unledgered(s) /\ start' = [start EXCEPT ![s].pc = "judged"]
             /\ UNCHANGED <<versionRows, lockHolder>>
    <2> DEFINE row == [start[s] EXCEPT !.pc = "judged"]
    <2>1. row \in StartRow
      BY <1>1 DEF StartRow, Working
    <2>2. Knows(s, row)
      BY <1>1, <1>3 DEF Knows, StartRow, Unledgered
    <2>3. start' = [start EXCEPT ![s] = row]
      BY <1>3
    <2> HIDE DEF row
    <2> QED BY <1>1, <1>2, <1>3, <2>1, <2>2, <2>3, StartMoves DEF Judge
  <1>4. CASE Unledgered(s) /\ Verified(s) /\ Adopt(s)
    BY <1>1, <1>4, AdoptKeeps DEF Judge
  <1>5. CASE Unledgered(s) /\ ~Verified(s) /\ Returns(s, "refused") /\ UNCHANGED versionRows
    <2>1. start[s].versions = versionRows /\ ~start[s].wrote
      BY <1>1 DEF Knows
    <2>2. predates
      <3>1. versionRows = <<>> /\ schema # <<>>
        BY <1>5, <2>1 DEF Unledgered
      <3>2. patchRows = <<>>
        BY <3>1, MigrationAssumption DEF MigrationInv, SchemaFits
      <3> QED BY <3>1, <3>2 DEF MigrationInv, SchemaFits, LedgersTell, Chain
    <2>3. Cause(s)
      <3>1. Len(schema) \in Nat /\ Len(Versions[s]) \in Nat /\ Base \in Nat
        BY MigrationAssumption DEF MigrationInv, MigrationTypeOK
      <3> QED BY <1>5, <2>2, <3>1 DEF Verified, Cause
    <2> QED BY <1>1, <1>2, <1>5, <2>1, <2>3, ReturnsKeeps DEF Judge, Working
  <1> QED BY <1>3, <1>4, <1>5 DEF Judge

\* What a start that applies finds: rows, if the database predates the ledger, and ledgers that
\* tell what it holds.
LEMMA LedgerTells ==
    ASSUME MigrationInv, NEW s \in Start, start[s].pc = "applying"
    PROVE  /\ schema = Chain(versionRows, patchRows)
           /\ predates => versionRows # <<>> /\ Len(schema) >= Base
  <1>1. Knows(s, start[s])
    BY DEF MigrationInv
  <1>2. ASSUME predates PROVE versionRows # <<>>
    <2> SUFFICES ASSUME versionRows = <<>> PROVE FALSE
      OBVIOUS
    <2>1. schema = <<>> /\ schema \in Legacy
      BY <1>1, <1>2 DEF MigrationInv, Knows, SchemaFits
    <2> QED BY <2>1, MigrationAssumption
  <1> QED BY <1>2 DEF MigrationInv, SchemaFits, LedgersTell

\* A body and its row, in the order of the bundle: the ledgers go on telling what the database
\* holds, and nobody becomes wrong about how it ended.
LEMMA BodyFits ==
    ASSUME MigrationInv, NEW s \in Start, start[s].pc = "applying", NEW x \in Source,
           schema' = Append(schema, x), UNCHANGED predates,
           \/ versionRows' = Append(versionRows, x) /\ UNCHANGED patchRows
           \/ patchRows' = Append(patchRows, x) /\ UNCHANGED versionRows /\ Len(versionRows) = Base
    PROVE  /\ schema' \in Seq(Source) /\ versionRows' \in Seq(Source) /\ patchRows' \in Seq(Source)
           /\ SchemaFits'
           /\ \A r \in Start : (Current(r) => Current(r)') /\ (Cause(r) => Cause(r)')
  <1>1. schema \in Seq(Source) /\ versionRows \in Seq(Source) /\ patchRows \in Seq(Source)
    BY DEF MigrationInv, MigrationTypeOK
  <1>2. schema = Chain(versionRows, patchRows)
        /\ (predates => versionRows # <<>> /\ Len(schema) >= Base)
    BY LedgerTells
  <1>3. Base \in Nat \ {0} /\ (patchRows # <<>> => Len(versionRows) >= Base)
    BY MigrationAssumption DEF MigrationInv, SchemaFits
  <1>4. schema' \in Seq(Source) /\ Len(schema') = Len(schema) + 1
    BY <1>1, Appended
  <1>5. CASE versionRows' = Append(versionRows, x) /\ UNCHANGED patchRows
    <2>1. versionRows' \in Seq(Source) /\ Len(versionRows') = Len(versionRows) + 1
          /\ versionRows' # <<>>
      BY <1>1, <1>5, Appended
    <2>2. schema' = Chain(versionRows, patchRows)'
      <3>1. Chain(Append(versionRows, x), patchRows) = Append(schema, x)
        BY <1>1, <1>2, <1>3, ChainMigration
      <3>2. Chain(versionRows, patchRows)' = Chain(versionRows', patchRows')
        BY DEF Chain
      <3> QED BY <1>5, <3>1, <3>2
    <2>3. SchemaFits'
      BY <1>1, <1>2, <1>3, <1>4, <1>5, <2>1, <2>2 DEF SchemaFits, LedgersTell
    <2>4. ASSUME NEW r \in Start
          PROVE  (Current(r) => Current(r)') /\ (Cause(r) => Cause(r)')
      <3>1. Versions[r] \in Seq(Source) /\ Patches[r] \in Seq(Source)
        BY MigrationAssumption
      <3>2. IsPrefix(Versions[r], versionRows) => IsPrefix(Versions[r], versionRows')
        BY <1>1, <1>5, <3>1, PrefixOfGrown
      <3>3. IsPrefix(versionRows', Versions[r]) => IsPrefix(versionRows, Versions[r])
        BY <1>1, <1>5, <3>1, GrownPrefix
      <3>4. ~(predates /\ Len(schema) < Base)
        BY <1>1, <1>2, <1>3
      <3>5. Len(versionRows) > Base => Len(versionRows') > Base
        BY <1>1, <1>3, <2>1
      <3> QED BY <1>5, <3>2, <3>3, <3>4, <3>5 DEF Current, Cause
    <2> QED BY <1>1, <1>4, <1>5, <2>1, <2>3, <2>4
  <1>6. CASE patchRows' = Append(patchRows, x) /\ UNCHANGED versionRows /\ Len(versionRows) = Base
    <2>1. patchRows' \in Seq(Source)
      BY <1>1, <1>6, Appended
    <2>2. schema' = Chain(versionRows, patchRows)'
      <3>1. Chain(versionRows, Append(patchRows, x)) = Append(schema, x)
        BY <1>1, <1>2, <1>6, ChainPatch
      <3>2. Chain(versionRows, patchRows)' = Chain(versionRows', patchRows')
        BY DEF Chain
      <3> QED BY <1>6, <3>1, <3>2
    <2>3. SchemaFits'
      BY <1>1, <1>2, <1>3, <1>4, <1>6, <2>2 DEF SchemaFits, LedgersTell
    <2>4. ASSUME NEW r \in Start
          PROVE  (Current(r) => Current(r)') /\ (Cause(r) => Cause(r)')
      <3>1. Versions[r] \in Seq(Source) /\ Patches[r] \in Seq(Source)
        BY MigrationAssumption
      <3>2. IsPrefix(Patches[r], patchRows) => IsPrefix(Patches[r], patchRows')
        BY <1>1, <1>6, <3>1, PrefixOfGrown
      <3>3. IsPrefix(patchRows', Patches[r]) => IsPrefix(patchRows, Patches[r])
        BY <1>1, <1>6, <3>1, GrownPrefix
      <3>4. ~(predates /\ Len(schema) < Base) /\ ~(Len(versionRows) > Base)
        BY <1>1, <1>2, <1>3, <1>6
      <3> QED BY <1>6, <3>2, <3>3, <3>4 DEF Current, Cause
    <2> QED BY <1>1, <1>4, <1>6, <2>1, <2>3, <2>4
  <1> QED BY <1>5, <1>6

\* A patch, with its row.
LEMMA ApplyPatchKeeps ==
    ASSUME MigrationInv, NEW s \in Start, ApplyPatch(s)
    PROVE  MigrationInv'
  <1>1. /\ start[s] \in StartRow /\ start[s].pc = "applying" /\ lockHolder = s /\ Follows(s)
        /\ start[s].versions = versionRows /\ start[s].patches = patchRows
    BY DEF MigrationInv, MigrationTypeOK, StartRow, ApplyPatch, Working, Knows
  <1>2. /\ versionRows \in Seq(Source) /\ patchRows \in Seq(Source)
        /\ Patches[s] \in Seq(Source) /\ Base \in Nat \ {0}
    BY MigrationAssumption DEF MigrationInv, MigrationTypeOK
  <1>3. Len(patchRows) < Len(Patches[s]) /\ Len(versionRows) = Base
    BY <1>1 DEF ApplyPatch, PatchDue, PatchesLeft, At
  <1>4. PICK next \in Source : next = Patches[s][Len(patchRows) + 1]
    BY <1>2, <1>3
  <1>5. /\ schema' = Append(schema, next) /\ patchRows' = Append(patchRows, next)
        /\ start' = [start EXCEPT ![s].patches = patchRows', ![s].wrote = TRUE]
        /\ UNCHANGED <<versionRows, lockHolder, predates, failures>>
    <2>1. ~(Len(patchRows) > Len(start[s].patches))
      BY <1>1, <1>2
    <2>2. next = Patches[s][Len(start[s].patches) + 1]
      BY <1>1, <1>4
    <2> QED BY <2>1, <2>2, Zenon DEF ApplyPatch
  <1>6. patchRows' \in Seq(Source) /\ IsPrefix(patchRows', Patches[s]) /\ versionRows # <<>>
    BY <1>1, <1>2, <1>3, <1>4, <1>5, Appended, PrefixNext DEF Follows
  <1>7. [start[s] EXCEPT !.patches = patchRows', !.wrote = TRUE] \in StartRow
    BY <1>1, <1>6 DEF StartRow
  <1>8. PICK row \in StartRow : row = [start[s] EXCEPT !.patches = patchRows', !.wrote = TRUE]
    BY <1>7
  <1>9. start' = [start EXCEPT ![s] = row]
    BY <1>1, <1>5, <1>8 DEF StartRow
  <1>10. row.pc = "applying" /\ row.versions = versionRows /\ row.patches = patchRows'
    BY <1>1, <1>8 DEF StartRow
  <1>11. Knows(s, row)'
    <2>1. Follows(s)'
      BY <1>1, <1>5, <1>6 DEF Follows
    <2>2. Len(versionRows') <= Base
      BY <1>2, <1>3, <1>5
    <2> QED BY <1>5, <1>6, <1>10, <2>1, <2>2 DEF Knows
  <1>12. /\ schema' \in Seq(Source) /\ versionRows' \in Seq(Source) /\ patchRows' \in Seq(Source)
         /\ SchemaFits'
         /\ \A r \in Start : (Current(r) => Current(r)') /\ (Cause(r) => Cause(r)')
    BY <1>1, <1>3, <1>5, BodyFits
  <1> QED BY <1>1, <1>5, <1>9, <1>11, <1>12, StartWrites DEF Working

\* A migration, with its row.
LEMMA ApplyMigrationKeeps ==
    ASSUME MigrationInv, NEW s \in Start, ApplyMigration(s)
    PROVE  MigrationInv'
  <1>1. /\ start[s] \in StartRow /\ start[s].pc = "applying" /\ lockHolder = s /\ Follows(s)
        /\ start[s].versions = versionRows /\ start[s].patches = patchRows
    BY DEF MigrationInv, MigrationTypeOK, StartRow, ApplyMigration, Working, Knows
  <1>2. /\ versionRows \in Seq(Source) /\ patchRows \in Seq(Source)
        /\ Versions[s] \in Seq(Source) /\ Patches[s] \in Seq(Source) /\ Base \in Nat \ {0}
    BY MigrationAssumption DEF MigrationInv, MigrationTypeOK
  <1>3. Len(versionRows) < Len(Versions[s])
        /\ (Len(patchRows) < Len(Patches[s]) => Len(versionRows) < Base)
    BY <1>1, <1>2 DEF ApplyMigration, PatchDue, PatchMissed, PatchesLeft, At
  <1>4. PICK next \in Source : next = Versions[s][Len(versionRows) + 1]
    BY <1>2, <1>3
  <1>5. /\ schema' = Append(schema, next) /\ versionRows' = Append(versionRows, next)
        /\ start' = [start EXCEPT ![s].versions = versionRows', ![s].wrote = TRUE]
        /\ UNCHANGED <<patchRows, lockHolder, predates, failures>>
    <2>1. ~(Len(versionRows) > At(s))
      BY <1>1, <1>2 DEF At
    <2>2. next = Versions[s][At(s) + 1]
      BY <1>1, <1>4 DEF At
    <2> QED BY <2>1, <2>2, Zenon DEF ApplyMigration
  <1>6. /\ versionRows' \in Seq(Source) /\ Len(versionRows') = Len(versionRows) + 1
        /\ versionRows' # <<>>
    BY <1>2, <1>5, Appended
  <1>7. IsPrefix(versionRows', Versions[s])
    BY <1>1, <1>2, <1>3, <1>4, <1>5, PrefixNext DEF Follows
  <1>8. [start[s] EXCEPT !.versions = versionRows', !.wrote = TRUE] \in StartRow
    BY <1>1, <1>6 DEF StartRow
  <1>9. PICK row \in StartRow : row = [start[s] EXCEPT !.versions = versionRows', !.wrote = TRUE]
    BY <1>8
  <1>10. start' = [start EXCEPT ![s] = row]
    BY <1>1, <1>5, <1>9 DEF StartRow
  <1>11. row.pc = "applying" /\ row.versions = versionRows' /\ row.patches = patchRows
    BY <1>1, <1>9 DEF StartRow
  <1>12. Knows(s, row)'
    <2>1. Follows(s)'
      BY <1>1, <1>5, <1>7 DEF Follows
    <2>2. Len(patchRows') < Len(Patches[s]) => Len(versionRows') <= Base
      BY <1>2, <1>3, <1>5, <1>6
    <2> QED BY <1>5, <1>6, <1>11, <2>1, <2>2 DEF Knows
  <1>13. /\ schema' \in Seq(Source) /\ versionRows' \in Seq(Source) /\ patchRows' \in Seq(Source)
         /\ SchemaFits'
         /\ \A r \in Start : (Current(r) => Current(r)') /\ (Cause(r) => Cause(r)')
    BY <1>1, <1>5, BodyFits
  <1> QED BY <1>1, <1>5, <1>10, <1>12, <1>13, StartWrites DEF Working

-----------------------------------------------------------------------------

\* Every step of the runner keeps the invariant.
LEMMA MigrationStep ==
    ASSUME MigrationInv, [MigrationNext]_migrationVars
    PROVE  MigrationInv'
  <1>1. ASSUME NEW s \in Start,
               \/ Lock(s) \/ ReadLedger(s) \/ Judge(s) \/ CompareLedgers(s)
               \/ ApplyPatch(s) \/ ApplyMigration(s) \/ RefusePatch(s) \/ Done(s)
               \/ StatementFails(s) \/ Restart(s)
        PROVE  MigrationInv'
    BY <1>1, LockKeeps, ReadLedgerKeeps, JudgeKeeps, CompareLedgersKeeps, ApplyPatchKeeps,
       ApplyMigrationKeeps, RefusePatchKeeps, DoneKeeps, StatementFailsKeeps, RestartKeeps
  <1>2. CASE UNCHANGED migrationVars
    BY <1>2 DEF migrationVars, MigrationInv, MigrationTypeOK, SchemaFits, LedgersTell, Chain,
                Knows, Follows, Current, Cause
  <1> QED BY <1>1, <1>2 DEF MigrationNext

\* The invariant holds of every reachable state, with its types.
THEOREM MigrationInvariant == MigrationSpec => [](MigrationInv /\ MigrationTypeOK)
  <1>1. MigrationInv => MigrationTypeOK
    BY DEF MigrationInv
  <1> QED BY <1>1, MigrationInitially, MigrationStep, PTL DEF MigrationSpec

\* The ledgers tell what the database holds, whichever releases start, die or fail on it.
THEOREM LedgersTellTruth == MigrationSpec => []LedgersTell
  <1>1. MigrationInv => LedgersTell
    BY DEF MigrationInv, SchemaFits
  <1> QED BY <1>1, MigrationInitially, MigrationStep, PTL DEF MigrationSpec

\* Whoever came up stands on the schema of its release; who was refused has a cause and has not
\* touched the database.
THEOREM EveryStartEndsRightly == MigrationSpec => []StartsEndRightly
  <1>1. MigrationInv => StartsEndRightly
    BY DEF MigrationInv, Knows, Current, Cause, StartsEndRightly, StartedIsCurrent, RefusedForCause
  <1> QED BY <1>1, MigrationInitially, MigrationStep, PTL DEF MigrationSpec

\* Both together: ledgers that tell the truth, and starts that end rightly.
THEOREM MigrationsAreSound == MigrationSpec => []MigrationsSound
  <1>1. LedgersTell /\ StartsEndRightly => MigrationsSound
    BY DEF MigrationsSound
  <1> QED BY <1>1, LedgersTellTruth, EveryStartEndsRightly, PTL

-----------------------------------------------------------------------------
(***************************************************************************)
(* A correction of a face can be taken back and is applied once, for any   *)
(* requests, regions, claims and embeddings.  Whoever holds the face's row *)
(* works on the face it has found; the revision a command was sent with is *)
(* spent by the first request that applies it, for all its repeats; and an *)
(* undo holds an operation that stays active, so that nothing was corrected*)
(* after it.                                                               *)
(***************************************************************************)

MessageRow ==
    [pc : {"new", "sent", "checked", "locked", "over"}, command : Request \cup {NoRequest},
     kind : {"none", "geometry", "not_face", "undo"}, region : Region \cup {NoRequest},
     revision : Nat, decision : Request \cup {NoRequest}, target : Request \cup {NoRequest}]
FoundRow == [face : FaceRow, claims : Seq(ClaimRow), embeddings : Seq(EmbeddingRow), otherwise : Nat]
OperationRow == [state : {"none", "active", "superseded", "reverted"},
                 kind : {"none", "geometry", "not_face"}, found : FoundRow]

\* What is sent is complete, and a repeat follows the request that it repeats.
Messages ==
    \A q \in Request : request[q].pc # "new" =>
        /\ request[q].command \in Request /\ request[request[q].command].pc # "new"
        /\ request[q].kind \in {"geometry", "not_face", "undo"}
        /\ request[q].kind = "geometry" => request[q].region \in Region
        /\ request[q].kind = "undo" => request[q].target \in Request

\* Requests of one command were sent against one revision.
Repeats ==
    \A q, p \in Request :
        request[q].pc # "new" /\ request[p].pc # "new" /\ request[q].command = request[p].command =>
            request[q].revision = request[p].revision

\* A correction works on the face it has locked, an undo on the operation it has locked.
Holding ==
    \A q \in Request : request[q].pc = "locked" =>
        /\ Corrects(q) => /\ faceLock = q /\ AtHead(q)
                          /\ operation[q].found.face = face /\ operation[q].kind = request[q].kind
        /\ Undoes(q) => operationLock = q /\ Undone(q).state = "active"

\* A correction that took effect has spent its revision.
Spent ==
    \A q \in Request : operation[q].state # "none" =>
        /\ request[q].pc = "over" /\ request[q].revision < face.revision
        /\ operation[q].found.face.state = "valid"

\* While nobody else acts, claims and embeddings are what a correction found, or what it left.
Superseded(rows, states) == SetState(rows, InState(rows, states), "superseded")
Untouched(q) ==
    claims = operation[q].found.claims /\ embeddings = operation[q].found.embeddings
Corrected(q) ==
    \/ /\ operation[q].kind = "geometry" /\ claims = operation[q].found.claims
       /\ embeddings = Superseded(operation[q].found.embeddings, {"active"})
    \/ /\ operation[q].kind = "not_face" /\ embeddings = operation[q].found.embeddings
       /\ claims = Superseded(operation[q].found.claims, {"accepted", "candidate"})
Snapshots ==
    \A q \in Request :
        LET then == operation[q].found.otherwise IN
        /\ request[q].pc = "locked" /\ Corrects(q) =>
              then <= otherwise /\ (then = otherwise => Untouched(q))
        /\ operation[q].state = "active" =>
              then <= otherwise /\ (then = otherwise => Corrected(q))

CorrectionInv ==
    /\ CorrectionTypeOK /\ Messages /\ Repeats /\ Holding /\ Spent /\ Snapshots
    /\ RejectionReversible /\ CommandAppliedOnce

-----------------------------------------------------------------------------

LEMMA Requested == NoRequest \notin Request /\ \A q \in Request : q >= q
BY CorrectionAssumption DEF Request, NoRequest

LEMMA RowsAre ==
    ASSUME CorrectionTypeOK
    PROVE  request \in [Request -> MessageRow] /\ operation \in [Request -> OperationRow]
BY DEF CorrectionTypeOK, MessageRow, OperationRow, FoundRow

LEMMA ClaimsSet ==
    ASSUME NEW rows \in Seq(ClaimRow), NEW which,
           NEW state \in {"candidate", "accepted", "rejected", "superseded"}
    PROVE  SetState(rows, which, state) \in Seq(ClaimRow) /\ Len(SetState(rows, which, state)) = Len(rows)
<1>1. \A n \in DOMAIN rows : rows[n] \in ClaimRow
  OBVIOUS
<1>2. \A n \in DOMAIN rows : [rows[n] EXCEPT !.state = state] \in ClaimRow
  BY <1>1 DEF ClaimRow
<1>3. DOMAIN rows = 1..Len(rows) /\ Len(rows) \in Nat
  OBVIOUS
<1> DEFINE new == [n \in 1..Len(rows) |-> IF n \in which THEN [rows[n] EXCEPT !.state = state] ELSE rows[n]]
<1>4. SetState(rows, which, state) = new
  BY <1>3 DEF SetState
<1>5. new \in [1..Len(rows) -> ClaimRow]
  BY <1>1, <1>2, <1>3
<1> HIDE DEF new
<1> QED
  BY <1>3, <1>4, <1>5

LEMMA EmbeddingsSet ==
    ASSUME NEW rows \in Seq(EmbeddingRow), NEW which, NEW state \in {"active", "superseded"}
    PROVE  SetState(rows, which, state) \in Seq(EmbeddingRow)
<1>1. \A n \in DOMAIN rows : rows[n] \in EmbeddingRow
  OBVIOUS
<1>2. \A n \in DOMAIN rows : [rows[n] EXCEPT !.state = state] \in EmbeddingRow
  BY <1>1 DEF EmbeddingRow
<1>3. DOMAIN rows = 1..Len(rows) /\ Len(rows) \in Nat
  OBVIOUS
<1> DEFINE new == [n \in 1..Len(rows) |-> IF n \in which THEN [rows[n] EXCEPT !.state = state] ELSE rows[n]]
<1>4. SetState(rows, which, state) = new
  BY <1>3 DEF SetState
<1>5. new \in [1..Len(rows) -> EmbeddingRow]
  BY <1>1, <1>2, <1>3
<1> HIDE DEF new
<1> QED
  BY <1>3, <1>4, <1>5

\* A request gets on: its message stays.
LEMMA MovesFace ==
    ASSUME CorrectionTypeOK, NEW q \in Request, NEW pc \in {"checked", "locked", "over"},
           request[q].pc # "new", request' = [request EXCEPT ![q].pc = pc]
    PROVE  /\ request' \in [Request -> MessageRow] /\ request'[q].pc = pc
           /\ \A p \in Request : p # q => request'[p] = request[p]
           /\ \A p \in Request : /\ request'[p].command = request[p].command
                                 /\ request'[p].kind = request[p].kind
                                 /\ request'[p].region = request[p].region
                                 /\ request'[p].revision = request[p].revision
                                 /\ request'[p].decision = request[p].decision
                                 /\ request'[p].target = request[p].target
                                 /\ request'[p].pc = "new" <=> request[p].pc = "new"
BY RowsAre DEF MessageRow

-----------------------------------------------------------------------------
(* Steps of requests alone *)

\* A message is sent: the request was new, and its command is its own or that of a sent one.
LEMMA SendsKeeps ==
    ASSUME CorrectionInv, NEW q \in Request, NEW message \in MessageRow, Sends(q, message),
           message.pc = "sent", message.command \in Request,
           message.kind \in {"geometry", "not_face", "undo"},
           message.kind = "geometry" => message.region \in Region,
           message.kind = "undo" => message.target \in Request,
           \/ message.command = q
           \/ /\ request[message.command].pc # "new"
              /\ request[message.command].command = message.command
              /\ request[message.command].revision = message.revision
    PROVE  CorrectionInv'
<1> USE DEF CorrectionInv
<1>1. /\ request' = [request EXCEPT ![q] = message] /\ request[q].pc = "new"
      /\ UNCHANGED <<evidenceVars, recordVars, lockVars, otherwise>>
  BY Requested DEF Sends
<1>2. /\ request' \in [Request -> MessageRow] /\ request'[q] = message
      /\ \A p \in Request : p # q => request'[p] = request[p]
  BY <1>1, RowsAre
<1>3. CorrectionTypeOK'
  BY <1>1, <1>2 DEF CorrectionTypeOK, MessageRow, evidenceVars, recordVars, lockVars
<1>4. Messages'
  <2> SUFFICES ASSUME NEW p \in Request, request'[p].pc # "new"
               PROVE  /\ request'[p].command \in Request /\ request'[request'[p].command].pc # "new"
                      /\ request'[p].kind \in {"geometry", "not_face", "undo"}
                      /\ request'[p].kind = "geometry" => request'[p].region \in Region
                      /\ request'[p].kind = "undo" => request'[p].target \in Request
    BY DEF Messages
  <2>1. CASE p = q
    BY <1>1, <1>2, <2>1
  <2>2. CASE p # q
    BY <1>1, <1>2, <2>2 DEF Messages
  <2> QED
    BY <2>1, <2>2
<1>5. Repeats'
  <2>1. \A p \in Request : p # q /\ request[p].pc # "new" =>
            request[p].command # q
    BY <1>1 DEF Messages
  <2>2. \A p \in Request : p # q /\ request[p].pc # "new" /\ request[p].command = message.command =>
            request[p].revision = message.revision
    BY <1>1, <2>1 DEF Repeats
  <2>3. \A p \in Request : p # q => request'[p] = request[p]
    BY <1>2
  <2> QED
    BY <1>2, <2>2, <2>3 DEF Repeats
<1>6. \A p \in Request : operation[p].state # "none" => p # q
  BY <1>1 DEF Spent
<1>7. Spent' /\ CommandAppliedOnce'
  BY <1>1, <1>2, <1>6 DEF Spent, CommandAppliedOnce, evidenceVars, recordVars
<1>8. Holding'
  BY <1>1, <1>2 DEF Holding, Corrects, AtHead, Undoes, Undone, evidenceVars, recordVars, lockVars
<1>9. Snapshots'
  BY <1>1, <1>2 DEF Snapshots, Corrects, Untouched, Corrected, evidenceVars, recordVars
<1>10. RejectionReversible'
  BY <1>1 DEF RejectionReversible, evidenceVars, recordVars
<1> QED
  BY <1>3, <1>4, <1>5, <1>7, <1>8, <1>9, <1>10

\* A request gets on without taking effect.
LEMMA MovesKeeps ==
    ASSUME CorrectionInv, NEW q \in Request, NEW pc \in {"checked", "over"},
           request[q].pc \in {"sent", "checked", "locked"},
           request' = [request EXCEPT ![q].pc = pc],
           UNCHANGED <<evidenceVars, operation, tombstones, otherwise>>, stored' \subseteq Request,
           faceLock' = faceLock \/ (faceLock = q /\ faceLock' = NoRequest),
           operationLock' = operationLock \/ (operationLock = q /\ operationLock' = NoRequest)
    PROVE  CorrectionInv'
<1> USE DEF CorrectionInv
<1>1. /\ request' \in [Request -> MessageRow] /\ request'[q].pc = pc
      /\ \A p \in Request : p # q => request'[p] = request[p]
      /\ \A p \in Request : /\ request'[p].command = request[p].command
                            /\ request'[p].kind = request[p].kind
                            /\ request'[p].region = request[p].region
                            /\ request'[p].revision = request[p].revision
                            /\ request'[p].decision = request[p].decision
                            /\ request'[p].target = request[p].target
                            /\ request'[p].pc = "new" <=> request[p].pc = "new"
  BY MovesFace
<1>2. CorrectionTypeOK'
  <2>1. faceLock' \in Request \cup {NoRequest} /\ operationLock' \in Request \cup {NoRequest}
    BY DEF CorrectionTypeOK
  <2>2. CorrectionTypeOK
    OBVIOUS
  <2>3. UNCHANGED <<face, claims, embeddings, operation, tombstones, otherwise>>
    BY DEF evidenceVars
  <2>4. request' \in [Request -> MessageRow]
    BY <1>1
  <2>5. stored' \subseteq Request /\ tombstones' \subseteq Request
    BY <2>2, <2>3 DEF CorrectionTypeOK
  <2> QED
    BY ONLY <2>1, <2>2, <2>3, <2>4, <2>5 DEF CorrectionTypeOK, MessageRow
<1>3. Messages' /\ Repeats'
  BY <1>1 DEF Messages, Repeats
<1>4. \A p \in Request : operation[p].state # "none" => p # q
  BY DEF Spent
<1>5. Spent' /\ CommandAppliedOnce'
  BY <1>1, <1>4 DEF Spent, CommandAppliedOnce, evidenceVars
<1>6. Holding'
  BY <1>1, Requested DEF Holding, Corrects, AtHead, Undoes, Undone, evidenceVars
<1>7. Snapshots'
  BY <1>1 DEF Snapshots, Corrects, Untouched, Corrected, evidenceVars
<1>8. RejectionReversible'
  BY DEF RejectionReversible, evidenceVars
<1> QED
  BY <1>2, <1>3, <1>5, <1>6, <1>7, <1>8

LEMMA RefusedKeeps ==
    ASSUME CorrectionInv, NEW q \in Request, request[q].pc \in {"sent", "checked", "locked"}, Refused(q)
    PROVE  CorrectionInv'
<1>1. stored' \subseteq Request
  BY DEF Refused, recordVars, CorrectionInv, CorrectionTypeOK
<1> QED
  BY <1>1, MovesKeeps DEF Refused, Over, recordVars

LEMMA LookUpKeeps ==
    ASSUME CorrectionInv, NEW q \in Request, LookUp(q)
    PROVE  CorrectionInv'
<1>1. CASE Refused(q)
  BY <1>1, RefusedKeeps DEF LookUp
<1>2. CASE ~Refused(q)
  <2>1. stored' \subseteq Request
    BY <1>2 DEF LookUp, recordVars, CorrectionInv, CorrectionTypeOK
  <2> QED
    BY <1>2, <2>1, MovesKeeps DEF LookUp, recordVars, lockVars
<1> QED
  BY <1>1, <1>2

LEMMA LockOperationKeeps ==
    ASSUME CorrectionInv, NEW q \in Request, LockOperation(q)
    PROVE  CorrectionInv'
<1> USE DEF CorrectionInv
<1>1. CASE Refused(q)
  BY <1>1, RefusedKeeps DEF LockOperation
<1>2. CASE ~Refused(q)
  <2>1. /\ request' = [request EXCEPT ![q].pc = "locked"] /\ request[q].pc = "checked" /\ Undoes(q)
        /\ operationLock = NoRequest /\ operationLock' = q /\ Undone(q).state = "active"
        /\ UNCHANGED <<evidenceVars, recordVars, faceLock, otherwise>>
    BY <1>2 DEF LockOperation
  <2>2. /\ request' \in [Request -> MessageRow] /\ request'[q].pc = "locked"
        /\ \A p \in Request : p # q => request'[p] = request[p]
        /\ \A p \in Request : /\ request'[p].command = request[p].command
                              /\ request'[p].kind = request[p].kind
                              /\ request'[p].region = request[p].region
                              /\ request'[p].revision = request[p].revision
                              /\ request'[p].decision = request[p].decision
                              /\ request'[p].target = request[p].target
                              /\ request'[p].pc = "new" <=> request[p].pc = "new"
    BY <2>1, MovesFace
  <2>3. CorrectionTypeOK'
    BY <2>1, <2>2 DEF CorrectionTypeOK, MessageRow, evidenceVars, recordVars
  <2>4. Messages' /\ Repeats'
    BY <2>2 DEF Messages, Repeats
  <2>5. \A p \in Request : operation[p].state # "none" => p # q
    BY <2>1 DEF Spent
  <2>6. Spent' /\ CommandAppliedOnce'
    BY <2>1, <2>2, <2>5 DEF Spent, CommandAppliedOnce, evidenceVars, recordVars
  <2>7. Holding'
    BY <2>1, <2>2, Requested DEF Holding, Corrects, AtHead, Undoes, Undone, evidenceVars, recordVars
  <2>8. Snapshots'
    BY <2>1, <2>2 DEF Snapshots, Corrects, Undoes, Untouched, Corrected, evidenceVars, recordVars
  <2>9. RejectionReversible'
    BY <2>1 DEF RejectionReversible, evidenceVars, recordVars
  <2> QED
    BY <2>3, <2>4, <2>6, <2>7, <2>8, <2>9
<1> QED
  BY <1>1, <1>2

LEMMA AskKeeps ==
    ASSUME CorrectionInv, NEW q \in Request,
           \/ \E region \in Region : Ask(q, "geometry", region)
           \/ Ask(q, "not_face", NoRequest)
           \/ \E target \in Request : AskUndo(q, target) \/ Repeat(q, target)
    PROVE  CorrectionInv'
<1>1. face \in FaceRow /\ request \in [Request -> MessageRow]
  BY RowsAre DEF CorrectionInv, CorrectionTypeOK
<1>2. ASSUME NEW kind \in {"geometry", "not_face"}, NEW region \in Region \cup {NoRequest},
             kind = "geometry" => region \in Region, Ask(q, kind, region)
      PROVE  CorrectionInv'
  <2> DEFINE message == [pc |-> "sent", command |-> q, kind |-> kind, region |-> region,
                         revision |-> face.revision, decision |-> face.decision, target |-> NoRequest]
  <2>1. /\ message \in MessageRow /\ message.pc = "sent" /\ message.command = q
        /\ message.kind = kind /\ message.region = region
    BY <1>1, Requested DEF MessageRow, FaceRow
  <2>2. Sends(q, message)
    BY <1>2 DEF Ask
  <2> HIDE DEF message
  <2> QED
    BY <1>2, <2>1, <2>2, SendsKeeps
<1>3. ASSUME NEW target \in Request, AskUndo(q, target)
      PROVE  CorrectionInv'
  <2> DEFINE message == [NewRequest EXCEPT !.pc = "sent", !.command = q, !.kind = "undo",
                                           !.target = target]
  <2>1. /\ message \in MessageRow /\ message.pc = "sent" /\ message.command = q
        /\ message.kind = "undo" /\ message.target = target
    BY DEF MessageRow, NewRequest
  <2>2. Sends(q, message)
    BY <1>3 DEF AskUndo
  <2> HIDE DEF message
  <2> QED
    BY <2>1, <2>2, SendsKeeps
<1>4. ASSUME NEW p \in Request, Repeat(q, p)
      PROVE  CorrectionInv'
  <2> DEFINE message == [request[p] EXCEPT !.pc = "sent"]
  <2>1. /\ message \in MessageRow /\ message.pc = "sent" /\ message.command = request[p].command
        /\ message.kind = request[p].kind /\ message.target = request[p].target
        /\ message.region = request[p].region /\ message.revision = request[p].revision
    BY <1>1 DEF MessageRow
  <2>2. Sends(q, message) /\ request[p].pc # "new" /\ request[p].command = p
    BY <1>4 DEF Repeat
  <2> HIDE DEF message
  <2>3. /\ request[p].kind \in {"geometry", "not_face", "undo"}
        /\ request[p].kind = "geometry" => request[p].region \in Region
        /\ request[p].kind = "undo" => request[p].target \in Request
    BY <2>2 DEF CorrectionInv, Messages
  <2> QED
    BY <2>1, <2>2, <2>3, SendsKeeps
<1> QED
  BY <1>2, <1>3, <1>4

\* The face is locked as it is found.
LEMMA LockFaceKeeps ==
    ASSUME CorrectionInv, NEW q \in Request, LockFace(q)
    PROVE  CorrectionInv'
<1> USE DEF CorrectionInv
<1>1. request[q].pc = "checked" /\ Corrects(q) /\ faceLock = NoRequest
  BY DEF LockFace
<1>2. CASE Refused(q)
  BY <1>1, <1>2, RefusedKeeps
<1>3. CASE NothingToMove(q) /\ ~Refused(q)
  <2>1. /\ Over(q) /\ stored' = stored \cup {request[q].command}
        /\ UNCHANGED <<evidenceVars, operation, tombstones, otherwise>>
    BY <1>3 DEF LockFace
  <2>2. stored' \subseteq Request
    BY <1>1, <2>1 DEF Messages, CorrectionTypeOK
  <2> QED
    BY <1>1, <2>1, <2>2, MovesKeeps DEF Over
<1>4. CASE ~NothingToMove(q) /\ ~Refused(q)
  <2>1. /\ AtHead(q) /\ faceLock' = q
        /\ request' = [request EXCEPT ![q].pc = "locked"]
        /\ operation' = [operation EXCEPT ![q] = [@ EXCEPT !.kind = request[q].kind, !.found = Found]]
        /\ UNCHANGED <<evidenceVars, stored, tombstones, operationLock, otherwise>>
    BY <1>4 DEF LockFace
  <2>2. /\ request' \in [Request -> MessageRow] /\ request'[q].pc = "locked"
        /\ \A p \in Request : p # q => request'[p] = request[p]
        /\ \A p \in Request : /\ request'[p].command = request[p].command
                              /\ request'[p].kind = request[p].kind
                              /\ request'[p].region = request[p].region
                              /\ request'[p].revision = request[p].revision
                              /\ request'[p].decision = request[p].decision
                              /\ request'[p].target = request[p].target
                              /\ request'[p].pc = "new" <=> request[p].pc = "new"
    BY <1>1, <2>1, MovesFace
  <2>3. /\ Found \in FoundRow /\ Found.face = face /\ Found.claims = claims
        /\ Found.embeddings = embeddings /\ Found.otherwise = otherwise
    <3>1. otherwise \in Nat
      <4>1. MaxOtherwise \in Nat /\ otherwise \in 0..MaxOtherwise
        BY CorrectionAssumption DEF CorrectionTypeOK
      <4> QED
        BY <4>1
    <3> QED
      BY <3>1 DEF Found, FoundRow, CorrectionTypeOK
  <2> DEFINE row == [operation[q] EXCEPT !.kind = request[q].kind, !.found = Found]
  <2>4. row \in OperationRow /\ row.state = operation[q].state /\ row.kind = request[q].kind
        /\ row.found = Found
    <3>1. request[q].kind \in {"geometry", "not_face"}
      BY <1>1 DEF Corrects
    <3> QED
      BY <2>3, <3>1, RowsAre DEF OperationRow
  <2>5. operation[q].state = "none"
    BY <1>1 DEF Spent
  <2>6. operation' = [operation EXCEPT ![q] = row]
    BY <2>1
  <2> HIDE DEF row
  <2>7. /\ operation' \in [Request -> OperationRow]
        /\ operation'[q].state = "none" /\ operation'[q].kind = request[q].kind
        /\ operation'[q].found = Found
        /\ \A p \in Request : p # q => operation'[p] = operation[p]
    BY <2>4, <2>5, <2>6, RowsAre
  <2>8. UNCHANGED <<face, claims, embeddings, stored, tombstones, operationLock, otherwise>>
    BY <2>1 DEF evidenceVars
  <2>9. CorrectionTypeOK'
    <3>1. CorrectionTypeOK
      OBVIOUS
    <3>2. /\ request' \in [Request -> MessageRow] /\ operation' \in [Request -> OperationRow]
          /\ faceLock' \in Request \cup {NoRequest}
      BY <2>1, <2>2, <2>7
    <3> QED
      BY ONLY <2>8, <3>1, <3>2 DEF CorrectionTypeOK, MessageRow, OperationRow, FoundRow
  <2>10. Messages' /\ Repeats'
    BY <2>2 DEF Messages, Repeats
  <2>11. Spent' /\ CommandAppliedOnce'
    BY <2>2, <2>5, <2>7, <2>8 DEF Spent, CommandAppliedOnce
  <2>12. \A p \in Request : p # q => ~(request[p].pc = "locked" /\ Corrects(p))
    BY <1>1, Requested DEF Holding
  <2>13. Holding'
    <3> SUFFICES ASSUME NEW p \in Request, request'[p].pc = "locked"
                 PROVE  /\ Corrects(p)' =>
                             /\ faceLock' = p /\ AtHead(p)'
                             /\ operation'[p].found.face = face'
                             /\ operation'[p].kind = request'[p].kind
                        /\ Undoes(p)' => operationLock' = p /\ Undone(p).state' = "active"
      BY DEF Holding
    <3>1. CASE p = q
      BY <1>1, <2>1, <2>2, <2>3, <2>7, <2>8, <3>1 DEF Corrects, Undoes, AtHead
    <3>2. CASE p # q
      <4>1. request'[p] = request[p] /\ ~Corrects(p) /\ (Undoes(p) => request[p].target \in Request)
        BY <2>2, <2>12, <3>2 DEF Undoes, Messages
      <4>2. Undoes(p) => operationLock = p /\ operation[request[p].target].state = "active"
        BY <3>2, <4>1 DEF Holding, Undone
      <4>3. Undoes(p) => operation'[request[p].target].state = "active"
        BY <2>5, <2>7, <4>1, <4>2
      <4> QED
        BY <2>8, <4>1, <4>2, <4>3 DEF Corrects, Undoes, Undone
    <3> QED
      BY <3>1, <3>2
  <2>14. Snapshots'
    <3> SUFFICES ASSUME NEW p \in Request
                 PROVE  /\ request'[p].pc = "locked" /\ Corrects(p)' =>
                              /\ operation'[p].found.otherwise <= otherwise'
                              /\ operation'[p].found.otherwise = otherwise' => Untouched(p)'
                        /\ operation'[p].state = "active" =>
                              /\ operation'[p].found.otherwise <= otherwise'
                              /\ operation'[p].found.otherwise = otherwise' => Corrected(p)'
      BY DEF Snapshots
    <3>1. CASE p = q
      <4>1. otherwise <= otherwise
        BY <2>3 DEF FoundRow
      <4> QED
        BY <2>3, <2>7, <2>8, <3>1, <4>1 DEF Untouched
    <3>2. CASE p # q
      BY <2>2, <2>7, <2>8, <3>2 DEF Snapshots, Corrects, Untouched, Corrected
    <3> QED
      BY <3>1, <3>2
  <2>15. RejectionReversible'
    BY <2>5, <2>7, <2>8 DEF RejectionReversible
  <2> QED
    BY <2>9, <2>10, <2>11, <2>13, <2>14, <2>15
<1> QED
  BY <1>2, <1>3, <1>4 DEF LockFace

-----------------------------------------------------------------------------
(* The others *)

LEMMA OthersKeep ==
    ASSUME CorrectionInv, OthersAct, claims' \in Seq(ClaimRow), embeddings' \in Seq(EmbeddingRow)
    PROVE  CorrectionInv'
<1> USE DEF CorrectionInv
<1>1. UNCHANGED <<face, request, stored, operation, tombstones, faceLock, operationLock>>
  BY DEF OthersAct, recordVars, lockVars
<1>2. otherwise \in Nat /\ otherwise' = otherwise + 1 /\ otherwise' \in 0..MaxOtherwise
  <2>1. MaxOtherwise \in Nat /\ otherwise \in 0..MaxOtherwise
    BY CorrectionAssumption DEF CorrectionTypeOK
  <2> QED
    BY <2>1 DEF OthersAct
<1>3. CorrectionTypeOK'
  BY <1>1, <1>2 DEF CorrectionTypeOK
<1>4. /\ Messages' /\ Repeats' /\ Holding' /\ Spent' /\ RejectionReversible' /\ CommandAppliedOnce'
  BY <1>1 DEF Messages, Repeats, Holding, Spent, RejectionReversible, CommandAppliedOnce, Corrects,
              AtHead, Undoes, Undone
<1>5. \A p \in Request : operation[p].found.otherwise \in Nat
  BY RowsAre DEF OperationRow, FoundRow
<1>6. \A p \in Request : operation[p].found.otherwise <= otherwise =>
          operation[p].found.otherwise <= otherwise' /\ operation[p].found.otherwise # otherwise'
  BY <1>2, <1>5
<1>7. Snapshots'
  BY <1>1, <1>6 DEF Snapshots, Corrects
<1> QED
  BY <1>3, <1>4, <1>7

LEMMA OtherActionsKeep ==
    ASSUME CorrectionInv,
           \/ \E c \in DOMAIN claims : \/ AcceptClaim(c) \/ RejectClaim(c) \/ RestoreClaim(c)
                                       \/ NotThisPerson(c) \/ UndoNotThisPerson(c)
           \/ Recognize
    PROVE  CorrectionInv'
<1>1. /\ claims \in Seq(ClaimRow) /\ embeddings \in Seq(EmbeddingRow) /\ face.region \in Region
      /\ Len(claims) \in Nat /\ DOMAIN claims = 1..Len(claims)
  BY DEF CorrectionInv, CorrectionTypeOK, FaceRow
<1>2. MaxClaims \in Nat
  BY CorrectionAssumption
<1>3. \A n \in 0..MaxClaims, state \in {"candidate", "accepted", "rejected", "superseded"} :
        [state |-> state, denies |-> n] \in ClaimRow
  BY DEF ClaimRow
<1>4. ASSUME NEW c \in DOMAIN claims, AcceptClaim(c) \/ RejectClaim(c)
      PROVE  CorrectionInv'
  <2>1. claims' \in Seq(ClaimRow)
    BY <1>1, <1>4, ClaimsSet DEF AcceptClaim, RejectClaim
  <2> QED
    BY <1>1, <1>4, <2>1, OthersKeep DEF AcceptClaim, RejectClaim
<1>5. ASSUME NEW c \in DOMAIN claims, RestoreClaim(c)
      PROVE  CorrectionInv'
  <2>1. [state |-> "candidate", denies |-> 0] \in ClaimRow
    <3>1. 0 \in 0..MaxClaims
      BY <1>2
    <3> QED
      BY <1>3, <3>1
  <2>2. claims' \in Seq(ClaimRow)
    <3> DEFINE row == [state |-> "candidate", denies |-> 0]
    <3>1. row \in ClaimRow /\ claims' = [claims EXCEPT ![c] = row]
      BY <1>5, <2>1 DEF RestoreClaim
    <3> HIDE DEF row
    <3> QED
      BY <1>1, <3>1
  <2> QED
    BY <1>1, <1>5, <2>2, OthersKeep DEF RestoreClaim
<1>6. ASSUME NEW c \in DOMAIN claims, NotThisPerson(c)
      PROVE  CorrectionInv'
  <2> DEFINE row == [state |-> "rejected", denies |-> c]
             rows == SetState(claims, {c}, "superseded")
  <2>1. c \in 0..MaxClaims
    BY <1>1, <1>2, <1>6 DEF NotThisPerson
  <2>2. row \in ClaimRow /\ rows \in Seq(ClaimRow) /\ claims' = Append(rows, row)
    BY <1>1, <1>3, <1>6, <2>1, ClaimsSet DEF NotThisPerson
  <2> HIDE DEF row, rows
  <2>3. claims' \in Seq(ClaimRow)
    BY <2>2
  <2> QED
    BY <1>1, <1>6, <2>3, OthersKeep DEF NotThisPerson
<1>7. ASSUME NEW c \in DOMAIN claims, UndoNotThisPerson(c)
      PROVE  CorrectionInv'
  <2> DEFINE row == [state |-> "accepted", denies |-> 0]
             rows == SetState(claims, {c}, "superseded")
  <2>1. 0 \in 0..MaxClaims
    BY <1>2
  <2>2. row \in ClaimRow /\ rows \in Seq(ClaimRow) /\ claims' = Append(rows, row)
    BY <1>1, <1>3, <1>7, <2>1, ClaimsSet DEF UndoNotThisPerson
  <2> HIDE DEF row, rows
  <2>3. claims' \in Seq(ClaimRow)
    BY <2>2
  <2> QED
    BY <1>1, <1>7, <2>3, OthersKeep DEF UndoNotThisPerson
<1>8. CASE Recognize
  <2> DEFINE row == [state |-> "active", region |-> face.region]
             rows == SetState(embeddings, InState(embeddings, {"active"}), "superseded")
  <2>1. row \in EmbeddingRow /\ rows \in Seq(EmbeddingRow) /\ embeddings' = Append(rows, row)
    BY <1>1, <1>8, EmbeddingsSet DEF Recognize, EmbeddingRow
  <2> HIDE DEF row, rows
  <2>2. embeddings' \in Seq(EmbeddingRow)
    BY <2>1
  <2> QED
    BY <1>1, <1>8, <2>2, OthersKeep DEF Recognize
<1> QED
  BY <1>4, <1>5, <1>6, <1>7, <1>8

-----------------------------------------------------------------------------
(* A correction takes effect *)

\* Of what is active before nothing stays so, and nobody else holds anything.
LEMMA RecordedKeeps ==
    ASSUME CorrectionInv, NEW q \in Request, request[q].pc = "locked", Corrects(q), Recorded(q),
           face' \in FaceRow, face'.revision = face.revision + 1, face'.decision = q,
           face'.state = IF request[q].kind = "not_face" THEN "rejected" ELSE "valid",
           claims' \in Seq(ClaimRow), embeddings' \in Seq(EmbeddingRow),
           tombstones' = IF request[q].kind = "not_face" THEN tombstones \cup {q} ELSE tombstones,
           UNCHANGED otherwise,
           Untouched(q) =>
              \/ /\ request[q].kind = "geometry" /\ claims' = operation[q].found.claims
                 /\ embeddings' = Superseded(operation[q].found.embeddings, {"active"})
              \/ /\ request[q].kind = "not_face" /\ embeddings' = operation[q].found.embeddings
                 /\ claims' = Superseded(operation[q].found.claims, {"accepted", "candidate"})
    PROVE  CorrectionInv'
<1> USE DEF CorrectionInv
<1>1. /\ faceLock = q /\ operationLock = NoRequest /\ operation[q].found.face = face
      /\ operation[q].kind = request[q].kind
      /\ face.revision = request[q].revision /\ face.state = "valid"
  BY DEF Holding, AtHead, Recorded
<1>2. /\ request' = [request EXCEPT ![q].pc = "over"] /\ stored' = stored \cup {request[q].command}
      /\ faceLock' = NoRequest /\ operationLock' = NoRequest
  BY <1>1 DEF Recorded, Over
<1>3. /\ request' \in [Request -> MessageRow] /\ request'[q].pc = "over"
      /\ \A r \in Request : r # q => request'[r] = request[r]
      /\ \A r \in Request : /\ request'[r].command = request[r].command
                            /\ request'[r].kind = request[r].kind
                            /\ request'[r].region = request[r].region
                            /\ request'[r].revision = request[r].revision
                            /\ request'[r].decision = request[r].decision
                            /\ request'[r].target = request[r].target
                            /\ request'[r].pc = "new" <=> request[r].pc = "new"
  BY <1>2, MovesFace
<1>4. /\ operation' \in [Request -> OperationRow] /\ operation'[q].state = "active"
      /\ \A r \in Request : operation'[r].kind = operation[r].kind /\ operation'[r].found = operation[r].found
      /\ \A r \in Request : r # q =>
            operation'[r].state = IF operation[r].state = "active" THEN "superseded" ELSE operation[r].state
  <2>1. \A row \in OperationRow, state \in {"active", "superseded"} :
            LET new == [row EXCEPT !.state = state]
            IN new \in OperationRow /\ new.state = state /\ new.kind = row.kind /\ new.found = row.found
    BY DEF OperationRow
  <2> DEFINE new(r) == IF r = q THEN [operation[r] EXCEPT !.state = "active"]
                       ELSE IF operation[r].state = "active" THEN [operation[r] EXCEPT !.state = "superseded"]
                       ELSE operation[r]
  <2>2. operation' = [r \in Request |-> new(r)]
    BY DEF Recorded
  <2>3. \A r \in Request :
            /\ new(r) \in OperationRow
            /\ new(r).kind = operation[r].kind /\ new(r).found = operation[r].found
            /\ new(r).state = IF r = q THEN "active"
                              ELSE IF operation[r].state = "active" THEN "superseded"
                              ELSE operation[r].state
    BY <2>1, RowsAre
  <2> HIDE DEF new
  <2> QED
    BY <2>2, <2>3
<1>5. CorrectionTypeOK'
  <2>1. CorrectionTypeOK /\ UNCHANGED otherwise
    OBVIOUS
  <2>2. stored' \subseteq Request /\ tombstones' \subseteq Request
    BY <1>2 DEF Messages, CorrectionTypeOK
  <2>3. face' \in FaceRow /\ claims' \in Seq(ClaimRow) /\ embeddings' \in Seq(EmbeddingRow)
    OBVIOUS
  <2> QED
    BY ONLY <1>2, <1>3, <1>4, <2>1, <2>2, <2>3 DEF CorrectionTypeOK, MessageRow, OperationRow, FoundRow
<1>6. Messages' /\ Repeats'
  BY <1>3 DEF Messages, Repeats
<1>7. /\ face.revision \in Nat /\ face.revision < face'.revision
      /\ \A r \in Request : request[r].revision \in Nat
  <2>1. face.revision \in Nat
    BY DEF FaceRow, CorrectionTypeOK
  <2>2. face.revision < face'.revision
    BY <2>1
  <2>3. \A r \in Request : request[r].revision \in Nat
    BY RowsAre DEF MessageRow
  <2> QED
    BY <2>1, <2>2, <2>3
<1>8. Spent'
  <2> SUFFICES ASSUME NEW r \in Request, operation'[r].state # "none"
               PROVE  /\ request'[r].pc = "over" /\ request'[r].revision < face'.revision
                      /\ operation'[r].found.face.state = "valid"
    BY DEF Spent
  <2>1. CASE r = q
    BY <1>1, <1>3, <1>4, <1>7, <2>1
  <2>2. CASE r # q
    <3>1. operation[r].state # "none"
      BY <1>4, <2>2
    <3>2. request[r].pc = "over" /\ request[r].revision < face.revision
          /\ operation[r].found.face.state = "valid"
      BY <3>1 DEF Spent
    <3>3. request[r].revision < face'.revision
      BY <1>7, <3>2
    <3> QED
      BY <1>3, <1>4, <2>2, <3>2, <3>3
  <2> QED
    BY <2>1, <2>2
<1>9. \A r \in Request : operation[r].state # "none" => request[r].command # request[q].command
  <2> SUFFICES ASSUME NEW r \in Request, operation[r].state # "none",
                      request[r].command = request[q].command
               PROVE  FALSE
    OBVIOUS
  <2>1. request[r].pc = "over" /\ request[r].revision < face.revision
    BY DEF Spent
  <2>2. request[r].revision = request[q].revision
    BY <2>1 DEF Repeats
  <2> QED
    BY <1>1, <1>7, <2>1, <2>2
<1>10. CommandAppliedOnce'
  <2> SUFFICES ASSUME NEW r \in Request, NEW t \in Request, request'[r].command = request'[t].command,
                      operation'[r].state # "none", operation'[t].state # "none"
               PROVE  r = t
    BY DEF CommandAppliedOnce
  <2>1. \A u \in Request : u # q /\ operation'[u].state # "none" => operation[u].state # "none"
    BY <1>4
  <2>2. request[r].command = request[t].command
    BY <1>3
  <2> QED
    BY <1>9, <2>1, <2>2 DEF CommandAppliedOnce
<1>11. \A r \in Request : request'[r].pc # "locked"
  <2> SUFFICES ASSUME NEW r \in Request, request'[r].pc = "locked" PROVE FALSE
    OBVIOUS
  <2>1. r # q /\ request[r].pc = "locked"
    BY <1>3
  <2>2. Corrects(r) \/ Undoes(r)
    BY <2>1 DEF Messages, Corrects, Undoes
  <2> QED
    BY <1>1, <2>1, <2>2, Requested DEF Holding
<1>12. Holding'
  BY <1>11 DEF Holding
<1>13. \A r \in Request : operation'[r].state = "active" => r = q
  BY <1>4
<1>14. Snapshots'
  <2>1. /\ operation[q].found.otherwise <= otherwise
        /\ operation[q].found.otherwise = otherwise => Corrected(q)'
    BY <1>4, <1>1 DEF Snapshots, Corrected
  <2>2. /\ operation'[q].found.otherwise <= otherwise'
        /\ operation'[q].found.otherwise = otherwise' => Corrected(q)'
    BY <1>4, <2>1
  <2> QED
    BY <1>11, <1>13, <2>2 DEF Snapshots
<1>15. RejectionReversible'
  <2>1. tombstones = {}
    BY <1>1 DEF RejectionReversible
  <2>2. {r \in Request : operation'[r].state = "active" /\ operation'[r].kind = "not_face"}
            = IF request[q].kind = "not_face" THEN {q} ELSE {}
    BY <1>1, <1>4, <1>13
  <2>3. \A r \in Request : operation'[r].state = "active" =>
            face'.decision = r /\ face'.revision = operation'[r].found.face.revision + 1
    BY <1>1, <1>4, <1>13
  <2> QED
    BY <2>1, <2>2, <2>3 DEF RejectionReversible
<1> QED
  BY <1>5, <1>6, <1>8, <1>10, <1>12, <1>14, <1>15

LEMMA CorrectGeometryKeeps ==
    ASSUME CorrectionInv, NEW q \in Request, CorrectGeometry(q)
    PROVE  CorrectionInv'
<1>1. /\ request[q].pc = "locked" /\ request[q].kind = "geometry" /\ Recorded(q)
      /\ face' = [face EXCEPT !.region = request[q].region, !.revision = @ + 1, !.decision = q]
      /\ embeddings' = Superseded(embeddings, {"active"})
      /\ UNCHANGED <<claims, tombstones, otherwise>>
  BY DEF CorrectGeometry, Superseded
<1>2. /\ face \in FaceRow /\ request[q].region \in Region /\ claims \in Seq(ClaimRow)
      /\ embeddings' \in Seq(EmbeddingRow)
  BY <1>1, EmbeddingsSet DEF CorrectionInv, CorrectionTypeOK, Messages, Superseded
<1>3. face.state = "valid"
  BY <1>1 DEF CorrectionInv, Holding, AtHead, Corrects
<1>4. /\ face' \in FaceRow /\ face'.revision = face.revision + 1 /\ face'.decision = q
      /\ face'.state = "valid"
  <2> DEFINE n == face.revision + 1
  <2>1. n \in Nat \ {0}
    BY <1>2 DEF FaceRow
  <2>2. face' = [face EXCEPT !.region = request[q].region, !.revision = n, !.decision = q]
    BY <1>1, <1>2 DEF FaceRow
  <2> HIDE DEF n
  <2>3. /\ face' \in FaceRow /\ face'.revision = n /\ face'.decision = q
        /\ face'.state = "valid"
    BY <1>2, <1>3, <2>1, <2>2 DEF FaceRow
  <2> QED
    BY <2>3 DEF n
<1> QED
  BY <1>1, <1>2, <1>4, RecordedKeeps DEF Corrects, Untouched

LEMMA RejectObservationKeeps ==
    ASSUME CorrectionInv, NEW q \in Request, RejectObservation(q)
    PROVE  CorrectionInv'
<1>1. /\ request[q].pc = "locked" /\ request[q].kind = "not_face" /\ Recorded(q)
      /\ face' = [face EXCEPT !.state = "rejected", !.revision = @ + 1, !.decision = q]
      /\ claims' = Superseded(claims, {"accepted", "candidate"})
      /\ tombstones' = tombstones \cup {q}
      /\ UNCHANGED <<embeddings, otherwise>>
  BY DEF RejectObservation, Superseded
<1>2. /\ face \in FaceRow /\ embeddings \in Seq(EmbeddingRow) /\ claims' \in Seq(ClaimRow)
  BY <1>1, ClaimsSet DEF CorrectionInv, CorrectionTypeOK, Superseded
<1>3. /\ face' \in FaceRow /\ face'.revision = face.revision + 1 /\ face'.decision = q
      /\ face'.state = "rejected"
  <2> DEFINE n == face.revision + 1
  <2>1. n \in Nat \ {0}
    BY <1>2 DEF FaceRow
  <2>2. face' = [face EXCEPT !.state = "rejected", !.revision = n, !.decision = q]
    BY <1>1, <1>2 DEF FaceRow
  <2> HIDE DEF n
  <2>3. /\ face' \in FaceRow /\ face'.revision = n /\ face'.decision = q
        /\ face'.state = "rejected"
    BY <1>2, <2>1, <2>2 DEF FaceRow
  <2> QED
    BY <2>3 DEF n
<1> QED
  BY <1>1, <1>2, <1>3, RecordedKeeps DEF Corrects, Untouched

-----------------------------------------------------------------------------
(* A correction is taken back *)

\* What an undo does, and what it may rely on.
UndoTakesEffect(q) == Undo(q) /\ ~Refused(q)

LEMMA UndoIs ==
    ASSUME CorrectionInv, NEW q \in Request, UndoTakesEffect(q)
    PROVE  LET target == request[q].target
               found == operation[target].found
           IN /\ request[q].pc = "locked" /\ Undoes(q) /\ faceLock = NoRequest /\ operationLock = q
              /\ target \in Request /\ operation[target].state = "active" /\ found \in FoundRow
              /\ found.face.state = "valid"
              /\ \A r \in Request : operation[r].state = "active" => r = target
              /\ face.revision = found.face.revision + 1
              /\ face' = [region |-> found.face.region, state |-> found.face.state,
                          revision |-> face.revision + 1, decision |-> q]
              /\ claims' = [n \in DOMAIN claims |-> IF n \in ToRestore(found) THEN found.claims[n]
                                                    ELSE claims[n]]
              /\ embeddings' = RestoredEmbeddings(found)
              /\ tombstones' = tombstones \ {target}
              /\ operation' = [operation EXCEPT ![target].state = "reverted"]
              /\ stored' = stored \cup {request[q].command} /\ Over(q) /\ UNCHANGED otherwise
<1> USE DEF CorrectionInv
<1>1. request[q].pc = "locked" /\ Undoes(q) /\ faceLock = NoRequest
  BY DEF UndoTakesEffect, Undo
<1>2. request[q].target \in Request /\ operationLock = q /\ operation[request[q].target].state = "active"
  BY <1>1 DEF Undoes, Messages, Holding, Undone
<1>3. operation[request[q].target].found \in FoundRow
  BY <1>2, RowsAre DEF OperationRow
<1>4. operation[request[q].target].found.face.state = "valid"
  BY <1>2 DEF Spent
<1>5. \A r \in Request : operation[r].state = "active" => r = request[q].target
  BY <1>2 DEF RejectionReversible
<1> QED
  BY <1>1, <1>2, <1>3, <1>4, <1>5 DEF UndoTakesEffect, Undo, Undone

LEMMA UndoKeeps ==
    ASSUME CorrectionInv, NEW q \in Request, Undo(q)
    PROVE  CorrectionInv'
<1> USE DEF CorrectionInv
<1>1. CASE Refused(q)
  BY <1>1, RefusedKeeps DEF Undo
<1>2. CASE ~Refused(q)
  <2> DEFINE target == request[q].target
             found == operation[target].found
  <2>1. UndoTakesEffect(q)
    BY <1>2 DEF UndoTakesEffect
  <2>2. /\ request[q].pc = "locked" /\ Undoes(q) /\ faceLock = NoRequest /\ operationLock = q
        /\ target \in Request /\ operation[target].state = "active" /\ found \in FoundRow
        /\ found.face.state = "valid"
        /\ \A r \in Request : operation[r].state = "active" => r = target
    BY <2>1, UndoIs
  <2>3. /\ face' = [region |-> found.face.region, state |-> found.face.state,
                    revision |-> face.revision + 1, decision |-> q]
        /\ claims' = [n \in DOMAIN claims |-> IF n \in ToRestore(found) THEN found.claims[n]
                                              ELSE claims[n]]
        /\ embeddings' = RestoredEmbeddings(found)
        /\ tombstones' = tombstones \ {target}
        /\ operation' = [operation EXCEPT ![target].state = "reverted"]
        /\ stored' = stored \cup {request[q].command} /\ Over(q) /\ UNCHANGED otherwise
    BY <2>1, UndoIs
  <2>4. /\ request' = [request EXCEPT ![q].pc = "over"]
        /\ faceLock' = NoRequest /\ operationLock' = NoRequest
    BY <2>2, <2>3 DEF Over
  <2>5. /\ request' \in [Request -> MessageRow] /\ request'[q].pc = "over"
        /\ \A r \in Request : r # q => request'[r] = request[r]
        /\ \A r \in Request : /\ request'[r].command = request[r].command
                              /\ request'[r].kind = request[r].kind
                              /\ request'[r].region = request[r].region
                              /\ request'[r].revision = request[r].revision
                              /\ request'[r].decision = request[r].decision
                              /\ request'[r].target = request[r].target
                              /\ request'[r].pc = "new" <=> request[r].pc = "new"
    BY <2>2, <2>4, MovesFace
  <2>6. /\ operation' \in [Request -> OperationRow] /\ operation'[target].state = "reverted"
        /\ \A r \in Request : operation'[r].kind = operation[r].kind /\ operation'[r].found = operation[r].found
        /\ \A r \in Request : r # target => operation'[r] = operation[r]
    BY <2>2, <2>3, RowsAre DEF OperationRow
  <2>7. /\ claims \in Seq(ClaimRow) /\ embeddings \in Seq(EmbeddingRow) /\ face \in FaceRow
        /\ found.claims \in Seq(ClaimRow) /\ found.embeddings \in Seq(EmbeddingRow)
        /\ found.face \in FaceRow
    BY <2>2 DEF CorrectionTypeOK, FoundRow
  <2>8. claims' \in Seq(ClaimRow)
    <3>1. \A n \in ToRestore(found) : n \in DOMAIN found.claims
      BY DEF ToRestore, SnapshotClaims, InState
    <3>2. \A n \in DOMAIN claims : claims[n] \in ClaimRow
      BY <2>7
    <3>3. \A n \in DOMAIN found.claims : found.claims[n] \in ClaimRow
      BY <2>7
    <3>4. DOMAIN claims = 1..Len(claims) /\ Len(claims) \in Nat
      BY <2>7
    <3> DEFINE new == [n \in 1..Len(claims) |-> IF n \in ToRestore(found) THEN found.claims[n]
                                                ELSE claims[n]]
    <3>5. claims' = new
      BY <2>3, <3>4
    <3>6. new \in [1..Len(claims) -> ClaimRow]
      BY <3>1, <3>2, <3>3, <3>4
    <3> HIDE DEF new
    <3> QED
      BY <3>4, <3>5, <3>6
  <2>9. embeddings' \in Seq(EmbeddingRow)
    BY <2>3, <2>7, EmbeddingsSet DEF RestoredEmbeddings
  <2>10. /\ face' \in FaceRow /\ face'.revision = face.revision + 1 /\ face'.decision = q
         /\ face'.state = "valid"
    BY <2>2, <2>3, <2>7 DEF FaceRow
  <2> HIDE DEF target, found
  <2>11. CorrectionTypeOK'
    <3>1. CorrectionTypeOK
      OBVIOUS
    <3>2. stored' \subseteq Request /\ tombstones' \subseteq Request /\ otherwise' = otherwise
      BY <2>2, <2>3 DEF Messages, CorrectionTypeOK
    <3> QED
      BY ONLY <2>4, <2>5, <2>6, <2>8, <2>9, <2>10, <3>1, <3>2
         DEF CorrectionTypeOK, MessageRow, OperationRow, FoundRow
  <2>12. Messages' /\ Repeats'
    BY <2>5 DEF Messages, Repeats
  <2>13. /\ face.revision \in Nat /\ face.revision < face'.revision
         /\ \A r \in Request : request[r].revision \in Nat
    <3>1. CorrectionTypeOK /\ face \in FaceRow
      BY DEF CorrectionTypeOK
    <3>2. face.revision \in Nat
      BY <3>1 DEF FaceRow
    <3>3. \A r \in Request : request[r].revision \in Nat
      BY <3>1, RowsAre DEF MessageRow
    <3> QED
      BY <2>10, <3>2, <3>3
  <2>14. \A r \in Request : operation'[r].state # "none" => operation[r].state # "none" /\ r # q
    BY <2>2, <2>6 DEF Spent
  <2>15. Spent'
    <3> SUFFICES ASSUME NEW r \in Request, operation'[r].state # "none"
                 PROVE  /\ request'[r].pc = "over" /\ request'[r].revision < face'.revision
                        /\ operation'[r].found.face.state = "valid"
      BY DEF Spent
    <3>1. request[r].pc = "over" /\ request[r].revision < face.revision
          /\ operation[r].found.face.state = "valid"
      BY <2>14 DEF Spent
    <3>2. request[r].revision < face'.revision
      <4> HIDE DEF CorrectionInv
      <4>1. request[r].revision \in Nat /\ face.revision \in Nat
        BY <2>13
      <4>2. face'.revision = face.revision + 1 /\ request[r].revision < face.revision
        BY <2>10, <3>1
      <4> QED
        BY <4>1, <4>2
    <3> QED
      BY <2>5, <2>6, <2>14, <3>1, <3>2
  <2>16. CommandAppliedOnce'
    BY <2>5, <2>14 DEF CommandAppliedOnce
  <2>17. \A r \in Request : request'[r].pc # "locked"
    <3> SUFFICES ASSUME NEW r \in Request, request'[r].pc = "locked" PROVE FALSE
      OBVIOUS
    <3>1. r # q /\ request[r].pc = "locked"
      BY <2>5
    <3>2. Corrects(r) \/ Undoes(r)
      BY <3>1 DEF Messages, Corrects, Undoes
    <3> QED
      BY <2>2, <3>1, <3>2, Requested DEF Holding
  <2>18. \A r \in Request : operation'[r].state # "active"
    BY <2>2, <2>6
  <2>19. Holding' /\ Snapshots'
    BY <2>17, <2>18 DEF Holding, Snapshots
  <2>20. RejectionReversible'
    <3>1. tombstones \subseteq {target}
      BY <2>2 DEF RejectionReversible
    <3>2. tombstones' = {}
      BY <2>3, <3>1 DEF target
    <3> QED
      BY <2>10, <2>18, <3>2 DEF RejectionReversible
  <2> QED
    BY <2>11, <2>12, <2>15, <2>16, <2>19, <2>20
<1> QED
  BY <1>1, <1>2

LEMMA SequenceIs ==
    ASSUME NEW S, NEW rows \in Seq(S), NEW new, NEW domain, domain = DOMAIN rows,
           new = [n \in domain |-> rows[n]]
    PROVE  new = rows
<1>1. DOMAIN rows = 1..Len(rows) /\ rows \in [1..Len(rows) -> S]
  OBVIOUS
<1> QED
  BY <1>1

\* Where nobody else acted, the claims come back as they were found.
LEMMA ClaimsRestored ==
    ASSUME NEW found \in FoundRow, claims \in Seq(ClaimRow),
           claims = found.claims \/ claims = Superseded(found.claims, {"accepted", "candidate"}),
           claims' = [n \in DOMAIN claims |-> IF n \in ToRestore(found) THEN found.claims[n]
                                              ELSE claims[n]]
    PROVE  claims' = found.claims
<1>1. found.claims \in Seq(ClaimRow)
  BY DEF FoundRow
<1>2. CASE claims = found.claims
  <2>1. ToRestore(found) = {}
    BY <1>2 DEF ToRestore, SnapshotClaims, InState
  <2>2. claims' = [n \in DOMAIN claims |-> claims[n]]
    BY <2>1
  <2> QED
    BY <1>1, <1>2, <2>2, SequenceIs
<1>3. CASE claims = Superseded(found.claims, {"accepted", "candidate"})
  <2>1. claims = [n \in DOMAIN found.claims |->
                     IF n \in SnapshotClaims(found)
                     THEN [found.claims[n] EXCEPT !.state = "superseded"] ELSE found.claims[n]]
    BY <1>3 DEF Superseded, SetState, SnapshotClaims
  <2>2. DOMAIN claims = DOMAIN found.claims
    BY <2>1
  <2>3. \A n \in SnapshotClaims(found) : n \in DOMAIN found.claims /\ found.claims[n] \in ClaimRow
    BY <1>1 DEF SnapshotClaims, InState
  <2>4. \A n \in SnapshotClaims(found) : claims[n].state = "superseded"
    BY <2>1, <2>3 DEF ClaimRow
  <2>5. ToRestore(found) = SnapshotClaims(found)
    BY <2>2, <2>3, <2>4 DEF ToRestore, InState
  <2>6. \A n \in DOMAIN found.claims :
            (IF n \in ToRestore(found) THEN found.claims[n] ELSE claims[n]) = found.claims[n]
    BY <2>1, <2>5
  <2>7. claims' = [n \in DOMAIN claims |-> found.claims[n]]
    BY <2>2, <2>6
  <2> QED
    BY <1>1, <2>2, <2>7, SequenceIs
<1> QED
  BY <1>2, <1>3

LEMMA EmbeddingsRestored ==
    ASSUME NEW found \in FoundRow, embeddings \in Seq(EmbeddingRow),
           embeddings = found.embeddings \/ embeddings = Superseded(found.embeddings, {"active"})
    PROVE  RestoredEmbeddings(found) = found.embeddings
<1> DEFINE rows == found.embeddings
           active == InState(rows, {"active"})
<1>1. rows \in Seq(EmbeddingRow)
  BY DEF FoundRow
<1>2. \A n \in DOMAIN rows : rows[n] \in EmbeddingRow
  BY <1>1
<1>3. CASE embeddings = rows
  <2>1. CASE InState(embeddings, {"active"}) # {}
    BY <1>3, <2>1 DEF RestoredEmbeddings
  <2>2. CASE InState(embeddings, {"active"}) = {}
    <3>1. RestoredEmbeddings(found) = SetState(rows, {}, "active")
      BY <1>3, <2>2 DEF RestoredEmbeddings
    <3>2. SetState(rows, {}, "active") = [n \in DOMAIN rows |-> rows[n]]
      BY DEF SetState
    <3> HIDE DEF rows
    <3>3. SetState(rows, {}, "active") = rows
      BY <1>1, <3>2, SequenceIs
    <3> QED
      BY <3>1, <3>3 DEF rows
  <2> QED
    BY <2>1, <2>2
<1>4. CASE embeddings = Superseded(rows, {"active"})
  <2>1. embeddings = [n \in DOMAIN rows |->
                        IF n \in active THEN [rows[n] EXCEPT !.state = "superseded"] ELSE rows[n]]
    BY <1>4 DEF Superseded, SetState
  <2>2. \A n \in DOMAIN rows : embeddings[n].state # "active"
    BY <1>2, <2>1 DEF InState, EmbeddingRow
  <2>3. RestoredEmbeddings(found) = SetState(embeddings, active, "active")
    BY <2>1, <2>2 DEF RestoredEmbeddings, InState
  <2>4. \A row \in EmbeddingRow : row.state = "active" =>
            [[row EXCEPT !.state = "superseded"] EXCEPT !.state = "active"] = row
    BY DEF EmbeddingRow
  <2>5. \A n \in DOMAIN rows :
            (IF n \in active THEN [embeddings[n] EXCEPT !.state = "active"] ELSE embeddings[n]) = rows[n]
    BY <1>2, <2>1, <2>4 DEF InState
  <2>6. DOMAIN embeddings = DOMAIN rows
    BY <2>1
  <2>7. SetState(embeddings, active, "active") = [n \in DOMAIN rows |-> rows[n]]
    BY <2>5, <2>6 DEF SetState
  <2> HIDE DEF rows, active
  <2>8. SetState(embeddings, active, "active") = rows
    BY <1>1, <2>7, SequenceIs
  <2> QED
    BY <2>3, <2>8 DEF rows
<1> QED
  BY <1>3, <1>4

\* What UndoRestores says of one step.
RestoredBy(q) ==
    LET found == operation[q].found IN
    /\ face'.region = found.face.region /\ face'.state = found.face.state
    /\ found.otherwise = otherwise => claims' = found.claims /\ embeddings' = found.embeddings

LEMMA UndoRestoresTarget ==
    ASSUME CorrectionInv, NEW q \in Request, UndoTakesEffect(q)
    PROVE  RestoredBy(request[q].target)
<1> DEFINE target == request[q].target
           found == operation[target].found
<1>1. /\ target \in Request /\ operation[target].state = "active" /\ found \in FoundRow
      /\ face' = [region |-> found.face.region, state |-> found.face.state,
                  revision |-> face.revision + 1, decision |-> q]
      /\ claims' = [n \in DOMAIN claims |-> IF n \in ToRestore(found) THEN found.claims[n]
                                            ELSE claims[n]]
      /\ embeddings' = RestoredEmbeddings(found)
  BY UndoIs
<1>2. face'.region = found.face.region /\ face'.state = found.face.state
  BY <1>1
<1>3. claims \in Seq(ClaimRow) /\ embeddings \in Seq(EmbeddingRow)
  BY DEF CorrectionInv, CorrectionTypeOK
<1>4. found.otherwise = otherwise => Corrected(target)
  BY <1>1 DEF CorrectionInv, Snapshots
<1>5. ASSUME found.otherwise = otherwise
      PROVE  claims' = found.claims /\ embeddings' = found.embeddings
  <2>1. /\ claims = found.claims \/ claims = Superseded(found.claims, {"accepted", "candidate"})
        /\ embeddings = found.embeddings \/ embeddings = Superseded(found.embeddings, {"active"})
    BY <1>4, <1>5 DEF Corrected
  <2> HIDE DEF found
  <2> QED
    BY <1>1, <1>3, <2>1, ClaimsRestored, EmbeddingsRestored
<1> QED
  BY <1>2, <1>5 DEF RestoredBy

\* Only an undo that takes effect reverts an operation, and only its own.
LEMMA OnlyUndoReverts ==
    ASSUME CorrectionInv, [CorrectionNext]_correctionVars, NEW r \in Request,
           operation[r].state = "active", operation'[r].state = "reverted"
    PROVE  \E q \in Request : UndoTakesEffect(q) /\ request[q].target = r
<1>1. operation' # operation
  <2> SUFFICES ASSUME operation' = operation PROVE FALSE
    OBVIOUS
  <2> QED
    OBVIOUS
<1>2. \A q \in Request : ~Refused(q)
  BY <1>1 DEF Refused, recordVars
<1>3. \A q \in Request : ~LockFace(q)
  <2> SUFFICES ASSUME NEW q \in Request, LockFace(q) PROVE FALSE
    OBVIOUS
  <2>1. operation' = [operation EXCEPT ![q] = [@ EXCEPT !.kind = request[q].kind, !.found = Found]]
    BY <1>1, <1>2 DEF LockFace
  <2>2. operation'[r].state = operation[r].state
    BY <2>1, RowsAre DEF CorrectionInv, OperationRow
  <2> QED
    BY <2>2
<1>4. \A q \in Request : ~Recorded(q)
  <2> SUFFICES ASSUME NEW q \in Request, Recorded(q) PROVE FALSE
    OBVIOUS
  <2>1. operation'[r].state \in {"active", "superseded"}
    BY RowsAre DEF Recorded, CorrectionInv, OperationRow
  <2> QED
    BY <2>1
<1>5. PICK q \in Request : Undo(q)
  <2>1. \A q \in Request :
            /\ ~CorrectGeometry(q) /\ ~RejectObservation(q) /\ ~LookUp(q) /\ ~LockOperation(q) /\ ~Aborts(q)
            /\ \A region \in Region : ~Ask(q, "geometry", region)
            /\ ~Ask(q, "not_face", NoRequest)
            /\ \A p \in Request : ~AskUndo(q, p) /\ ~Repeat(q, p)
    BY <1>1, <1>2, <1>4 DEF CorrectGeometry, RejectObservation, LookUp, LockOperation, Aborts, Ask,
                            AskUndo, Repeat, Sends, recordVars
  <2>2. ~OthersAct /\ ~UNCHANGED correctionVars
    BY <1>1 DEF OthersAct, recordVars, correctionVars
  <2> QED
    BY <1>3, <2>1, <2>2 DEF CorrectionNext, AcceptClaim, RejectClaim, RestoreClaim, NotThisPerson,
                            UndoNotThisPerson, Recognize
<1>6. UndoTakesEffect(q)
  BY <1>2, <1>5 DEF UndoTakesEffect
<1>7. request[q].target = r
  BY <1>6, UndoIs
<1> QED
  BY <1>6, <1>7

-----------------------------------------------------------------------------

LEMMA CorrectionInitInv == CorrectionInit => CorrectionInv
<1> SUFFICES ASSUME CorrectionInit PROVE CorrectionInv
  OBVIOUS
<1>1. face \in FaceRow /\ face.state = "valid"
  BY CorrectionAssumption DEF CorrectionInit, FaceRow
<1>2. embeddings \in Seq(EmbeddingRow)
  <2> DEFINE row == [state |-> "active", region |-> Detected]
  <2>1. row \in EmbeddingRow /\ embeddings = <<row>>
    BY CorrectionAssumption DEF CorrectionInit, EmbeddingRow
  <2> HIDE DEF row
  <2> QED
    BY <2>1
<1>3. claims \in Seq(ClaimRow)
  <2>1. 0 \in 0..MaxClaims /\ 1 \in 0..MaxClaims
    <3>1. MaxClaims \in Nat \ {0}
      BY CorrectionAssumption
    <3> QED
      BY <3>1
  <2>2. PICK rows \in {<<"accepted">>, <<"candidate", "candidate">>, <<"superseded", "rejected">>} :
            claims = [n \in DOMAIN rows |->
                        [state |-> rows[n], denies |-> IF rows[n] = "rejected" THEN 1 ELSE 0]]
    BY DEF CorrectionInit
  <2>3. rows \in Seq({"candidate", "accepted", "rejected", "superseded"})
    <3> DEFINE States == {"candidate", "accepted", "rejected", "superseded"}
    <3>1. "accepted" \in States /\ "candidate" \in States /\ "rejected" \in States /\ "superseded" \in States
      OBVIOUS
    <3> HIDE DEF States
    <3>2. <<"accepted">> \in Seq(States) /\ <<"candidate", "candidate">> \in Seq(States)
          /\ <<"superseded", "rejected">> \in Seq(States)
      BY <3>1
    <3> QED
      BY <2>2, <3>2 DEF States
  <2>4. \A n \in DOMAIN rows :
            [state |-> rows[n], denies |-> IF rows[n] = "rejected" THEN 1 ELSE 0] \in ClaimRow
    BY <2>1, <2>3 DEF ClaimRow
  <2>5. DOMAIN rows = 1..Len(rows) /\ Len(rows) \in Nat
    BY <2>3
  <2> DEFINE new == [n \in 1..Len(rows) |->
                        [state |-> rows[n], denies |-> IF rows[n] = "rejected" THEN 1 ELSE 0]]
  <2>6. claims = new /\ new \in [1..Len(rows) -> ClaimRow]
    BY <2>2, <2>4, <2>5
  <2> HIDE DEF new
  <2> QED
    BY <2>5, <2>6
<1>4. request \in [Request -> MessageRow] /\ \A q \in Request : request[q].pc = "new"
  BY DEF CorrectionInit, NewRequest, MessageRow
<1>5. Found \in FoundRow
  <2>1. otherwise = 0
    BY DEF CorrectionInit
  <2> QED
    BY <1>1, <1>2, <1>3, <2>1 DEF Found, FoundRow
<1>6. operation \in [Request -> OperationRow] /\ \A q \in Request : operation[q].state = "none"
  BY <1>5 DEF CorrectionInit, OperationRow
<1>7. otherwise \in 0..MaxOtherwise
  <2>1. MaxOtherwise \in Nat /\ otherwise = 0
    BY CorrectionAssumption DEF CorrectionInit
  <2> QED
    BY <2>1
<1>8. stored = {} /\ tombstones = {} /\ faceLock = NoRequest /\ operationLock = NoRequest
  BY DEF CorrectionInit
<1>9. CorrectionTypeOK
  BY ONLY <1>1, <1>2, <1>3, <1>4, <1>6, <1>7, <1>8
     DEF CorrectionTypeOK, MessageRow, OperationRow, FoundRow
<1>10. Messages /\ Repeats /\ Holding /\ Spent /\ Snapshots /\ CommandAppliedOnce
  BY <1>4, <1>6 DEF Messages, Repeats, Holding, Spent, Snapshots, CommandAppliedOnce
<1>11. RejectionReversible
  BY <1>1, <1>6, <1>8 DEF RejectionReversible
<1> QED
  BY <1>9, <1>10, <1>11 DEF CorrectionInv

LEMMA CorrectionStep == CorrectionInv /\ [CorrectionNext]_correctionVars => CorrectionInv'
<1> SUFFICES ASSUME CorrectionInv, [CorrectionNext]_correctionVars PROVE CorrectionInv'
  OBVIOUS
<1>1. ASSUME NEW q \in Request,
             \/ \E region \in Region : Ask(q, "geometry", region)
             \/ Ask(q, "not_face", NoRequest)
             \/ \E target \in Request : AskUndo(q, target) \/ Repeat(q, target)
      PROVE  CorrectionInv'
  BY <1>1, AskKeeps
<1>2. ASSUME NEW q \in Request,
             LookUp(q) \/ LockFace(q) \/ CorrectGeometry(q) \/ RejectObservation(q)
      PROVE  CorrectionInv'
  BY <1>2, LookUpKeeps, LockFaceKeeps, CorrectGeometryKeeps, RejectObservationKeeps
<1>3. ASSUME NEW q \in Request, LockOperation(q) \/ Undo(q) \/ Aborts(q)
      PROVE  CorrectionInv'
  BY <1>3, LockOperationKeeps, UndoKeeps, RefusedKeeps DEF Aborts
<1>4. CASE \/ \E c \in DOMAIN claims : \/ AcceptClaim(c) \/ RejectClaim(c) \/ RestoreClaim(c)
                                       \/ NotThisPerson(c) \/ UndoNotThisPerson(c)
           \/ Recognize
  BY <1>4, OtherActionsKeep
<1>5. CASE UNCHANGED correctionVars
  <2>1. UNCHANGED <<face, claims, embeddings, request, stored, operation, tombstones, faceLock,
                    operationLock, otherwise>>
    BY <1>5 DEF correctionVars, evidenceVars, recordVars, lockVars
  <2> USE DEF CorrectionInv
  <2>2. CorrectionTypeOK'
    BY <2>1 DEF CorrectionTypeOK
  <2>3. Messages' /\ Repeats' /\ Spent' /\ RejectionReversible' /\ CommandAppliedOnce'
    BY <2>1 DEF Messages, Repeats, Spent, RejectionReversible, CommandAppliedOnce
  <2>4. Holding' /\ Snapshots'
    BY <2>1 DEF Holding, Snapshots, Corrects, AtHead, Undoes, Undone, Untouched, Corrected
  <2> QED
    BY <2>2, <2>3, <2>4
<1> QED
  BY <1>1, <1>2, <1>3, <1>4, <1>5 DEF CorrectionNext

\* Whoever holds a row relies on it, and a revision is spent once.
THEOREM CorrectionInvariant == CorrectionSpec => []CorrectionInv
BY CorrectionInitInv, CorrectionStep, PTL DEF CorrectionSpec

\* The face, its claims and embeddings, messages and operations keep their types.
THEOREM CorrectionTyped == CorrectionSpec => []CorrectionTypeOK
<1>1. CorrectionInv => CorrectionTypeOK
  BY DEF CorrectionInv
<1> QED
  BY <1>1, CorrectionInvariant, PTL

\* The last correction can always be taken back: no race leaves a rejection nobody can undo.
THEOREM CorrectionReversible == CorrectionSpec => []RejectionReversible
<1>1. CorrectionInv => RejectionReversible
  BY DEF CorrectionInv
<1> QED
  BY <1>1, CorrectionInvariant, PTL

\* A command takes effect once, however often and however concurrently it is sent.
THEOREM CorrectionOnce == CorrectionSpec => []CommandAppliedOnce
<1>1. CorrectionInv => CommandAppliedOnce
  BY DEF CorrectionInv
<1> QED
  BY <1>1, CorrectionInvariant, PTL

\* An undo restores the region and the state, and, where nobody else acted, every claim and
\* embedding.
THEOREM CorrectionUndoRestores == CorrectionSpec => UndoRestores
<1>1. ASSUME CorrectionInv, [CorrectionNext]_correctionVars
      PROVE  [\A q \in Request : operation[q].state = "active" /\ operation'[q].state = "reverted" =>
                LET found == operation[q].found IN
                /\ face'.region = found.face.region /\ face'.state = found.face.state
                /\ found.otherwise = otherwise =>
                      claims' = found.claims /\ embeddings' = found.embeddings]_correctionVars
  <2> SUFFICES ASSUME NEW q \in Request, operation[q].state = "active", operation'[q].state = "reverted"
               PROVE  RestoredBy(q)
    BY DEF RestoredBy
  <2> QED
    BY <1>1, OnlyUndoReverts, UndoRestoresTarget
<1> QED
  BY <1>1, CorrectionInvariant, PTL DEF CorrectionSpec, UndoRestores

-----------------------------------------------------------------------------
(***************************************************************************)
(* What a bounded run reports is final, and a clean report earned, for any *)
(* images, loops, limits and batches.  The calls that are under way count  *)
(* against the limit before they claim anything; what the loops hold and   *)
(* what they tallied makes up the claims; and while nobody disturbs the    *)
(* run, a call that claimed nothing found nothing left to claim.           *)
(***************************************************************************)

WorkRow == [state : {"missing", "pending", "processing", "completed", "failed", "stopped", "withdrawn"},
            tries : 0..Attempts, by : Loop \cup {Rival, NoOne}]
LoopRow == [pc : {"free", "asking", "admitted", "busy", "returned", "dead"},
            image : Image \cup {NoOne}]

Calling == {l \in Loop : loop[l].pc \in {"asking", "admitted"}}
Busy == {l \in Loop : loop[l].pc = "busy"}
Tally == summary.completed + summary.failed + summary.retryPending

\* A job that is processed has somebody who is at it, or has died at it.
Attended ==
    /\ \A i \in Image :
        /\ work[i].by # NoOne <=> work[i].state = "processing"
        /\ work[i].by \in Loop =>
              \/ loop[work[i].by].pc = "dead"
              \/ loop[work[i].by].pc = "busy" /\ loop[work[i].by].image = i
        /\ work[i].state \in {"missing", "pending", "stopped"} => work[i].tries < Attempts
        /\ i \in done => work[i].state = "completed"
    /\ \A l \in Loop : loop[l].pc = "busy" => loop[l].image \in Image

\* Calls, claims and tallies add up.
Counted ==
    /\ taken + Cardinality(Calling) <= issued
    /\ Tally + Cardinality(Busy) <= taken
    /\ taken <= Tally + Cardinality(Busy) + Cardinality(Dead)
    /\ summary.completed = Cardinality(done)

\* The run schedules, then works, then is over.
Phases ==
    /\ phase = "scheduling" => \A l \in Loop : loop[l].pc = "free"
    /\ phase = "over" => \A l \in Loop : Settles(l)
    /\ phase = "over" <=> report # "none"
    /\ phase # "scheduling" => In("missing") = {} \/ budget = 0
    /\ Limit - budget <= Cardinality(Image \ In("missing"))

\* Nobody disturbs the run, and every attempt succeeds.
Undisturbed ==
    meddling = 0 /\ gate = "running" /\ summary.failed = 0 /\ summary.retryPending = 0
UndisturbedRun ==
    Undisturbed =>
        /\ Dead = {}
        /\ \A i \in Image :
              /\ work[i].state \in {"missing", "pending", "processing", "completed"}
              /\ work[i].by # Rival /\ (work[i].state = "completed" => i \in done)
        /\ \/ phase # "scheduling" /\ In("pending") = {}
           \/ taken + Cardinality(Calling) = issued
        /\ \A l \in Loop : loop[l].pc = "returned" => issued = Limit \/ In("pending") = {}

BacklogInv ==
    BacklogTypeOK /\ Attended /\ Counted /\ Phases /\ UndisturbedRun /\ ReportSound

-------------------------------------------------------------------------------

LEMMA Limits ==
    /\ IsFiniteSet(Image) /\ IsFiniteSet(Loop) /\ Loop # {}
    /\ Limit \in Nat \ {0} /\ Batch \in Nat \ {0} /\ Attempts \in Nat \ {0} /\ MaxMeddling \in Nat
    /\ Rival \notin Loop /\ NoOne \notin Loop /\ NoOne # Rival
BY BacklogAssumption

LEMMA WorkAndLoops ==
    ASSUME BacklogTypeOK
    PROVE  /\ work \in [Image -> WorkRow] /\ loop \in [Loop -> LoopRow]
           /\ budget \in Nat /\ issued \in Nat /\ issued <= Limit /\ taken \in Nat /\ meddling \in Nat
           /\ summary.completed \in Nat /\ summary.failed \in Nat /\ summary.retryPending \in Nat
           /\ Tally \in Nat
<1>1. work \in [Image -> WorkRow] /\ loop \in [Loop -> LoopRow]
  BY DEF BacklogTypeOK, WorkRow, LoopRow
<1>2. summary.completed \in Nat /\ summary.failed \in Nat /\ summary.retryPending \in Nat
  BY DEF BacklogTypeOK
<1>3. Tally \in Nat
  BY <1>2 DEF Tally
<1>4. Limit \in Nat /\ MaxMeddling \in Nat
  BY Limits
<1>5. budget \in 0..Limit /\ issued \in 0..Limit /\ taken \in Nat /\ meddling \in 0..MaxMeddling
  BY DEF BacklogTypeOK
<1> QED
  BY <1>1, <1>2, <1>3, <1>4, <1>5

LEMMA Counts ==
    /\ IsFiniteSet(Calling) /\ IsFiniteSet(Busy) /\ IsFiniteSet(Dead)
    /\ Cardinality(Calling) \in Nat /\ Cardinality(Busy) \in Nat /\ Cardinality(Dead) \in Nat
BY Limits, FS_Subset, FS_CardinalityType DEF Calling, Busy, Dead

\* Sets that agree but for one element.
LEMMA ButForOne ==
    ASSUME NEW A, NEW B, IsFiniteSet(A), IsFiniteSet(B), NEW x, A \ {x} = B \ {x}
    PROVE  /\ Cardinality(A) \in Nat /\ Cardinality(B) \in Nat
           /\ Cardinality(B) + (IF x \in A THEN 1 ELSE 0) = Cardinality(A) + (IF x \in B THEN 1 ELSE 0)
<1>1. Cardinality(A) \in Nat /\ Cardinality(B) \in Nat
  BY FS_CardinalityType
<1>2. Cardinality(A \ {x}) = IF x \in A THEN Cardinality(A) - 1 ELSE Cardinality(A)
  BY FS_RemoveElement
<1>3. Cardinality(B \ {x}) = IF x \in B THEN Cardinality(B) - 1 ELSE Cardinality(B)
  BY FS_RemoveElement
<1> QED
  BY <1>1, <1>2, <1>3

LEMMA LoopCounts ==
    ASSUME BacklogTypeOK, NEW l \in Loop, NEW row \in LoopRow, loop' = [loop EXCEPT ![l] = row]
    PROVE  /\ loop' \in [Loop -> LoopRow] /\ loop'[l] = row
           /\ \A k \in Loop : k # l => loop'[k] = loop[k]
           /\ Cardinality(Calling') \in Nat /\ Cardinality(Busy') \in Nat /\ Cardinality(Dead') \in Nat
           /\ Cardinality(Calling') + (IF loop[l].pc \in {"asking", "admitted"} THEN 1 ELSE 0)
                = Cardinality(Calling) + (IF row.pc \in {"asking", "admitted"} THEN 1 ELSE 0)
           /\ Cardinality(Busy') + (IF loop[l].pc = "busy" THEN 1 ELSE 0)
                = Cardinality(Busy) + (IF row.pc = "busy" THEN 1 ELSE 0)
           /\ Cardinality(Dead') + (IF loop[l].pc = "dead" THEN 1 ELSE 0)
                = Cardinality(Dead) + (IF row.pc = "dead" THEN 1 ELSE 0)
<1>1. /\ loop' \in [Loop -> LoopRow] /\ loop'[l] = row
      /\ \A k \in Loop : k # l => loop'[k] = loop[k]
  BY WorkAndLoops
<1>2. IsFiniteSet(Calling') /\ IsFiniteSet(Busy') /\ IsFiniteSet(Dead')
  BY Limits, FS_Subset DEF Calling, Busy, Dead
<1>3. /\ Calling \ {l} = Calling' \ {l} /\ Busy \ {l} = Busy' \ {l} /\ Dead \ {l} = Dead' \ {l}
  BY <1>1 DEF Calling, Busy, Dead
<1>4. /\ l \in Calling <=> loop[l].pc \in {"asking", "admitted"}
      /\ l \in Calling' <=> row.pc \in {"asking", "admitted"}
      /\ l \in Busy <=> loop[l].pc = "busy"
      /\ l \in Busy' <=> row.pc = "busy"
      /\ l \in Dead <=> loop[l].pc = "dead"
      /\ l \in Dead' <=> row.pc = "dead"
  BY <1>1 DEF Calling, Busy, Dead
<1>5. /\ Cardinality(Calling') \in Nat
      /\ Cardinality(Calling') + (IF l \in Calling THEN 1 ELSE 0)
            = Cardinality(Calling) + (IF l \in Calling' THEN 1 ELSE 0)
  BY <1>2, <1>3, Counts, ButForOne
<1>6. /\ Cardinality(Busy') \in Nat
      /\ Cardinality(Busy') + (IF l \in Busy THEN 1 ELSE 0)
            = Cardinality(Busy) + (IF l \in Busy' THEN 1 ELSE 0)
  BY <1>2, <1>3, Counts, ButForOne
<1>7. /\ Cardinality(Dead') \in Nat
      /\ Cardinality(Dead') + (IF l \in Dead THEN 1 ELSE 0)
            = Cardinality(Dead) + (IF l \in Dead' THEN 1 ELSE 0)
  BY <1>2, <1>3, Counts, ButForOne
<1> QED
  BY <1>1, <1>4, <1>5, <1>6, <1>7

\* The rows a loop moves to.
LEMMA RowsOfLoops ==
    /\ \A pc \in {"asking", "admitted", "returned", "free"} :
          [Free EXCEPT !.pc = pc] \in LoopRow /\ [Free EXCEPT !.pc = pc].pc = pc
    /\ \A i \in Image : [pc |-> "busy", image |-> i] \in LoopRow
    /\ \A row \in LoopRow : [row EXCEPT !.pc = "dead"] \in LoopRow /\ [row EXCEPT !.pc = "dead"].pc = "dead"
BY DEF Free, LoopRow

\* A loop that is at something is so in a run that works.
LEMMA Works ==
    ASSUME BacklogInv, NEW l \in Loop, loop[l].pc \in {"asking", "admitted", "busy"}
    PROVE  phase = "working"
BY DEF BacklogInv, BacklogTypeOK, Phases, Settles

\* A report is final because the loops have settled.
LEMMA FinalIs == BacklogTypeOK /\ Attended /\ Counted /\ Phases => ReportIsFinal
<1> SUFFICES ASSUME BacklogTypeOK, Attended, Counted, Phases PROVE ReportIsFinal
  OBVIOUS
<1>1. taken <= Limit
  <2>1. Limit \in Nat
    BY Limits
  <2> QED
    BY <2>1, WorkAndLoops, Counts DEF Counted
<1>2. ASSUME phase = "over"
      PROVE  /\ \A i \in Image : work[i].by \in Loop => work[i].by \in Dead
             /\ summary.completed = Cardinality(done)
             /\ taken - (summary.completed + summary.failed + summary.retryPending) \in 0..Cardinality(Dead)
  <2>1. \A l \in Loop : loop[l].pc # "busy"
    BY <1>2 DEF Phases, Settles
  <2>2. \A i \in Image : work[i].by \in Loop => work[i].by \in Dead
    BY <2>1 DEF Attended, Dead
  <2>3. Cardinality(Busy) = 0
    BY <2>1, FS_EmptySet DEF Busy
  <2>4. taken - Tally \in 0..Cardinality(Dead)
    BY <2>3, WorkAndLoops, Counts DEF Counted
  <2> QED
    BY <2>2, <2>4 DEF Counted, Tally
<1> QED
  BY <1>1, <1>2 DEF ReportIsFinal

LEMMA FinalNext == BacklogTypeOK' /\ Attended' /\ Counted' /\ Phases' => ReportIsFinal'
BY FinalIs, PTL

-------------------------------------------------------------------------------
(* Meanwhile *)

\* What others do keeps the run's books.
LEMMA OutsideKeeps ==
    ASSUME BacklogInv, RunUnchanged, work' \in [Image -> WorkRow], Attended',
           In("missing")' = In("missing"), gate' \in {"running", "paused"},
           meddling' \in 0..MaxMeddling, ~Undisturbed', meddling' # 0 \/ UNCHANGED <<gate, meddling>>
    PROVE  BacklogInv'
<1> USE DEF BacklogInv
<1>1. UNCHANGED <<phase, budget, report, issued, loop, sawPause, summary, taken, done>>
  BY DEF RunUnchanged, runVars
<1>2. BacklogTypeOK'
  BY <1>1 DEF BacklogTypeOK, WorkRow
<1>3. Counted'
  BY <1>1 DEF Counted, Calling, Busy, Dead, Tally
<1>4. Phases'
  BY <1>1 DEF Phases, Settles
<1>5. UndisturbedRun'
  BY DEF UndisturbedRun
<1>6. CleanReportEarned'
  BY <1>1 DEF ReportSound, CleanReportEarned
<1>7. ReportIsFinal'
  BY <1>2, <1>3, <1>4, FinalNext
<1> QED
  BY <1>2, <1>3, <1>4, <1>5, <1>6, <1>7 DEF ReportSound

LEMMA Meddled ==
    ASSUME BacklogTypeOK, Meddles
    PROVE  meddling' \in 0..MaxMeddling /\ meddling' # 0
<1>1. MaxMeddling \in Nat /\ meddling \in 0..MaxMeddling
  BY Limits DEF BacklogTypeOK
<1> QED
  BY <1>1 DEF Meddles

\* Rows that change while nobody takes or keeps them.
LEMMA RowsKeepAttended ==
    ASSUME Attended, UNCHANGED <<loop, done>>,
           \A i \in Image : work'[i] # work[i] =>
              /\ work[i].state # "completed"
              /\ work'[i].by # NoOne <=> work'[i].state = "processing"
              /\ work'[i].by \notin Loop
              /\ work'[i].state \in {"missing", "pending", "stopped"} => work'[i].tries < Attempts
    PROVE  Attended'
<1>1. \A i \in Image :
        /\ work'[i].by # NoOne <=> work'[i].state = "processing"
        /\ work'[i].by \in Loop =>
              \/ loop[work'[i].by].pc = "dead"
              \/ loop[work'[i].by].pc = "busy" /\ loop[work'[i].by].image = i
        /\ work'[i].state \in {"missing", "pending", "stopped"} => work'[i].tries < Attempts
        /\ i \in done => work'[i].state = "completed"
  <2> SUFFICES ASSUME NEW i \in Image
               PROVE  /\ work'[i].by # NoOne <=> work'[i].state = "processing"
                      /\ work'[i].by \in Loop =>
                            \/ loop[work'[i].by].pc = "dead"
                            \/ loop[work'[i].by].pc = "busy" /\ loop[work'[i].by].image = i
                      /\ work'[i].state \in {"missing", "pending", "stopped"} => work'[i].tries < Attempts
                      /\ i \in done => work'[i].state = "completed"
    OBVIOUS
  <2>1. CASE work'[i] = work[i]
    BY <2>1 DEF Attended
  <2>2. CASE work'[i] # work[i]
    BY <2>2 DEF Attended
  <2> QED
    BY <2>1, <2>2
<1> QED
  BY <1>1 DEF Attended

\* What becomes of a row.
LEMMA RowsOfWork ==
    ASSUME NEW row \in WorkRow
    PROVE  /\ [row EXCEPT !.state = "pending"] \in WorkRow /\ [row EXCEPT !.state = "stopped"] \in WorkRow
           /\ \A state \in {"completed", "withdrawn"} :
                [row EXCEPT !.state = state, !.by = NoOne] \in WorkRow
           /\ GivenBack(row) \in WorkRow /\ GivenBack(row).by = NoOne
           /\ GivenBack(row).state \in {"failed", "pending"}
           /\ GivenBack(row).state = "pending" => GivenBack(row).tries < Attempts
           /\ row.tries < Attempts => \A by \in Loop \cup {Rival} :
                [state |-> "processing", tries |-> row.tries + 1, by |-> by] \in WorkRow
<1>1. Attempts \in Nat \ {0} /\ row.tries \in 0..Attempts
  BY Limits DEF WorkRow
<1>2. /\ [row EXCEPT !.state = "pending"] \in WorkRow /\ [row EXCEPT !.state = "stopped"] \in WorkRow
      /\ \A state \in {"completed", "withdrawn"} :
            [row EXCEPT !.state = state, !.by = NoOne] \in WorkRow
  BY DEF WorkRow
<1>3. \A state \in {"failed", "pending"} :
        LET new == [row EXCEPT !.state = state, !.by = NoOne]
        IN new \in WorkRow /\ new.by = NoOne /\ new.state = state /\ new.tries = row.tries
  BY DEF WorkRow
<1>4. PICK state \in {"failed", "pending"} :
            /\ GivenBack(row) = [row EXCEPT !.state = state, !.by = NoOne]
            /\ state = "pending" => row.tries < Attempts
  <2> DEFINE state == IF row.tries >= Attempts THEN "failed" ELSE "pending"
  <2>1. GivenBack(row) = [row EXCEPT !.state = state, !.by = NoOne]
    BY DEF GivenBack
  <2>2. state = "pending" => row.tries < Attempts
    BY <1>1
  <2>3. state \in {"failed", "pending"}
    OBVIOUS
  <2> HIDE DEF state
  <2> QED
    BY <2>1, <2>2, <2>3
<1>5. /\ GivenBack(row) \in WorkRow /\ GivenBack(row).by = NoOne
      /\ GivenBack(row).state \in {"failed", "pending"}
      /\ GivenBack(row).state = "pending" => GivenBack(row).tries < Attempts
  BY <1>3, <1>4
<1>6. row.tries < Attempts => \A by \in Loop \cup {Rival} :
        [state |-> "processing", tries |-> row.tries + 1, by |-> by] \in WorkRow
  <2> DEFINE n == row.tries + 1
  <2> SUFFICES ASSUME row.tries < Attempts
               PROVE  \A by \in Loop \cup {Rival} : [state |-> "processing", tries |-> n, by |-> by] \in WorkRow
    OBVIOUS
  <2>1. n \in 0..Attempts
    BY <1>1
  <2> HIDE DEF n
  <2> QED
    BY <2>1 DEF WorkRow
<1> QED
  BY <1>2, <1>5, <1>6

LEMMA GateKeeps ==
    ASSUME BacklogInv, StopQueue \/ OpenQueue
    PROVE  BacklogInv'
<1> USE DEF BacklogInv
<1>1. /\ Meddles /\ RunUnchanged /\ gate' \in {"running", "paused"}
      /\ work' = [i \in Image |-> IF work[i].state = "pending" /\ gate = "running"
                                  THEN [work[i] EXCEPT !.state = "stopped"]
                                  ELSE IF work[i].state = "stopped" /\ gate = "paused"
                                  THEN [work[i] EXCEPT !.state = "pending"] ELSE work[i]]
  BY DEF StopQueue, OpenQueue
<1>2. /\ work' \in [Image -> WorkRow]
      /\ \A i \in Image : work'[i] # work[i] =>
            /\ work[i].state \in {"pending", "stopped"} /\ work'[i].state \in {"pending", "stopped"}
            /\ work'[i].by = work[i].by /\ work'[i].tries = work[i].tries
  <2>1. \A row \in WorkRow, state \in {"pending", "stopped"} :
            LET new == [row EXCEPT !.state = state]
            IN new \in WorkRow /\ new.state = state /\ new.by = row.by /\ new.tries = row.tries
    BY DEF WorkRow
  <2> QED
    BY <1>1, <2>1, WorkAndLoops
<1>3. Attended'
  <2>1. \A i \in Image : work'[i] # work[i] =>
            /\ work[i].state # "completed"
            /\ work'[i].by # NoOne <=> work'[i].state = "processing"
            /\ work'[i].by \notin Loop
            /\ work'[i].state \in {"missing", "pending", "stopped"} => work'[i].tries < Attempts
    BY <1>2, Limits DEF Attended
  <2> QED
    BY <1>1, <2>1, RowsKeepAttended DEF RunUnchanged
<1>4. In("missing")' = In("missing")
  BY <1>2 DEF In
<1> QED
  BY <1>1, <1>2, <1>3, <1>4, Meddled, OutsideKeeps DEF Undisturbed

LEMMA OutsidersKeep ==
    ASSUME BacklogInv, NEW i \in Image, Withdraw(i) \/ RivalClaims(i) \/ RivalEnds(i)
    PROVE  BacklogInv'
<1> USE DEF BacklogInv
<1>1. PICK row : work' = [work EXCEPT ![i] = row] /\
            \/ /\ Withdraw(i) /\ row = [work[i] EXCEPT !.state = "withdrawn", !.by = NoOne]
            \/ /\ RivalClaims(i)
               /\ row = [state |-> "processing", tries |-> work[i].tries + 1, by |-> Rival]
            \/ RivalEnds(i) /\ row = GivenBack(work[i])
            \/ /\ RivalEnds(i) /\ row = [work[i] EXCEPT !.state = "completed", !.by = NoOne]
  BY DEF Withdraw, RivalClaims, RivalEnds
<1>2. work \in [Image -> WorkRow]
  BY WorkAndLoops
<1>3. /\ RivalEnds(i) => work[i].state = "processing"
      /\ work[i].state = "processing" => i \notin done
      /\ RivalClaims(i) => work[i].tries < Attempts /\ work[i].state = "pending"
      /\ Withdraw(i) => work[i].state \in {"pending", "processing"}
  BY Limits DEF RivalEnds, RivalClaims, Withdraw, Attended, Dead
<1>4. /\ row \in WorkRow /\ row.by \notin Loop /\ (row.by # NoOne <=> row.state = "processing")
      /\ row.state \in {"missing", "pending", "stopped"} => row.tries < Attempts
      /\ row.state # "missing"
  <2>1. work[i] \in WorkRow
    BY <1>2
  <2>2. CASE Withdraw(i) /\ row = [work[i] EXCEPT !.state = "withdrawn", !.by = NoOne]
    BY <2>1, <2>2, RowsOfWork, Limits DEF WorkRow
  <2>3. CASE RivalClaims(i) /\ row = [state |-> "processing", tries |-> work[i].tries + 1, by |-> Rival]
    BY <1>3, <2>1, <2>3, RowsOfWork, Limits
  <2>4. CASE RivalEnds(i) /\ row = GivenBack(work[i])
    BY <2>1, <2>4, RowsOfWork, Limits
  <2>5. CASE RivalEnds(i) /\ row = [work[i] EXCEPT !.state = "completed", !.by = NoOne]
    BY <2>1, <2>5, RowsOfWork, Limits DEF WorkRow
  <2> QED
    BY <1>1, <2>2, <2>3, <2>4, <2>5
<1>5. work' \in [Image -> WorkRow] /\ work'[i] = row /\ \A j \in Image : j # i => work'[j] = work[j]
  BY <1>1, <1>2, <1>4
<1>6. work[i].state \in {"pending", "processing"}
  BY <1>1, <1>3
<1>7. RunUnchanged /\ gate' = gate
  BY DEF Withdraw, RivalClaims, RivalEnds
<1>8. Attended'
  <2>1. \A j \in Image : work'[j] # work[j] =>
            /\ work[j].state # "completed"
            /\ work'[j].by # NoOne <=> work'[j].state = "processing"
            /\ work'[j].by \notin Loop
            /\ work'[j].state \in {"missing", "pending", "stopped"} => work'[j].tries < Attempts
    BY <1>4, <1>5, <1>6
  <2> QED
    BY <1>7, <2>1, RowsKeepAttended DEF RunUnchanged
<1>9. In("missing")' = In("missing")
  BY <1>4, <1>5, <1>6 DEF In
<1>10. /\ meddling' \in 0..MaxMeddling /\ ~Undisturbed'
       /\ meddling' # 0 \/ UNCHANGED <<gate, meddling>>
  <2>1. CASE Withdraw(i) \/ RivalClaims(i)
    BY <2>1, Meddled DEF Withdraw, RivalClaims, Undisturbed
  <2>2. CASE RivalEnds(i)
    <3>1. UNCHANGED <<gate, meddling, summary>>
      BY <1>7, <2>2 DEF RivalEnds, RunUnchanged
    <3>2. ~Undisturbed
      BY <2>2 DEF RivalEnds, UndisturbedRun
    <3> QED
      BY <3>1, <3>2 DEF Undisturbed, BacklogTypeOK
  <2> QED
    BY <2>1, <2>2
<1> QED
  BY <1>5, <1>7, <1>8, <1>9, <1>10, OutsideKeeps DEF BacklogTypeOK

-------------------------------------------------------------------------------
(* A worker loop *)

\* A loop takes the work to no other phase.
LEMMA LoopKeeps ==
    ASSUME BacklogInv, phase = "working", UNCHANGED <<runVars, gate>>, BacklogTypeOK', Attended', Counted',
           UndisturbedRun', In("missing")' = In("missing")
    PROVE  BacklogInv'
<1> USE DEF BacklogInv
<1>1. UNCHANGED <<phase, budget, report>>
  BY DEF runVars
<1>2. Phases'
  BY <1>1 DEF Phases
<1>3. report' = "none"
  BY <1>1 DEF Phases
<1>4. ReportIsFinal'
  BY <1>2, FinalNext
<1> QED
  BY <1>2, <1>3, <1>4 DEF ReportSound, CleanReportEarned

\* Where a loop moves while no job does.
LEMMA LoopMoves ==
    ASSUME BacklogInv, NEW l \in Loop, NEW row \in LoopRow, loop' = [loop EXCEPT ![l] = row],
           phase = "working", loop[l].pc \in {"free", "asking", "admitted"},
           row.pc \in {"asking", "admitted", "returned", "dead"},
           UNCHANGED <<work, gate, runVars, summary, taken, done>>,
           issued' \in 0..Limit, sawPause' \in BOOLEAN, meddling' \in 0..MaxMeddling,
           issued' - issued = (IF row.pc = "asking" THEN 1 ELSE 0),
           loop[l].pc = "free" => row.pc \in {"asking", "returned"},
           loop[l].pc \in {"asking", "admitted"} => row.pc # "asking",
           meddling' # 0 \/ meddling' = meddling,
           row.pc = "dead" => meddling' # 0,
           Undisturbed /\ row.pc = "returned" =>
                (loop[l].pc = "free" /\ issued = Limit) \/ In("pending") = {}
    PROVE  BacklogInv'
<1> USE DEF BacklogInv
<1>1. /\ loop' \in [Loop -> LoopRow] /\ loop'[l] = row
      /\ \A k \in Loop : k # l => loop'[k] = loop[k]
      /\ Cardinality(Calling') \in Nat /\ Cardinality(Busy') \in Nat /\ Cardinality(Dead') \in Nat
      /\ Cardinality(Calling') + (IF loop[l].pc \in {"asking", "admitted"} THEN 1 ELSE 0)
            = Cardinality(Calling) + (IF row.pc \in {"asking", "admitted"} THEN 1 ELSE 0)
      /\ Cardinality(Busy') + (IF loop[l].pc = "busy" THEN 1 ELSE 0)
            = Cardinality(Busy) + (IF row.pc = "busy" THEN 1 ELSE 0)
      /\ Cardinality(Dead') + (IF loop[l].pc = "dead" THEN 1 ELSE 0)
            = Cardinality(Dead) + (IF row.pc = "dead" THEN 1 ELSE 0)
  BY LoopCounts
<1>2. BacklogTypeOK'
  BY <1>1 DEF BacklogTypeOK, LoopRow, runVars
<1>3. Attended'
  BY <1>1 DEF Attended
<1>4. /\ Cardinality(Busy') = Cardinality(Busy)
      /\ Cardinality(Dead') >= Cardinality(Dead)
      /\ Cardinality(Calling') - Cardinality(Calling) <= issued' - issued
      /\ loop[l].pc = "free" \/ row.pc = "admitted" \/ Cardinality(Calling') = Cardinality(Calling) - 1
      /\ loop[l].pc = "free" \/ row.pc = "admitted" =>
            Cardinality(Calling') - Cardinality(Calling) = issued' - issued
  BY <1>1, Counts
<1>5. issued \in Nat /\ issued' \in Nat /\ taken \in Nat /\ Tally \in Nat /\ Tally' = Tally
  <2>1. Limit \in Nat
    BY Limits
  <2> QED
    BY <2>1, WorkAndLoops DEF Tally
<1>9. /\ row.pc # "asking" => issued' = issued
      /\ issued = Limit => issued' = Limit
  <2>1. issued \in Nat /\ Limit \in Nat /\ issued <= Limit
    BY Limits, WorkAndLoops
  <2>2. issued' \in Nat /\ issued' <= Limit
    BY <2>1
  <2>3. row.pc # "asking" => issued' - issued = 0
    OBVIOUS
  <2>4. issued' - issued >= 0
    OBVIOUS
  <2>5. \A m, n, most \in Nat :
          /\ m - n = 0 => m = n
          /\ m - n >= 0 /\ m <= most /\ n = most => m = most
    OBVIOUS
  <2> QED
    BY <2>1, <2>2, <2>3, <2>4, <2>5
<1>6. Counted'
  BY <1>1, <1>4, <1>5, Counts DEF Counted
<1>7. UndisturbedRun'
  <2> SUFFICES ASSUME Undisturbed'
               PROVE  /\ Dead' = {}
                      /\ \A i \in Image :
                            /\ work'[i].state \in {"missing", "pending", "processing", "completed"}
                            /\ work'[i].by # Rival /\ (work'[i].state = "completed" => i \in done')
                      /\ \/ phase' # "scheduling" /\ In("pending")' = {}
                         \/ taken' + Cardinality(Calling') = issued'
                      /\ \A k \in Loop : loop'[k].pc = "returned" => issued' = Limit \/ In("pending")' = {}
    BY DEF UndisturbedRun
  <2>1. Undisturbed /\ row.pc # "dead"
    BY DEF Undisturbed
  <2>2. Dead' = {}
    BY <1>1, <2>1 DEF Dead, UndisturbedRun
  <2>3. phase' = "working" /\ In("pending")' = In("pending")
    BY DEF runVars, In
  <2>4. In("pending") = {} \/ taken' + Cardinality(Calling') = issued'
    <3> SUFFICES ASSUME In("pending") # {} PROVE taken' + Cardinality(Calling') = issued'
      OBVIOUS
    <3>1. loop[l].pc = "free" \/ row.pc = "admitted"
      BY <2>1
    <3>2. taken + Cardinality(Calling) = issued
      BY <2>1 DEF UndisturbedRun
    <3> QED
      BY <1>1, <1>4, <1>5, <3>1, <3>2, Counts
  <2>5. ASSUME NEW k \in Loop, loop'[k].pc = "returned"
        PROVE  issued' = Limit \/ In("pending") = {}
    <3>1. CASE k = l
      <4>1. row.pc = "returned"
        BY <1>1, <2>5, <3>1
      <4>2. issued = Limit \/ In("pending") = {}
        BY <2>1, <4>1
      <4>3. row.pc # "asking"
        BY <4>1
      <4> QED
        BY <1>9, <4>2, <4>3
    <3>2. CASE k # l
      <4>1. issued = Limit \/ In("pending") = {}
        BY <1>1, <2>1, <2>5, <3>2 DEF UndisturbedRun
      <4> QED
        BY <1>9, <4>1
    <3> QED
      BY <3>1, <3>2
  <2> QED
    BY <2>1, <2>2, <2>3, <2>4, <2>5 DEF UndisturbedRun
<1>8. In("missing")' = In("missing")
  BY DEF In
<1> QED
  BY <1>2, <1>3, <1>6, <1>7, <1>8, LoopKeeps

LEMMA AskNextKeeps ==
    ASSUME BacklogInv, NEW l \in Loop, AskNext(l)
    PROVE  BacklogInv'
<1>1. /\ phase = "working" /\ loop[l].pc = "free"
      /\ UNCHANGED <<work, gate, runVars, sawPause, summary, taken, done, meddling>>
  BY DEF AskNext
<1>2. issued \in Nat /\ Limit \in Nat /\ issued <= Limit
  BY Limits, WorkAndLoops DEF BacklogInv
<1>3. sawPause' \in BOOLEAN /\ meddling' \in 0..MaxMeddling
  BY <1>1 DEF BacklogInv, BacklogTypeOK
<1>4. CASE issued < Limit
  <2> DEFINE row == [Free EXCEPT !.pc = "asking"]
  <2>1. row \in LoopRow /\ row.pc = "asking"
    BY RowsOfLoops
  <2>2. loop' = [loop EXCEPT ![l] = row] /\ issued' = issued + 1
    BY <1>2, <1>4 DEF AskNext, Moves
  <2> HIDE DEF row
  <2>3. issued' \in 0..Limit /\ issued' - issued = 1
    BY <1>2, <1>4, <2>2
  <2> QED
    BY <1>1, <1>3, <2>1, <2>2, <2>3, LoopMoves
<1>5. CASE issued >= Limit
  <2> DEFINE row == [Free EXCEPT !.pc = "returned"]
  <2>1. row \in LoopRow /\ row.pc = "returned"
    BY RowsOfLoops
  <2>2. loop' = [loop EXCEPT ![l] = row] /\ issued' = issued
    BY <1>2, <1>5 DEF AskNext, Moves
  <2> HIDE DEF row
  <2>3. issued' \in 0..Limit /\ issued' - issued = 0 /\ issued = Limit
    BY <1>2, <1>5, <2>2
  <2> QED
    BY <1>1, <1>3, <2>1, <2>2, <2>3, LoopMoves
<1> QED
  BY <1>2, <1>4, <1>5

LEMMA ReadGateKeeps ==
    ASSUME BacklogInv, NEW l \in Loop, ReadGate(l)
    PROVE  BacklogInv'
<1> DEFINE pc == IF gate = "paused" THEN "returned" ELSE "admitted"
           row == [Free EXCEPT !.pc = pc]
<1>1. /\ loop[l].pc = "asking" /\ loop' = [loop EXCEPT ![l] = row] /\ sawPause' \in BOOLEAN
      /\ UNCHANGED <<work, gate, runVars, issued, summary, taken, done, meddling>>
  BY DEF ReadGate, Moves
<1>2. pc \in {"returned", "admitted"} /\ (Undisturbed => pc = "admitted")
  BY DEF Undisturbed
<1> HIDE DEF pc
<1>3. row \in LoopRow /\ row.pc = pc
  BY <1>2, RowsOfLoops
<1> HIDE DEF row
<1>4. issued' \in 0..Limit /\ issued' - issued = 0 /\ meddling' \in 0..MaxMeddling
  <2>1. issued \in Nat
    BY WorkAndLoops DEF BacklogInv
  <2> QED
    BY <1>1, <2>1 DEF BacklogInv, BacklogTypeOK
<1>5. phase = "working"
  BY <1>1, Works
<1> QED
  BY <1>1, <1>2, <1>3, <1>4, <1>5, LoopMoves

LEMMA LoopDiesKeeps ==
    ASSUME BacklogInv, NEW l \in Loop, LoopDies(l), loop[l].pc # "busy"
    PROVE  BacklogInv'
<1> DEFINE row == [loop[l] EXCEPT !.pc = "dead"]
<1>1. /\ loop[l].pc \in {"asking", "admitted"} /\ loop' = [loop EXCEPT ![l] = row]
      /\ UNCHANGED <<work, gate, runVars, issued, sawPause, summary, taken, done>>
      /\ meddling < MaxMeddling /\ meddling' = meddling + 1
  BY DEF LoopDies
<1>2. row \in LoopRow /\ row.pc = "dead"
  BY RowsOfLoops, WorkAndLoops DEF BacklogInv
<1> HIDE DEF row
<1>3. issued' \in 0..Limit /\ issued' - issued = 0 /\ sawPause' \in BOOLEAN
  <2>1. issued \in Nat
    BY WorkAndLoops DEF BacklogInv
  <2> QED
    BY <1>1, <2>1 DEF BacklogInv, BacklogTypeOK
<1>4. meddling' \in 0..MaxMeddling /\ meddling' # 0
  <2>1. MaxMeddling \in Nat /\ meddling \in Nat
    BY Limits, WorkAndLoops DEF BacklogInv
  <2> QED
    BY <1>1, <2>1
<1>5. phase = "working"
  BY <1>1, Works
<1> QED
  BY <1>1, <1>2, <1>3, <1>4, <1>5, LoopMoves

\* The loop that had a job dies with it.
LEMMA BusyLoopDiesKeeps ==
    ASSUME BacklogInv, NEW l \in Loop, LoopDies(l), loop[l].pc = "busy"
    PROVE  BacklogInv'
<1> USE DEF BacklogInv
<1> DEFINE row == [loop[l] EXCEPT !.pc = "dead"]
<1>1. /\ loop' = [loop EXCEPT ![l] = row]
      /\ UNCHANGED <<work, gate, runVars, issued, sawPause, summary, taken, done>>
      /\ meddling < MaxMeddling /\ meddling' = meddling + 1
  BY DEF LoopDies
<1>2. row \in LoopRow /\ row.pc = "dead"
  BY RowsOfLoops, WorkAndLoops
<1> HIDE DEF row
<1>3. /\ loop' \in [Loop -> LoopRow] /\ loop'[l] = row
      /\ \A k \in Loop : k # l => loop'[k] = loop[k]
      /\ Cardinality(Calling') = Cardinality(Calling) /\ Cardinality(Busy') + 1 = Cardinality(Busy)
      /\ Cardinality(Dead') = Cardinality(Dead) + 1
      /\ Cardinality(Busy') \in Nat
  <2>1. /\ loop' \in [Loop -> LoopRow] /\ loop'[l] = row
        /\ \A k \in Loop : k # l => loop'[k] = loop[k]
        /\ Cardinality(Calling') \in Nat /\ Cardinality(Busy') \in Nat /\ Cardinality(Dead') \in Nat
        /\ Cardinality(Calling') + (IF loop[l].pc \in {"asking", "admitted"} THEN 1 ELSE 0)
              = Cardinality(Calling) + (IF row.pc \in {"asking", "admitted"} THEN 1 ELSE 0)
        /\ Cardinality(Busy') + (IF loop[l].pc = "busy" THEN 1 ELSE 0)
              = Cardinality(Busy) + (IF row.pc = "busy" THEN 1 ELSE 0)
        /\ Cardinality(Dead') + (IF loop[l].pc = "dead" THEN 1 ELSE 0)
              = Cardinality(Dead) + (IF row.pc = "dead" THEN 1 ELSE 0)
    BY <1>1, <1>2, LoopCounts
  <2> QED
    BY <1>2, <2>1, Counts
<1>4. meddling' \in 0..MaxMeddling /\ meddling' # 0
  <2>1. MaxMeddling \in Nat /\ meddling \in Nat
    BY Limits, WorkAndLoops
  <2> QED
    BY <1>1, <2>1
<1>5. phase = "working"
  BY Works
<1>6. BacklogTypeOK'
  BY <1>1, <1>3, <1>4 DEF BacklogTypeOK, LoopRow, runVars
<1>7. Attended'
  BY <1>1, <1>2, <1>3 DEF Attended
<1>8. Tally \in Nat /\ Tally' = Tally /\ taken \in Nat
  BY <1>1, WorkAndLoops DEF Tally
<1>9. Counted'
  BY <1>1, <1>3, <1>8, Counts DEF Counted
<1>10. UndisturbedRun'
  BY <1>4 DEF UndisturbedRun, Undisturbed
<1>11. In("missing")' = In("missing")
  BY <1>1 DEF In
<1> QED
  BY <1>1, <1>5, <1>6, <1>7, <1>9, <1>10, <1>11, LoopKeeps

LEMMA ClaimedKeeps ==
    ASSUME BacklogInv, NEW l \in Loop, ClaimNext(l), NEW i \in In("pending"),
           work' = [work EXCEPT ![i] = [state |-> "processing", tries |-> @.tries + 1, by |-> l]],
           loop' = [loop EXCEPT ![l] = [pc |-> "busy", image |-> i]], taken' = taken + 1
    PROVE  BacklogInv'
<1> USE DEF BacklogInv
<1> DEFINE row == [pc |-> "busy", image |-> i]
           given == [state |-> "processing", tries |-> work[i].tries + 1, by |-> l]
<1>1. /\ loop[l].pc = "admitted" /\ i \in Image /\ work[i].state = "pending"
      /\ UNCHANGED <<gate, runVars, issued, sawPause, summary, done, meddling>>
  BY DEF ClaimNext, In
<1>2. phase = "working"
  BY <1>1, Works
<1>3. row \in LoopRow /\ row.pc = "busy" /\ row.image = i
  BY <1>1, RowsOfLoops
<1>4. given \in WorkRow /\ given.state = "processing" /\ given.by = l
  BY <1>1, RowsOfWork, WorkAndLoops DEF Attended
<1>5. loop' = [loop EXCEPT ![l] = row] /\ work' = [work EXCEPT ![i] = given]
  OBVIOUS
<1> HIDE DEF row, given
<1>6. /\ loop' \in [Loop -> LoopRow] /\ loop'[l] = row
      /\ \A k \in Loop : k # l => loop'[k] = loop[k]
      /\ Cardinality(Calling') + 1 = Cardinality(Calling) /\ Cardinality(Busy') = Cardinality(Busy) + 1
      /\ Cardinality(Dead') = Cardinality(Dead) /\ Cardinality(Calling') \in Nat
  <2>1. /\ loop' \in [Loop -> LoopRow] /\ loop'[l] = row
        /\ \A k \in Loop : k # l => loop'[k] = loop[k]
        /\ Cardinality(Calling') \in Nat /\ Cardinality(Busy') \in Nat /\ Cardinality(Dead') \in Nat
        /\ Cardinality(Calling') + (IF loop[l].pc \in {"asking", "admitted"} THEN 1 ELSE 0)
              = Cardinality(Calling) + (IF row.pc \in {"asking", "admitted"} THEN 1 ELSE 0)
        /\ Cardinality(Busy') + (IF loop[l].pc = "busy" THEN 1 ELSE 0)
              = Cardinality(Busy) + (IF row.pc = "busy" THEN 1 ELSE 0)
        /\ Cardinality(Dead') + (IF loop[l].pc = "dead" THEN 1 ELSE 0)
              = Cardinality(Dead) + (IF row.pc = "dead" THEN 1 ELSE 0)
    BY <1>3, <1>5, LoopCounts
  <2> QED
    BY <1>1, <1>3, <2>1, Counts
<1>7. work' \in [Image -> WorkRow] /\ work'[i] = given /\ \A j \in Image : j # i => work'[j] = work[j]
  BY <1>1, <1>4, <1>5, WorkAndLoops
<1>8. taken' \in Nat /\ taken \in Nat /\ Tally \in Nat /\ Tally' = Tally /\ issued \in Nat
  BY <1>1, WorkAndLoops DEF Tally
<1>9. BacklogTypeOK'
  BY <1>1, <1>6, <1>7, <1>8 DEF BacklogTypeOK, LoopRow, WorkRow, runVars
<1>10. Attended'
  <2>1. i \notin done
    BY <1>1 DEF Attended
  <2>2. ASSUME NEW j \in Image
        PROVE  /\ work'[j].by # NoOne <=> work'[j].state = "processing"
               /\ work'[j].by \in Loop =>
                     \/ loop'[work'[j].by].pc = "dead"
                     \/ loop'[work'[j].by].pc = "busy" /\ loop'[work'[j].by].image = j
               /\ work'[j].state \in {"missing", "pending", "stopped"} => work'[j].tries < Attempts
               /\ j \in done' => work'[j].state = "completed"
    <3>1. CASE j = i
      BY <1>1, <1>3, <1>4, <1>6, <1>7, <2>1, <3>1, Limits
    <3>2. CASE j # i
      <4>1. work[j].by # l
        BY <1>1 DEF Attended
      <4> QED
        BY <1>1, <1>6, <1>7, <3>2, <4>1 DEF Attended
    <3> QED
      BY <3>1, <3>2
  <2>3. \A k \in Loop : loop'[k].pc = "busy" => loop'[k].image \in Image
    BY <1>1, <1>3, <1>6 DEF Attended
  <2> QED
    BY <2>2, <2>3 DEF Attended
<1>11. Counted'
  BY <1>1, <1>6, <1>8, Counts DEF Counted
<1>12. UndisturbedRun'
  <2> SUFFICES ASSUME Undisturbed'
               PROVE  /\ Dead' = {}
                      /\ \A j \in Image :
                            /\ work'[j].state \in {"missing", "pending", "processing", "completed"}
                            /\ work'[j].by # Rival /\ (work'[j].state = "completed" => j \in done')
                      /\ taken' + Cardinality(Calling') = issued'
                      /\ \A k \in Loop : loop'[k].pc = "returned" => issued' = Limit
    BY DEF UndisturbedRun
  <2>1. Undisturbed /\ In("pending") # {}
    BY <1>1 DEF Undisturbed
  <2>2. Dead' = {}
    BY <1>3, <1>6, <2>1 DEF Dead, UndisturbedRun
  <2>3. \A j \in Image :
            /\ work'[j].state \in {"missing", "pending", "processing", "completed"}
            /\ work'[j].by # Rival /\ (work'[j].state = "completed" => j \in done')
    BY <1>1, <1>4, <1>7, <2>1, Limits DEF UndisturbedRun
  <2>4. taken + Cardinality(Calling) = issued
    BY <2>1 DEF UndisturbedRun
  <2>5. taken' + Cardinality(Calling') = issued'
    BY <1>1, <1>6, <1>8, <2>4, Counts
  <2>6. \A k \in Loop : loop'[k].pc = "returned" => issued' = Limit
    BY <1>1, <1>3, <1>6, <2>1 DEF UndisturbedRun
  <2> QED
    BY <2>2, <2>3, <2>5, <2>6
<1>13. In("missing")' = In("missing")
  BY <1>1, <1>4, <1>7 DEF In
<1> QED
  BY <1>1, <1>2, <1>9, <1>10, <1>11, <1>12, <1>13, LoopKeeps

LEMMA ClaimNextKeeps ==
    ASSUME BacklogInv, NEW l \in Loop, ClaimNext(l)
    PROVE  BacklogInv'
<1>1. CASE \E i \in In("pending") :
            /\ work' = [work EXCEPT ![i] = [state |-> "processing", tries |-> @.tries + 1, by |-> l]]
            /\ loop' = [loop EXCEPT ![l] = [pc |-> "busy", image |-> i]]
            /\ taken' = taken + 1
  BY <1>1, ClaimedKeeps
<1>2. CASE In("pending") = {} /\ Moves(l, "returned") /\ UNCHANGED <<work, taken>>
  <2> DEFINE row == [Free EXCEPT !.pc = "returned"]
  <2>1. /\ loop[l].pc = "admitted" /\ loop' = [loop EXCEPT ![l] = row]
        /\ UNCHANGED <<work, gate, runVars, issued, sawPause, summary, taken, done, meddling>>
    BY <1>2 DEF ClaimNext, Moves
  <2>2. row \in LoopRow /\ row.pc = "returned"
    BY RowsOfLoops
  <2> HIDE DEF row
  <2>3. /\ issued' \in 0..Limit /\ issued' - issued = 0 /\ sawPause' \in BOOLEAN
        /\ meddling' \in 0..MaxMeddling
    <3>1. issued \in Nat
      BY WorkAndLoops DEF BacklogInv
    <3> QED
      BY <2>1, <3>1 DEF BacklogInv, BacklogTypeOK
  <2>4. phase = "working"
    BY <2>1, Works
  <2> QED
    BY <1>2, <2>1, <2>2, <2>3, <2>4, LoopMoves
<1> QED
  BY <1>1, <1>2 DEF ClaimNext

LEMMA Tallies ==
    ASSUME BacklogTypeOK, NEW outcome \in {"completed", "failed", "retryPending"},
           summary' = [summary EXCEPT ![outcome] = @ + 1]
    PROVE  /\ summary' \in [{"completed", "failed", "retryPending"} -> Nat]
           /\ Tally' = Tally + 1
           /\ outcome = "completed" =>
                 /\ summary'.completed = summary.completed + 1
                 /\ summary'.failed = summary.failed /\ summary'.retryPending = summary.retryPending
           /\ outcome # "completed" =>
                 /\ summary'.completed = summary.completed
                 /\ summary'.failed # 0 \/ summary'.retryPending # 0
<1> DEFINE n == summary[outcome] + 1
<1>1. summary \in [{"completed", "failed", "retryPending"} -> Nat]
  BY DEF BacklogTypeOK
<1>2. n \in Nat /\ n # 0 /\ n = summary[outcome] + 1
  BY <1>1
<1>3. summary' = [summary EXCEPT ![outcome] = n]
  OBVIOUS
<1> HIDE DEF n
<1>4. summary' \in [{"completed", "failed", "retryPending"} -> Nat]
  BY <1>1, <1>2, <1>3
<1>5. /\ summary'[outcome] = n
      /\ \A other \in {"completed", "failed", "retryPending"} : other # outcome => summary'[other] = summary[other]
  BY <1>1, <1>3
<1>6. CASE outcome = "completed"
  <2>1. summary'.completed = n /\ summary'.failed = summary.failed /\ summary'.retryPending = summary.retryPending
    BY <1>5, <1>6
  <2>2. n = summary.completed + 1
    BY <1>2, <1>6
  <2> QED
    BY <1>4, <1>6, <2>1, <2>2, WorkAndLoops DEF Tally
<1>7. CASE outcome = "failed"
  <2>1. summary'.completed = summary.completed /\ summary'.failed = n /\ summary'.retryPending = summary.retryPending
    BY <1>5, <1>7
  <2>2. n = summary.failed + 1
    BY <1>2, <1>7
  <2> QED
    BY <1>2, <1>4, <1>7, <2>1, <2>2, WorkAndLoops DEF Tally
<1>8. CASE outcome = "retryPending"
  <2>1. summary'.completed = summary.completed /\ summary'.failed = summary.failed /\ summary'.retryPending = n
    BY <1>5, <1>8
  <2>2. n = summary.retryPending + 1
    BY <1>2, <1>8
  <2> QED
    BY <1>2, <1>4, <1>8, <2>1, <2>2, WorkAndLoops DEF Tally
<1> QED
  BY <1>6, <1>7, <1>8

\* An attempt ends in the tally, and nobody is at its job any more.
LEMMA AttemptEnds ==
    ASSUME BacklogInv, NEW l \in Loop, loop[l].pc = "busy",
           NEW outcome \in {"completed", "failed", "retryPending"}, Tallied(l, outcome),
           work' \in [Image -> WorkRow], done' \subseteq Image,
           \A j \in Image : work'[j] # work[j] =>
              /\ work[j].state = "processing" /\ work'[j].by = NoOne
              /\ work'[j].state \in {"pending", "failed", "completed"}
              /\ work'[j].state = "pending" => work'[j].tries < Attempts,
           \A j \in Image : work'[j].by # l,
           \A j \in Image : j \in done' => work'[j].state = "completed",
           outcome = "completed" =>
              /\ Cardinality(done') = Cardinality(done) + 1
              /\ \A j \in Image : work'[j] # work[j] => work'[j].state = "completed" /\ j \in done'
              /\ done \subseteq done',
           outcome # "completed" => done' = done
    PROVE  BacklogInv'
<1> USE DEF BacklogInv
<1> DEFINE row == [Free EXCEPT !.pc = "free"]
<1>1. /\ loop' = [loop EXCEPT ![l] = row] /\ summary' = [summary EXCEPT ![outcome] = @ + 1]
      /\ UNCHANGED <<gate, runVars, issued, sawPause, taken, meddling>>
  BY DEF Tallied, Moves
<1>2. phase = "working"
  BY Works
<1>3. row \in LoopRow /\ row.pc = "free"
  BY RowsOfLoops
<1> HIDE DEF row
<1>4. /\ loop' \in [Loop -> LoopRow] /\ loop'[l] = row
      /\ \A k \in Loop : k # l => loop'[k] = loop[k]
      /\ Cardinality(Calling') = Cardinality(Calling) /\ Cardinality(Busy') + 1 = Cardinality(Busy)
      /\ Cardinality(Dead') = Cardinality(Dead) /\ Cardinality(Busy') \in Nat
  <2>1. /\ loop' \in [Loop -> LoopRow] /\ loop'[l] = row
        /\ \A k \in Loop : k # l => loop'[k] = loop[k]
        /\ Cardinality(Calling') \in Nat /\ Cardinality(Busy') \in Nat /\ Cardinality(Dead') \in Nat
        /\ Cardinality(Calling') + (IF loop[l].pc \in {"asking", "admitted"} THEN 1 ELSE 0)
              = Cardinality(Calling) + (IF row.pc \in {"asking", "admitted"} THEN 1 ELSE 0)
        /\ Cardinality(Busy') + (IF loop[l].pc = "busy" THEN 1 ELSE 0)
              = Cardinality(Busy) + (IF row.pc = "busy" THEN 1 ELSE 0)
        /\ Cardinality(Dead') + (IF loop[l].pc = "dead" THEN 1 ELSE 0)
              = Cardinality(Dead) + (IF row.pc = "dead" THEN 1 ELSE 0)
    BY <1>1, <1>3, LoopCounts
  <2> QED
    BY <1>3, <2>1, Counts
<1>5. /\ summary' \in [{"completed", "failed", "retryPending"} -> Nat]
      /\ Tally' = Tally + 1
      /\ outcome = "completed" =>
            /\ summary'.completed = summary.completed + 1
            /\ summary'.failed = summary.failed /\ summary'.retryPending = summary.retryPending
      /\ outcome # "completed" =>
            /\ summary'.completed = summary.completed
            /\ summary'.failed # 0 \/ summary'.retryPending # 0
  BY <1>1, Tallies
<1>6. BacklogTypeOK'
  BY <1>1, <1>4, <1>5 DEF BacklogTypeOK, LoopRow, WorkRow, runVars
<1>7. Attended'
  <2>1. ASSUME NEW j \in Image
        PROVE  /\ work'[j].by # NoOne <=> work'[j].state = "processing"
               /\ work'[j].by \in Loop =>
                     \/ loop'[work'[j].by].pc = "dead"
                     \/ loop'[work'[j].by].pc = "busy" /\ loop'[work'[j].by].image = j
               /\ work'[j].state \in {"missing", "pending", "stopped"} => work'[j].tries < Attempts
               /\ j \in done' => work'[j].state = "completed"
    <3>1. CASE work'[j] = work[j]
      BY <1>4, <3>1 DEF Attended
    <3>2. CASE work'[j] # work[j]
      BY <3>2, Limits
    <3> QED
      BY <3>1, <3>2
  <2>2. \A k \in Loop : loop'[k].pc = "busy" => loop'[k].image \in Image
    BY <1>3, <1>4 DEF Attended
  <2> QED
    BY <2>1, <2>2 DEF Attended
<1>8. Counted'
  <2>1. summary'.completed = Cardinality(done')
    BY <1>5 DEF Counted
  <2>2. taken \in Nat /\ taken' = taken /\ issued' = issued /\ Tally \in Nat
    BY <1>1, WorkAndLoops
  <2>3. /\ taken' + Cardinality(Calling') <= issued' /\ Tally' + Cardinality(Busy') <= taken'
        /\ taken' <= Tally' + Cardinality(Busy') + Cardinality(Dead')
    BY <1>4, <1>5, <2>2, Counts DEF Counted
  <2> QED
    BY <2>1, <2>3 DEF Counted
<1>9. UndisturbedRun'
  <2> SUFFICES ASSUME Undisturbed'
               PROVE  /\ Dead' = {}
                      /\ \A j \in Image :
                            /\ work'[j].state \in {"missing", "pending", "processing", "completed"}
                            /\ work'[j].by # Rival /\ (work'[j].state = "completed" => j \in done')
                      /\ \/ phase' # "scheduling" /\ In("pending")' = {}
                         \/ taken' + Cardinality(Calling') = issued'
                      /\ \A k \in Loop : loop'[k].pc = "returned" => issued' = Limit \/ In("pending")' = {}
    BY DEF UndisturbedRun
  <2>1. outcome = "completed"
    BY <1>5 DEF Undisturbed
  <2>2. Undisturbed
    BY <1>1, <1>5, <2>1 DEF Undisturbed
  <2>3. Dead' = {}
    BY <1>3, <1>4, <2>2 DEF Dead, UndisturbedRun
  <2>4. ASSUME NEW j \in Image
        PROVE  /\ work'[j].state \in {"missing", "pending", "processing", "completed"}
               /\ work'[j].by # Rival /\ (work'[j].state = "completed" => j \in done')
    <3>1. CASE work'[j] = work[j]
      BY <2>1, <2>2, <3>1 DEF UndisturbedRun
    <3>2. CASE work'[j] # work[j]
      BY <2>1, <3>2, Limits
    <3> QED
      BY <3>1, <3>2
  <2>5. In("pending")' = In("pending")
    BY <2>1 DEF In
  <2>6. phase' = phase /\ taken' = taken /\ issued' = issued
    BY <1>1 DEF runVars
  <2> QED
    BY <1>3, <1>4, <2>2, <2>3, <2>4, <2>5, <2>6 DEF UndisturbedRun
<1>10. In("missing")' = In("missing")
  BY DEF In
<1> QED
  BY <1>1, <1>2, <1>6, <1>7, <1>8, <1>9, <1>10, LoopKeeps


\* What a loop has is a job that is processed, and not done.
LEMMA HasItsImage ==
    ASSUME BacklogInv, NEW l \in Loop, HasImage(l)
    PROVE  /\ loop[l].pc = "busy" /\ loop[l].image \in Image /\ loop[l].image \notin done
           /\ work[loop[l].image].state = "processing" /\ work[loop[l].image].by = l
           /\ \A j \in Image : work[j].by = l => j = loop[l].image
<1>1. loop[l].pc = "busy" /\ loop[l].image \in Image /\ work[loop[l].image].by = l
  BY DEF HasImage, BacklogInv, Attended
<1> QED
  BY <1>1, Limits DEF BacklogInv, Attended

LEMMA CompletesKeeps ==
    ASSUME BacklogInv, NEW l \in Loop, Completes(l)
    PROVE  BacklogInv'
<1> DEFINE i == loop[l].image
           given == [work[i] EXCEPT !.state = "completed", !.by = NoOne]
<1>1. /\ loop[l].pc = "busy" /\ i \in Image /\ i \notin done /\ work[i].state = "processing"
      /\ \A j \in Image : work[j].by = l => j = i
  BY HasItsImage DEF Completes
<1>2. work' = [work EXCEPT ![i] = given] /\ done' = done \cup {i} /\ Tallied(l, "completed")
  BY DEF Completes
<1>3. work \in [Image -> WorkRow] /\ done \subseteq Image
  BY WorkAndLoops DEF BacklogInv, BacklogTypeOK
<1>4. given \in WorkRow /\ given.state = "completed" /\ given.by = NoOne
  <2>1. work[i] \in WorkRow
    BY <1>1, <1>3
  <2> QED
    BY <2>1, RowsOfWork DEF WorkRow
<1> HIDE DEF i, given
<1>5. work' \in [Image -> WorkRow] /\ work'[i] = given /\ \A j \in Image : j # i => work'[j] = work[j]
  BY <1>1, <1>2, <1>3, <1>4
<1>6. Cardinality(done') = Cardinality(done) + 1
  <2>1. IsFiniteSet(done)
    BY <1>3, Limits, FS_Subset
  <2> QED
    BY <1>1, <1>2, <2>1, FS_AddElement
<1>7. done' \subseteq Image /\ done \subseteq done'
  BY <1>1, <1>2, <1>3
<1>8. \A j \in Image : work'[j] # work[j] =>
         /\ work[j].state = "processing" /\ work'[j].by = NoOne
         /\ work'[j].state = "completed" /\ j \in done'
  BY <1>1, <1>2, <1>4, <1>5
<1>9. \A j \in Image : work'[j].by # l
  BY <1>1, <1>4, <1>5, Limits
<1>10. \A j \in Image : j \in done' => work'[j].state = "completed"
  BY <1>2, <1>4, <1>5 DEF BacklogInv, Attended
<1> QED
  BY <1>1, <1>2, <1>5, <1>6, <1>7, <1>8, <1>9, <1>10, AttemptEnds

LEMMA FailsKeeps ==
    ASSUME BacklogInv, NEW l \in Loop, Fails(l)
    PROVE  BacklogInv'
<1> DEFINE i == loop[l].image
           given == GivenBack(work[i])
<1>1. /\ loop[l].pc = "busy" /\ i \in Image /\ i \notin done /\ work[i].state = "processing"
      /\ \A j \in Image : work[j].by = l => j = i
  BY HasItsImage DEF Fails
<1>2. PICK outcome \in {"failed", "retryPending"} :
         work' = [work EXCEPT ![i] = given] /\ done' = done /\ Tallied(l, outcome)
  BY DEF Fails
<1>3. work \in [Image -> WorkRow] /\ done \subseteq Image
  BY WorkAndLoops DEF BacklogInv, BacklogTypeOK
<1>4. /\ given \in WorkRow /\ given.by = NoOne /\ given.state \in {"failed", "pending"}
      /\ given.state = "pending" => given.tries < Attempts
  <2>1. work[i] \in WorkRow
    BY <1>1, <1>3
  <2> QED
    BY <2>1, RowsOfWork
<1> HIDE DEF i, given
<1>5. work' \in [Image -> WorkRow] /\ work'[i] = given /\ \A j \in Image : j # i => work'[j] = work[j]
  BY <1>1, <1>2, <1>3, <1>4
<1>6. \A j \in Image : work'[j] # work[j] =>
         /\ work[j].state = "processing" /\ work'[j].by = NoOne
         /\ work'[j].state \in {"pending", "failed", "completed"}
         /\ work'[j].state = "pending" => work'[j].tries < Attempts
  BY <1>1, <1>4, <1>5
<1>7. \A j \in Image : work'[j].by # l
  BY <1>1, <1>4, <1>5, Limits
<1>8. \A j \in Image : j \in done' => work'[j].state = "completed"
  BY <1>1, <1>2, <1>5 DEF BacklogInv, Attended
<1>9. outcome \in {"completed", "failed", "retryPending"} /\ outcome # "completed"
  BY <1>2
<1> QED
  BY <1>1, <1>2, <1>3, <1>5, <1>6, <1>7, <1>8, <1>9, AttemptEnds

LEMMA GoneKeeps ==
    ASSUME BacklogInv, NEW l \in Loop, FindsItGone(l)
    PROVE  BacklogInv'
<1>1. loop[l].pc = "busy" /\ ~HasImage(l) /\ Tallied(l, "retryPending") /\ UNCHANGED <<work, done>>
  BY DEF FindsItGone
<1>2. work' \in [Image -> WorkRow] /\ done' \subseteq Image
  BY <1>1, WorkAndLoops DEF BacklogInv, BacklogTypeOK
<1>3. \A j \in Image : work'[j].by # l
  BY <1>1 DEF BacklogInv, Attended, HasImage
<1>4. \A j \in Image : j \in done' => work'[j].state = "completed"
  BY <1>1 DEF BacklogInv, Attended
<1> DEFINE outcome == "retryPending"
<1>5. outcome \in {"completed", "failed", "retryPending"} /\ outcome # "completed" /\ Tallied(l, outcome)
  BY <1>1
<1> HIDE DEF outcome
<1>6. \A j \in Image : work'[j] = work[j]
  BY <1>1
<1> QED
  BY <1>1, <1>2, <1>3, <1>4, <1>5, <1>6, AttemptEnds

-------------------------------------------------------------------------------
(* Scheduling and the report *)

LEMMA MinOfTwo ==
    ASSUME NEW m \in Nat, NEW n \in Nat
    PROVE  Min({m, n}) = IF m <= n THEN m ELSE n
<1> DEFINE least == IF m <= n THEN m ELSE n
<1>1. least \in {m, n} /\ \A y \in {m, n} : least <= y
  OBVIOUS
<1>2. \A x \in {m, n} : (\A y \in {m, n} : x <= y) => x = least
  OBVIOUS
<1> HIDE DEF least
<1>3. Min({m, n}) = least
  BY <1>1, <1>2 DEF Min
<1> QED
  BY <1>3 DEF least

LEMMA MinOfThree ==
    ASSUME NEW m \in Nat, NEW n \in Nat, NEW o \in Nat
    PROVE  /\ Min({m, n, o}) \in {m, n, o}
           /\ Min({m, n, o}) <= m /\ Min({m, n, o}) <= n /\ Min({m, n, o}) <= o
<1>1. \E x \in {m, n, o} : \A y \in {m, n, o} : x <= y
  <2>1. CASE m <= n /\ m <= o
    BY <2>1
  <2>2. CASE n <= m /\ n <= o
    BY <2>2
  <2>3. CASE o <= m /\ o <= n
    BY <2>3
  <2> QED
    BY <2>1, <2>2, <2>3
<1>2. Min({m, n, o}) \in {m, n, o} /\ \A y \in {m, n, o} : Min({m, n, o}) <= y
  BY <1>1 DEF Min
<1> QED
  BY <1>2

\* Scheduling gives images a job that had none.
LEMMA Scheduled ==
    ASSUME BacklogInv, Schedule
    PROVE  \E missing \in SUBSET In("missing") :
             /\ Cardinality(missing) \in Nat /\ IsFiniteSet(missing)
             /\ budget' = budget - Cardinality(missing) /\ budget' \in 0..Limit
             /\ missing = {} => budget' = 0 \/ In("missing") = {}
             /\ phase' = IF missing = {} \/ budget' = 0 THEN "working" ELSE "scheduling"
             /\ work' = [i \in Image |-> IF i \in missing THEN [work[i] EXCEPT !.state = "pending"]
                                         ELSE work[i]]
<1>1. PICK missing \in SUBSET In("missing") :
        /\ Cardinality(missing) = Min({budget, Batch, Cardinality(In("missing"))})
        /\ work' = [i \in Image |-> IF i \in missing THEN [work[i] EXCEPT !.state = "pending"]
                                    ELSE work[i]]
        /\ budget' = budget - Cardinality(missing)
        /\ phase' = IF missing = {} \/ budget' = 0 THEN "working" ELSE "scheduling"
  BY DEF Schedule
<1> DEFINE n == Cardinality(missing)
           m == Cardinality(In("missing"))
<1>2. IsFiniteSet(In("missing")) /\ IsFiniteSet(missing)
  BY Limits, FS_Subset DEF In
<1>3. n \in Nat /\ m \in Nat /\ (missing = {} => n = 0) /\ (m = 0 => In("missing") = {})
  BY <1>2, FS_CardinalityType, FS_EmptySet
<1>4. budget \in Nat /\ budget <= Limit /\ Limit \in Nat /\ Batch \in Nat /\ Batch # 0
  BY Limits DEF BacklogInv, BacklogTypeOK
<1>5. n = Min({budget, Batch, m}) /\ budget' = budget - n
  BY <1>1
<1> HIDE DEF n, m
<1>6. n \in {budget, Batch, m} /\ n <= budget
  BY <1>3, <1>4, <1>5, MinOfThree
<1>7. budget' \in 0..Limit
  BY <1>3, <1>4, <1>5, <1>6
<1>8. missing = {} => budget' = 0 \/ In("missing") = {}
  BY <1>3, <1>4, <1>5, <1>6
<1> QED
  BY <1>1, <1>2, <1>3, <1>7, <1>8 DEF n

LEMMA ScheduleKeeps ==
    ASSUME BacklogInv, Schedule
    PROVE  BacklogInv'
<1> USE DEF BacklogInv
<1>1. PICK missing \in SUBSET In("missing") :
        /\ Cardinality(missing) \in Nat /\ IsFiniteSet(missing)
        /\ budget' = budget - Cardinality(missing) /\ budget' \in 0..Limit
        /\ missing = {} => budget' = 0 \/ In("missing") = {}
        /\ phase' = IF missing = {} \/ budget' = 0 THEN "working" ELSE "scheduling"
        /\ work' = [i \in Image |-> IF i \in missing THEN [work[i] EXCEPT !.state = "pending"]
                                    ELSE work[i]]
  BY Scheduled
<1>2. /\ phase = "scheduling"
      /\ UNCHANGED <<gate, issued, loop, sawPause, summary, report, taken, done, meddling>>
  BY DEF Schedule
<1>3. /\ work' \in [Image -> WorkRow]
      /\ \A i \in Image :
            /\ i \notin missing => work'[i] = work[i]
            /\ i \in missing =>
                  /\ work[i].state = "missing" /\ work'[i].state = "pending"
                  /\ work'[i].by = work[i].by /\ work'[i].tries = work[i].tries
  <2>1. \A row \in WorkRow :
            LET new == [row EXCEPT !.state = "pending"]
            IN new \in WorkRow /\ new.state = "pending" /\ new.by = row.by /\ new.tries = row.tries
    BY DEF WorkRow
  <2> QED
    BY <1>1, <2>1, WorkAndLoops DEF In
<1>4. phase' \in {"scheduling", "working"} /\ report = "none"
  BY <1>1, <1>2 DEF Phases
<1>5. BacklogTypeOK'
  BY <1>1, <1>2, <1>3, <1>4 DEF BacklogTypeOK, WorkRow
<1>6. Attended'
  <2>1. \A i \in Image : work'[i] # work[i] =>
            /\ work[i].state # "completed"
            /\ work'[i].by # NoOne <=> work'[i].state = "processing"
            /\ work'[i].by \notin Loop
            /\ work'[i].state \in {"missing", "pending", "stopped"} => work'[i].tries < Attempts
    BY <1>3, Limits DEF Attended
  <2> QED
    BY <1>2, <2>1, RowsKeepAttended
<1>7. Counted'
  BY <1>2 DEF Counted, Calling, Busy, Dead, Tally
<1>8. In("missing")' = In("missing") \ missing
  BY <1>3 DEF In
<1>9. Limit - budget' <= Cardinality((Image \ In("missing"))')
  <2> DEFINE had == Image \ In("missing")
             has == Image \ In("missing")'
  <2>1. has = had \cup missing /\ had \cap missing = {} /\ IsFiniteSet(had)
    BY <1>8, Limits, FS_Subset DEF In
  <2>2. Cardinality(has) = Cardinality(had) + Cardinality(missing) /\ Cardinality(had) \in Nat
    <3> HIDE DEF had, has
    <3>1. IsFiniteSet(had) /\ IsFiniteSet(missing) /\ had \cap missing = {} /\ has = had \cup missing
      BY <1>1, <2>1
    <3>2. Cardinality(had \cap missing) = 0
      BY <3>1, FS_EmptySet
    <3>3. Cardinality(had) \in Nat /\ Cardinality(missing) \in Nat
      BY <3>1, FS_CardinalityType
    <3>4. Cardinality(has) = Cardinality(had) + Cardinality(missing) - Cardinality(had \cap missing)
      BY <3>1, FS_Union
    <3> QED
      BY ONLY <3>2, <3>3, <3>4
  <2>3. Limit - budget <= Cardinality(had)
    BY DEF Phases
  <2>4. Limit \in Nat /\ budget \in Nat
    BY Limits, WorkAndLoops
  <2>5. Limit - budget' <= Cardinality(has)
    <3> HIDE DEF had, has
    <3> QED
      BY <1>1, <2>2, <2>3, <2>4
  <2> QED
    BY <2>5
<1>10. Phases'
  BY <1>1, <1>2, <1>4, <1>8, <1>9 DEF Phases
<1>11. UndisturbedRun'
  <2> SUFFICES ASSUME Undisturbed'
               PROVE  /\ Dead' = {}
                      /\ \A j \in Image :
                            /\ work'[j].state \in {"missing", "pending", "processing", "completed"}
                            /\ work'[j].by # Rival /\ (work'[j].state = "completed" => j \in done')
                      /\ taken' + Cardinality(Calling') = issued'
                      /\ \A k \in Loop : loop'[k].pc # "returned"
    BY DEF UndisturbedRun
  <2>1. Undisturbed
    BY <1>2 DEF Undisturbed
  <2>2. Dead' = {} /\ taken' + Cardinality(Calling') = issued'
    BY <1>2, <2>1 DEF UndisturbedRun, Dead, Calling
  <2>3. \A j \in Image :
            /\ work'[j].state \in {"missing", "pending", "processing", "completed"}
            /\ work'[j].by # Rival /\ (work'[j].state = "completed" => j \in done')
    BY <1>2, <1>3, <2>1 DEF UndisturbedRun
  <2>4. \A k \in Loop : loop'[k].pc # "returned"
    BY <1>2 DEF Phases
  <2> QED
    BY <2>2, <2>3, <2>4
<1>12. ReportIsFinal'
  BY <1>5, <1>6, <1>7, <1>10, FinalNext
<1>13. CleanReportEarned'
  BY <1>2, <1>4 DEF CleanReportEarned
<1> QED
  BY <1>5, <1>6, <1>7, <1>10, <1>11, <1>12, <1>13 DEF ReportSound

\* When nobody disturbed the run, it did what it was asked for, or all there was.
LEMMA DidItsWork ==
    ASSUME BacklogInv, Undisturbed, phase = "working", \A l \in Loop : Settles(l),
           taken = Cardinality(done)
    PROVE  Cardinality(done) = Min({Limit, Cardinality(Image)})
<1> USE DEF BacklogInv
<1>1. /\ Limit \in Nat /\ taken \in Nat /\ taken <= Limit
      /\ Cardinality(done) \in Nat /\ Cardinality(Image) \in Nat
      /\ Cardinality(done) <= Cardinality(Image)
  <2>1. IsFiniteSet(Image) /\ done \subseteq Image
    BY Limits DEF BacklogTypeOK
  <2>2. IsFiniteSet(done) /\ Cardinality(done) <= Cardinality(Image)
    BY <2>1, FS_Subset
  <2> QED
    BY <2>1, <2>2, Limits, WorkAndLoops, FS_CardinalityType DEF ReportSound, ReportIsFinal
<1>2. \A l \in Loop : loop[l].pc = "returned"
  BY DEF Settles, UndisturbedRun, Dead
<1>3. CASE taken = Limit
  BY <1>1, <1>3, MinOfTwo
<1>4. CASE In("pending") = {}
  <2>1. \A i \in Image : work[i].state # "processing"
    BY <1>2, WorkAndLoops DEF Attended, UndisturbedRun, WorkRow
  <2>2. done = Image \ In("missing")
    BY <1>4, <2>1 DEF Attended, UndisturbedRun, In, BacklogTypeOK
  <2>3. CASE In("missing") = {}
    <3>1. done = Image
      BY <2>2, <2>3
    <3> QED
      BY <1>1, <3>1, MinOfTwo
  <2>4. CASE budget = 0
    <3>1. Limit <= Cardinality(done)
      BY <1>1, <2>2, <2>4 DEF Phases
    <3> QED
      BY <1>1, <1>3, <3>1
  <2> QED
    BY <2>3, <2>4 DEF Phases
<1>5. taken = Limit \/ In("pending") = {}
  <2>1. Cardinality(Calling) = 0
    BY <1>2, FS_EmptySet DEF Calling
  <2>2. In("pending") = {} \/ (taken + Cardinality(Calling) = issued /\ issued = Limit)
    BY <1>2, Limits DEF UndisturbedRun
  <2> QED
    BY <1>1, <2>1, <2>2
<1> QED
  BY <1>3, <1>4, <1>5

LEMMA ReportKeeps ==
    ASSUME BacklogInv, Report
    PROVE  BacklogInv'
<1> USE DEF BacklogInv
<1>1. /\ phase = "working" /\ phase' = "over" /\ report' = BacklogState /\ \A l \in Loop : Settles(l)
      /\ UNCHANGED <<work, gate, budget, issued, loop, sawPause, summary, taken, done, meddling>>
  BY DEF Report
<1>2. report' \in {"paused", "bounded_run_complete", "bounded_run_complete_with_failures",
                   "bounded_run_complete_with_retries"}
  BY <1>1 DEF BacklogState
<1>3. BacklogTypeOK'
  BY <1>1, <1>2 DEF BacklogTypeOK
<1>4. Attended'
  BY <1>1 DEF Attended
<1>5. Counted'
  BY <1>1 DEF Counted, Calling, Busy, Dead, Tally
<1>6. In("missing")' = In("missing") /\ In("pending")' = In("pending") /\ Dead' = Dead /\ Calling' = Calling
  BY <1>1 DEF In, Dead, Calling
<1>7. Phases'
  BY <1>1, <1>2, <1>6 DEF Phases, Settles
<1>8. UndisturbedRun'
  BY <1>1, <1>6 DEF UndisturbedRun, Undisturbed
<1>9. ReportIsFinal'
  BY <1>3, <1>4, <1>5, <1>7, FinalNext
<1>10. CleanReportEarned'
  <2> SUFFICES ASSUME report' = "bounded_run_complete"
               PROVE  /\ taken = Cardinality(done)
                      /\ meddling = 0 /\ gate = "running" =>
                            Cardinality(done) = Min({Limit, Cardinality(Image)})
    BY <1>1 DEF CleanReportEarned
  <2>1. Dead = {} /\ summary.failed = 0 /\ summary.retryPending = 0
    BY <1>1, WorkAndLoops DEF BacklogState
  <2>2. taken = Cardinality(done)
    <3>1. Cardinality(Busy) = 0 /\ Cardinality(Dead) = 0
      BY <1>1, <2>1, FS_EmptySet DEF Busy, Settles
    <3>2. Tally = Cardinality(done)
      BY <2>1, WorkAndLoops DEF Tally, Counted
    <3> QED
      BY <3>1, <3>2, WorkAndLoops DEF Counted
  <2>3. meddling = 0 /\ gate = "running" => Cardinality(done) = Min({Limit, Cardinality(Image)})
    BY <1>1, <2>1, <2>2, DidItsWork DEF Undisturbed
  <2> QED
    BY <2>2, <2>3
<1> QED
  BY <1>3, <1>4, <1>5, <1>7, <1>8, <1>9, <1>10 DEF ReportSound

-------------------------------------------------------------------------------

LEMMA InitHolds == BacklogInit => BacklogInv
<1> SUFFICES ASSUME BacklogInit PROVE BacklogInv
  OBVIOUS
<1>1. \A i \in Image : /\ work[i].state \in {"pending", "missing"} /\ work[i].tries = 0
                       /\ work[i].by = NoOne
  BY DEF BacklogInit
<1>2. \A l \in Loop : loop[l].pc = "free"
  BY DEF BacklogInit, Free
<1>3. BacklogTypeOK
  <2>1. Limit \in 0..Limit /\ 0 \in 0..Limit /\ 0 \in 0..Attempts /\ 0 \in 0..MaxMeddling
    BY Limits
  <2>2. work \in [Image -> [state : {"missing", "pending", "processing", "completed", "failed",
                                     "stopped", "withdrawn"},
                            tries : 0..Attempts, by : Loop \cup {Rival, NoOne}]]
    BY <2>1 DEF BacklogInit
  <2>3. loop \in [Loop -> [pc : {"free", "asking", "admitted", "busy", "returned", "dead"},
                           image : Image \cup {NoOne}]]
    BY DEF BacklogInit, Free
  <2>4. summary \in [{"completed", "failed", "retryPending"} -> Nat]
    BY DEF BacklogInit
  <2>5. /\ gate \in {"running", "paused"} /\ phase \in {"scheduling", "working", "over"}
        /\ budget \in 0..Limit /\ issued \in 0..Limit /\ sawPause \in BOOLEAN
        /\ report \in {"none", "paused", "bounded_run_complete", "bounded_run_complete_with_failures",
                       "bounded_run_complete_with_retries"}
        /\ taken \in Nat /\ done \subseteq Image /\ meddling \in 0..MaxMeddling
    BY <2>1 DEF BacklogInit
  <2> QED
    BY <2>2, <2>3, <2>4, <2>5 DEF BacklogTypeOK
<1>4. Attended
  <2>1. 0 < Attempts
    BY Limits
  <2> QED
    BY <1>1, <1>2, <2>1, Limits DEF Attended, BacklogInit
<1>5. Calling = {} /\ Busy = {} /\ Dead = {}
  BY <1>2 DEF Calling, Busy, Dead
<1>6. Cardinality(Calling) = 0 /\ Cardinality(Busy) = 0 /\ Cardinality(Dead) = 0 /\ Cardinality(done) = 0
  BY <1>5, FS_EmptySet DEF BacklogInit
<1>7. Tally = 0 /\ taken = 0 /\ issued = 0 /\ summary.completed = 0
  BY DEF BacklogInit, Tally
<1>8. Counted
  BY <1>6, <1>7 DEF Counted
<1>9. Phases
  <2>1. Cardinality(Image \ In("missing")) \in Nat
    BY Limits, FS_Subset, FS_CardinalityType
  <2>2. Limit - budget = 0
    BY Limits DEF BacklogInit
  <2>3. Limit - budget <= Cardinality(Image \ In("missing"))
    BY <2>1, <2>2
  <2> QED
    BY <1>2, <2>3 DEF Phases, BacklogInit
<1>10. UndisturbedRun
  BY <1>1, <1>2, <1>5, <1>6, <1>7, Limits DEF UndisturbedRun
<1>11. ReportIsFinal
  BY <1>3, <1>4, <1>8, <1>9, FinalIs
<1> QED
  BY <1>3, <1>4, <1>8, <1>9, <1>10, <1>11 DEF BacklogInv, ReportSound, CleanReportEarned, BacklogInit

LEMMA StutterKeeps ==
    ASSUME BacklogInv, UNCHANGED backlogVars
    PROVE  BacklogInv'
BY DEF BacklogInv, backlogVars, BacklogTypeOK, Attended, Counted, Calling, Busy, Dead, Tally, Phases, Settles,
       In, UndisturbedRun, Undisturbed, ReportSound, ReportIsFinal, CleanReportEarned

LEMMA NextKeeps == BacklogInv /\ [BacklogNext]_backlogVars => BacklogInv'
<1> SUFFICES ASSUME BacklogInv, [BacklogNext]_backlogVars PROVE BacklogInv'
  OBVIOUS
<1>1. CASE Schedule
  BY <1>1, ScheduleKeeps
<1>2. CASE Report
  BY <1>2, ReportKeeps
<1>3. ASSUME NEW l \in Loop, AskNext(l) PROVE BacklogInv'
  BY <1>3, AskNextKeeps
<1>4. ASSUME NEW l \in Loop, ReadGate(l) PROVE BacklogInv'
  BY <1>4, ReadGateKeeps
<1>5. ASSUME NEW l \in Loop, ClaimNext(l) PROVE BacklogInv'
  BY <1>5, ClaimNextKeeps
<1>6. ASSUME NEW l \in Loop, Completes(l) PROVE BacklogInv'
  BY <1>6, CompletesKeeps
<1>7. ASSUME NEW l \in Loop, Fails(l) PROVE BacklogInv'
  BY <1>7, FailsKeeps
<1>8. ASSUME NEW l \in Loop, FindsItGone(l) PROVE BacklogInv'
  BY <1>8, GoneKeeps
<1>9. ASSUME NEW l \in Loop, LoopDies(l) PROVE BacklogInv'
  BY <1>9, LoopDiesKeeps, BusyLoopDiesKeeps
<1>10. CASE StopQueue \/ OpenQueue
  BY <1>10, GateKeeps
<1>11. ASSUME NEW i \in Image, Withdraw(i) \/ RivalClaims(i) \/ RivalEnds(i) PROVE BacklogInv'
  BY <1>11, OutsidersKeep
<1>12. CASE UNCHANGED backlogVars
  BY <1>12, StutterKeeps
<1> QED
  BY <1>1, <1>2, <1>3, <1>4, <1>5, <1>6, <1>7, <1>8, <1>9, <1>10, <1>11, <1>12 DEF BacklogNext

\* In every state of the run, its calls, its claims and its tallies add up, every processed job has
\* somebody who is at it or died at it, and an undisturbed run leaves nothing it could have done
\* (media-worker.mjs, runBacklog and runNext).
THEOREM BacklogInvariant == BacklogSpec => []BacklogInv
BY InitHolds, NextKeeps, PTL DEF BacklogSpec

\* Every variable of the run keeps its type: neither the budget nor the calls pass the limit, however
\* many loops share it.
THEOREM BacklogTyped == BacklogSpec => []BacklogTypeOK
<1>1. BacklogInv => BacklogTypeOK
  BY DEF BacklogInv
<1> QED
  BY <1>1, BacklogInvariant, PTL

\* The report comes last, accounts for every claim, and a clean one is earned: every claim was
\* completed and, unless others had a hand in the queue, as many as the run was asked for.
THEOREM RunReportsTruth == BacklogSpec => []ReportSound
<1>1. BacklogInv => ReportSound
  BY DEF BacklogInv
<1> QED
  BY <1>1, BacklogInvariant, PTL

-----------------------------------------------------------------------------
(***************************************************************************)
(* The parts side by side.  A behaviour of OperationsSpec takes the steps  *)
(* of one part, so each part keeps its own invariant, and the others too.  *)
(***************************************************************************)

\* The invariants of all parts.
OperationsInv == LedgerInv /\ CommandsFit /\ MigrationInv /\ BacklogInv /\ CorrectionInv

LEMMA OperationsInitFits == OperationsInit => OperationsInv
  <1> SUFFICES ASSUME OperationsInit PROVE OperationsInv
    OBVIOUS
  <1>1. OperatorInit /\ MigrationInit /\ BacklogInit /\ CorrectionInit
    BY DEF OperationsInit
  <1>2. LedgerInv
    BY <1>1, InitEstablishes DEF OperatorInit
  <1> QED
    BY <1>1, <1>2, CommandsFitInitially, MigrationInitially, InitHolds, CorrectionInitInv
    DEF OperationsInv

LEMMA OperationsStepKeeps == OperationsInv /\ [OperationsNext]_operationsVars => OperationsInv'
  <1> SUFFICES ASSUME OperationsInv, [OperationsNext]_operationsVars PROVE OperationsInv'
    OBVIOUS
  <1>1. [MigrationNext]_migrationVars /\ [BacklogNext]_backlogVars /\ [CorrectionNext]_correctionVars
    BY DEF OperationsNext, operationsVars, otherVars
  <1>2. MigrationInv' /\ BacklogInv' /\ CorrectionInv'
    BY <1>1, MigrationStep, NextKeeps, CorrectionStep DEF OperationsInv
  <1>3. \/ [LedgerNext]_ledgerVars /\ UNCHANGED callVars /\ control' \in {"paused", control}
        \/ [OperatorNext]_operatorVars
    BY DEF OperationsNext, operationsVars, operatorVars
  <1>4. LedgerInv'
    BY <1>3, StepsOfLedger, StepKeeps DEF OperationsInv
  <1>5. CommandsFit'
    <2>1. CASE UNCHANGED callVars /\ control' \in {"paused", control}
      BY <2>1 DEF OperationsInv, CommandsFit, CallFits, CommandRow, callVars
    <2> QED BY <1>3, <2>1, CommandsFitKept DEF OperationsInv
  <1> QED BY <1>2, <1>4, <1>5 DEF OperationsInv

\* Side by side the parts keep what each of them keeps: jobs, commands, starts of releases, runs
\* over the backlog and corrections of faces, for any number of each.
THEOREM OperationsInvariant == OperationsSpec => []OperationsInv
  BY OperationsInitFits, OperationsStepKeeps, PTL DEF OperationsSpec

\* The state of every part keeps its type, and command rows meet their table's CHECK.
THEOREM OperationsTyped == OperationsSpec => []OperationsTypeOK
  <1>1. OperationsInv => OperationsTypeOK
    <2> SUFFICES ASSUME OperationsInv PROVE OperationsTypeOK
      OBVIOUS
    <2>1. OperatorTypeOK
      BY CommandsTyped DEF OperationsInv
    <2> QED BY <2>1 DEF OperationsInv, OperationsTypeOK, LedgerInv, MigrationInv, BacklogInv,
            CorrectionInv
  <1> QED BY <1>1, OperationsInvariant, PTL
=============================================================================
