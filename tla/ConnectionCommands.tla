------------------------ MODULE ConnectionCommands ------------------------
(***************************************************************************)
(* The commands that record and retract a connection between two people,   *)
(* and the ledger that makes each client-named command take effect once.   *)
(* A command is one transaction: it claims its name, reads the connection, *)
(* appends an event to its history and completes the name.  Calls run in   *)
(* parallel; a call is repeated by its client when the answer is lost.     *)
(*                                                                         *)
(* Statements read what is committed (READ COMMITTED).  A step is a        *)
(* statement, with the tests up to the next one.                           *)
(*                                                                         *)
(* Left out: modifiers, contexts and suggestions of a fact, other pairs    *)
(* of people and types (their locks and rows are disjoint).                *)
(***************************************************************************)
EXTENDS Integers, FiniteSets

CONSTANTS
    Sender,         \* calls; a repeated call is another one
    CommandId,      \* names clients give their commands
    FactId,         \* identities a new fact can get
    MaxSequence     \* bound: how many events the history holds

\* Calls and facts are not the values that stand for none of them or for an answer without one.
ASSUME ConnectionAssumption ==
    /\ MaxSequence \in Nat
    /\ "none" \notin Sender
    /\ FactId \cap {"none", "no fact", "error", "conflict", "lost"} = {}

VARIABLES
    ledger,         \* [CommandId -> its committed row]
    claimant,       \* [CommandId -> the call whose insert of the row is not committed]
    history,        \* the committed events of the connection
    recorded,       \* the last recorded_sequence drawn
    pairLock,       \* the call that holds the advisory lock of the pair
    call            \* [Sender -> the state of a call]

connectionVars == <<ledger, claimant, history, recorded, pairLock, call>>

-----------------------------------------------------------------------------

NoCall == "none"
NoFact == "no fact"

\* Operation, actor and canonical payload: the pair to connect, or the fact to retract.
Recording == [operation |-> "record", fact |-> NoFact]
Retracting(f) == [operation |-> "retract", fact |-> f]
Request == {Recording} \cup {Retracting(f) : f \in FactId}

NoEvent == [sequence |-> 0]

\* A row that names a command used before the ledger existed fits no request.
NoClaim == [state |-> "none"]
Legacy == [state |-> "legacy"]
CompletedRow(q, r) == [state |-> "complete", request |-> q, response |-> r]

NewCall == [pc |-> "idle", command |-> NoCall, request |-> Recording, fact |-> NoFact,
            event |-> NoEvent, answer |-> NoCall]

\* The event with the highest recorded_sequence of a fact is its current one.
Latest(events, f) ==
    CHOOSE e \in {x \in events : x.fact = f} :
        \A x \in events : x.fact = f => x.sequence <= e.sequence
CurrentFacts(events) ==
    {f \in {x.fact : x \in events} : Latest(events, f).action = "record"}

ConnectionInit ==
    /\ ledger \in [CommandId -> {NoClaim, Legacy}]
    /\ claimant = [c \in CommandId |-> NoCall]
    /\ history = {}
    /\ recorded = 0
    /\ pairLock = NoCall
    /\ call = [s \in Sender |-> NewCall]

-----------------------------------------------------------------------------

At(s, pc) == call[s].pc = pc
Move(s, pc) == call' = [call EXCEPT ![s].pc = pc]

\* Commit or rollback gives the name and the lock back.
Release(s) ==
    /\ claimant' = [c \in CommandId |-> IF claimant[c] = s THEN NoCall ELSE claimant[c]]
    /\ pairLock' = IF pairLock = s THEN NoCall ELSE pairLock

Answered(s, answer) ==
    call' = [call EXCEPT ![s].pc = "ended", ![s].fact = NoFact, ![s].event = NoEvent,
                         ![s].answer = answer]

RollBack(s, answer) ==
    /\ Release(s)
    /\ Answered(s, answer)
    /\ UNCHANGED <<ledger, history, recorded>>

Send(s, c, q) ==
    /\ At(s, "idle")
    /\ q = Recording \/ q.fact \in {e.fact : e \in history}
    /\ call' = [call EXCEPT ![s] = [NewCall EXCEPT !.pc = "claiming", !.command = c, !.request = q]]
    /\ UNCHANGED <<ledger, claimant, history, recorded, pairLock>>

\* INSERT ... ON CONFLICT DO NOTHING waits while another call's insert of the name is open.
Insertable(s) == At(s, "claiming") /\ claimant[call[s].command] = NoCall

Claim(s) ==
    /\ Insertable(s)
    /\ ledger[call[s].command] = NoClaim
    /\ claimant' = [claimant EXCEPT ![call[s].command] = s]
    /\ Move(s, IF call[s].request = Recording THEN "locking" ELSE "reading")
    /\ UNCHANGED <<ledger, history, recorded, pairLock>>

ReplaysAnyRequest(row, q) == row.state = "complete"
Replays(row, q) == row.state = "complete" /\ row.request = q

\* The name is taken: its response is returned to the same request, anything else is refused.
Replay(s) ==
    LET row == ledger[call[s].command] IN
    /\ Insertable(s)
    /\ row # NoClaim
    /\ Answered(s, IF Replays(row, call[s].request) THEN row.response ELSE "conflict")
    /\ UNCHANGED <<ledger, claimant, history, recorded, pairLock>>

LockPairTwice(s) ==
    /\ At(s, "locking")
    /\ pairLock' = s
    /\ Move(s, "reading")
    /\ UNCHANGED <<ledger, claimant, history, recorded>>

\* Only record serialises on the pair.
LockPair(s) ==
    /\ At(s, "locking") /\ pairLock = NoCall
    /\ pairLock' = s
    /\ Move(s, "reading")
    /\ UNCHANGED <<ledger, claimant, history, recorded>>

\* record continues the current fact or starts another; retract names a current fact.
ReadCurrent(s) ==
    /\ At(s, "reading")
    /\ \E f \in FactId :
        /\ \/ f \in CurrentFacts(history) /\ call[s].request \in {Recording, Retracting(f)}
           \/ /\ call[s].request = Recording /\ CurrentFacts(history) = {}
              /\ f \notin {e.fact : e \in history} \cup {call[t].fact : t \in Sender}
        /\ call' = [call EXCEPT ![s].pc = "appending", ![s].fact = f]
    /\ UNCHANGED <<ledger, claimant, history, recorded, pairLock>>

\* retract finds no such fact, or a validation of either command fails.
Refuse(s) ==
    /\ At(s, "reading") \/ At(s, "locking")
    /\ RollBack(s, "error")

AppendEvent(s) ==
    /\ At(s, "appending") /\ recorded < MaxSequence
    /\ recorded' = recorded + 1
    /\ call' = [call EXCEPT ![s].pc = "completing",
                    ![s].event = [sequence |-> recorded + 1, fact |-> call[s].fact,
                                  action |-> call[s].request.operation,
                                  command |-> call[s].command]]
    /\ UNCHANGED <<ledger, claimant, history, pairLock>>

\* record answers with the fact as this transaction sees it, or null when a retract that was
\* numbered later is already committed.
ResponseOf(s) ==
    IF \/ call[s].request # Recording
       \/ call[s].fact \in CurrentFacts(history \cup {call[s].event})
    THEN call[s].fact ELSE NoFact

\* The name is completed in the transaction of its effect.
Commit(s) ==
    /\ At(s, "completing")
    /\ history' = history \cup {call[s].event}
    /\ ledger' = [ledger EXCEPT ![call[s].command] = CompletedRow(call[s].request, ResponseOf(s))]
    /\ Release(s)
    /\ call' = [call EXCEPT ![s].pc = "answering", ![s].answer = ResponseOf(s)]
    /\ UNCHANGED recorded

Deliver(s) ==
    /\ At(s, "answering")
    /\ Answered(s, call[s].answer)
    /\ UNCHANGED <<ledger, claimant, history, recorded, pairLock>>

\* The process or the connection ends: an open transaction is rolled back, an answer is lost.
Crash(s) ==
    /\ call[s].pc \notin {"idle", "ended"}
    /\ RollBack(s, "lost")

ConnectionNext ==
    \E s \in Sender :
        \/ \E c \in CommandId, q \in Request : Send(s, c, q)
        \/ Claim(s) \/ Replay(s) \/ LockPair(s) \/ ReadCurrent(s) \/ Refuse(s)
        \/ AppendEvent(s) \/ Commit(s) \/ Deliver(s) \/ Crash(s)

ConnectionSpec == ConnectionInit /\ [][ConnectionNext]_connectionVars

-----------------------------------------------------------------------------
(* Properties *)

ConnectionTypeOK ==
    /\ ledger \in [CommandId -> {NoClaim, Legacy}
                                \cup {CompletedRow(q, r) : q \in Request, r \in FactId \cup {NoFact}}]
    /\ claimant \in [CommandId -> Sender \cup {NoCall}]
    /\ recorded \in 0..MaxSequence
    /\ pairLock \in Sender \cup {NoCall}
    /\ \A e \in history : e.sequence \in 1..recorded /\ e.fact \in FactId

\* However record and retract interleave, the pair has at most one current fact: a second fact of
\* the same type would show the connection twice, and retracting it would leave the other.
OneCurrentFact == Cardinality(CurrentFacts(history)) <= 1

Told(s) == At(s, "ended") /\ call[s].answer \in FactId \cup {NoFact}

Once == INSTANCE ExactlyOnce WITH
    Commands <- CommandId, Calls <- Sender,
    Executions <- Request \X (FactId \cup {NoFact}),
    spent <- {c \in CommandId : ledger[c] = Legacy},
    done <- [c \in CommandId |-> IF ledger[c].state = "complete"
                                 THEN {<<ledger[c].request, ledger[c].response>>} ELSE {}],
    effects <- [c \in CommandId |-> Cardinality({e \in history : e.command = c})],
    told <- [s \in Sender |-> IF Told(s)
                              THEN {<<call[s].command, <<call[s].request, call[s].answer>>>>}
                              ELSE {}]

\* A command repeated while its first call runs, after it, or after its answer was lost takes
\* effect once, and every call told of success sent the request that was executed and is told
\* what its execution said; a name used twice for different requests is refused.
CommandsExactlyOnce == Once!ExactlyOnceSpec
=============================================================================
