--------------------------- MODULE CommandProofs ----------------------------
(***************************************************************************)
(* What is proved of the commands for connection facts, and of the imports *)
(* of documents.                                                           *)
(***************************************************************************)
EXTENDS ConnectionCommands, DocumentImports, FiniteSetTheorems, TLAPS

-----------------------------------------------------------------------------
(***************************************************************************)
(* A pair of people has at most one current fact, and the ledger of        *)
(* commands implements ExactlyOnce, for any calls, commands and facts.     *)
(* Two mutual exclusions carry it: the open insert of a command's row has  *)
(* one call, so its effect and its row appear together and once; and the   *)
(* lock of the pair has one recording call, so what that call read of the  *)
(* current fact can only be retracted before it commits.                   *)
(***************************************************************************)

Pcs == {"idle", "claiming", "locking", "reading", "appending", "completing", "answering", "ended"}
Answers == FactId \cup {NoFact, "none", "error", "conflict", "lost"}
FactEvent == [sequence : Nat, fact : FactId, action : {"record", "retract"}, command : CommandId]
CallState == [pc : Pcs, command : CommandId \cup {NoCall}, request : Request,
              fact : FactId \cup {NoFact}, event : FactEvent \cup {NoEvent}, answer : Answers]
LedgerRow == {NoClaim, Legacy}
             \cup [state : {"complete"}, request : Request, response : FactId \cup {NoFact}]

\* The states of a call, an event and a row.
StateTyped ==
    /\ ledger \in [CommandId -> LedgerRow]
    /\ claimant \in [CommandId -> Sender \cup {NoCall}]
    /\ pairLock \in Sender \cup {NoCall}
    /\ recorded \in 0..MaxSequence
    /\ history \subseteq FactEvent
    /\ call \in [Sender -> CallState]

\* Statements of an open transaction that has claimed its command.
Executing(s) == call[s].pc \in {"locking", "reading", "appending", "completing"}
Records(s) == call[s].request = Recording

\* An open transaction has its command to itself, a recording one also the pair.
Exclusive ==
    \A s \in Sender :
        /\ call[s].pc # "idle" => call[s].command \in CommandId
        /\ Executing(s) => /\ claimant[call[s].command] = s
                           /\ ledger[call[s].command] = NoClaim
        /\ call[s].pc = "locking" => Records(s)
        /\ call[s].pc \in {"reading", "appending", "completing"} /\ Records(s) => pairLock = s

\* A row is completed with its one event; a call that has executed tells what the row says.
RowsMatch ==
    /\ \A e \in history : ledger[e.command].state = "complete"
    /\ \A e, f \in history : e.command = f.command => e = f
    /\ \A s \in Sender : call[s].pc = "answering" =>
            /\ call[s].answer \in FactId \cup {NoFact}
            /\ ledger[call[s].command] = CompletedRow(call[s].request, call[s].answer)

\* Every event has a number of its own, also the one a transaction has not committed yet.
Numbered ==
    /\ \A e \in history : e.sequence \in 1..recorded
    /\ \A e, f \in history : e.sequence = f.sequence => e = f
    /\ \A s \in Sender : call[s].pc = "completing" =>
            /\ call[s].event = [sequence |-> call[s].event.sequence, fact |-> call[s].fact,
                                action |-> call[s].request.operation, command |-> call[s].command]
            /\ call[s].event.sequence \in 1..recorded
            /\ \A e \in history : e.sequence # call[s].event.sequence
            /\ \A t \in Sender \ {s} : call[t].pc = "completing" =>
                    call[t].event.sequence # call[s].event.sequence

IsLatest(events, e) == e \in events /\ \A x \in events : x.fact = e.fact => x.sequence <= e.sequence

\* Every fact of the history has a latest event.
FactsOrdered == \A x \in history : \E e \in history : e.fact = x.fact /\ IsLatest(history, e)

\* What a recording call read: no other fact becomes current before it commits.
Foreseen ==
    \A s \in Sender : call[s].pc \in {"appending", "completing"} =>
        /\ call[s].fact \in FactId
        /\ Records(s) => CurrentFacts(history) \subseteq {call[s].fact}

AtMostOne == \A f, g \in CurrentFacts(history) : f = g

ConnectionInv ==
    /\ StateTyped /\ Exclusive /\ RowsMatch /\ Numbered /\ FactsOrdered /\ Foreseen /\ AtMostOne

-------------------------------------------------------------------------------
(* What appending an event does to the current facts. *)

WellNumbered(events) ==
    /\ \A e \in events : e.sequence \in Nat
    /\ \A e, f \in events : e.sequence = f.sequence => e = f
    /\ \A x \in events : \E e \in events : e.fact = x.fact /\ IsLatest(events, e)

\* The latest event of a fact is the one Latest chooses.
LEMMA LatestIsOne ==
    ASSUME NEW events, WellNumbered(events), NEW e, IsLatest(events, e)
    PROVE  Latest(events, e.fact) = e
<1> DEFINE P(x) == /\ x \in {y \in events : y.fact = e.fact}
                   /\ \A y \in events : y.fact = e.fact => y.sequence <= x.sequence
<1>1. P(e)
  BY DEF IsLatest
<1>2. ASSUME NEW x, P(x) PROVE x = e
  <2>1. /\ x \in events /\ e \in events /\ x.sequence \in Nat /\ e.sequence \in Nat
        /\ x.sequence <= e.sequence /\ e.sequence <= x.sequence
    BY <1>2 DEF IsLatest, WellNumbered
  <2>2. x.sequence = e.sequence
    BY <2>1
  <2> QED
    BY <2>1, <2>2 DEF WellNumbered
<1>3. Latest(events, e.fact) = CHOOSE x : P(x)
  BY DEF Latest
<1> HIDE DEF P
<1> QED
  BY <1>1, <1>2, <1>3

\* A fact is current when its latest event records it.
LEMMA CurrentIs ==
    ASSUME NEW events, WellNumbered(events), NEW f
    PROVE  f \in CurrentFacts(events)
            <=> \E e \in events : e.fact = f /\ IsLatest(events, e) /\ e.action = "record"
<1>1. ASSUME NEW e \in events, e.fact = f, IsLatest(events, e) PROVE Latest(events, f) = e
  BY <1>1, LatestIsOne
<1>2. f \in {x.fact : x \in events} => \E e \in events : e.fact = f /\ IsLatest(events, e)
  BY DEF WellNumbered
<1> QED
  BY <1>1, <1>2 DEF CurrentFacts

\* An event with a number of its own makes no fact current but the one it records.
LEMMA Appended ==
    ASSUME NEW events, WellNumbered(events), NEW ev, ev.sequence \in Nat,
           \A e \in events : e.sequence # ev.sequence
    PROVE  /\ WellNumbered(events \cup {ev})
           /\ CurrentFacts(events \cup {ev}) \subseteq CurrentFacts(events) \cup {ev.fact}
           /\ ev.action = "retract" => CurrentFacts(events \cup {ev}) \subseteq CurrentFacts(events)
<1> DEFINE more == events \cup {ev}
<1>1. \A e \in more : e.sequence \in Nat
  BY DEF WellNumbered
<1>2. \A e, f \in more : e.sequence = f.sequence => e = f
  BY DEF WellNumbered
<1>3. \A x \in more : \E e \in more : e.fact = x.fact /\ IsLatest(more, e)
  <2> SUFFICES ASSUME NEW x \in more PROVE \E e \in more : e.fact = x.fact /\ IsLatest(more, e)
    OBVIOUS
  <2>1. CASE \E y \in events : y.fact = x.fact
    <3>1. PICK l \in events : l.fact = x.fact /\ IsLatest(events, l)
      BY <2>1 DEF WellNumbered
    <3>2. CASE ev.fact = x.fact /\ l.sequence <= ev.sequence
      <4>1. IsLatest(more, ev)
        BY <1>1, <3>1, <3>2 DEF IsLatest
      <4> QED
        BY <3>2, <4>1
    <3>3. CASE ~(ev.fact = x.fact /\ l.sequence <= ev.sequence)
      <4>1. IsLatest(more, l)
        BY <1>1, <3>1, <3>3 DEF IsLatest
      <4> QED
        BY <3>1, <4>1
    <3> QED
      BY <3>2, <3>3
  <2>2. CASE \A y \in events : y.fact # x.fact
    <3>1. x = ev /\ IsLatest(more, ev)
      BY <1>1, <2>2 DEF IsLatest
    <3> QED
      BY <3>1
  <2> QED
    BY <2>1, <2>2
<1>4. WellNumbered(more)
  BY <1>1, <1>2, <1>3 DEF WellNumbered
<1>5. ASSUME NEW f \in CurrentFacts(more), f \notin CurrentFacts(events)
      PROVE  f = ev.fact /\ ev.action = "record"
  <2> HIDE DEF more
  <2>1. PICK e \in more : e.fact = f /\ IsLatest(more, e) /\ e.action = "record"
    BY <1>4, <1>5, CurrentIs
  <2>2. CASE e = ev
    BY <2>1, <2>2
  <2>3. CASE e # ev
    <3>1. e \in events /\ IsLatest(events, e)
      BY <2>1, <2>3 DEF IsLatest, more
    <3> QED
      BY <1>5, <2>1, <3>1, CurrentIs
  <2> QED
    BY <2>2, <2>3
<1> QED
  BY <1>4, <1>5

-------------------------------------------------------------------------------
(* The invariant is inductive. *)

LEMMA ConnectionInitInv == ConnectionInit => ConnectionInv
<1> SUFFICES ASSUME ConnectionInit PROVE ConnectionInv
  OBVIOUS
<1> USE ConnectionAssumption DEF ConnectionInit
<1>1. NewCall \in CallState
  BY DEF CallState, Pcs, Answers, NewCall, NoCall, NoFact, Recording, Request
<1>2. {NoClaim, Legacy} \subseteq LedgerRow
  BY DEF LedgerRow
<1>3. StateTyped
  <2>1. claimant \in [CommandId -> Sender \cup {NoCall}] /\ pairLock \in Sender \cup {NoCall}
    OBVIOUS
  <2>2. recorded \in 0..MaxSequence
    <3>1. recorded = 0 /\ MaxSequence \in Nat
      OBVIOUS
    <3> QED
      BY ONLY <3>1
  <2>4. history \subseteq FactEvent
    OBVIOUS
  <2>3. ledger \in [CommandId -> LedgerRow] /\ call \in [Sender -> CallState]
    BY <1>1, <1>2
  <2> QED
    BY <2>1, <2>2, <2>3, <2>4 DEF StateTyped
<1>4. Exclusive /\ RowsMatch /\ Numbered
  BY DEF Exclusive, Executing, Records, RowsMatch, Numbered, NewCall
<1>5. FactsOrdered /\ Foreseen /\ AtMostOne
  BY DEF FactsOrdered, Foreseen, AtMostOne, CurrentFacts, NewCall
<1> QED
  BY <1>3, <1>4, <1>5 DEF ConnectionInv

\* Steps that append nothing to the history leave the current facts alone.
LEMMA SilentStep ==
    ASSUME ConnectionInv, UNCHANGED history, StateTyped', Exclusive', RowsMatch', Numbered', Foreseen'
    PROVE  ConnectionInv'
<1>1. FactsOrdered' /\ AtMostOne'
  BY DEF ConnectionInv, FactsOrdered, AtMostOne, IsLatest
<1> QED
  BY <1>1 DEF ConnectionInv

\* A call that ends gives back what it held, and nothing rests on it any more.
LEMMA EndingStep ==
    ASSUME ConnectionInv, NEW s \in Sender, call[s].pc # "idle", NEW answer \in Answers,
           Answered(s, answer), UNCHANGED <<ledger, history, recorded>>,
           Release(s) \/ (~Executing(s) /\ UNCHANGED <<claimant, pairLock>>)
    PROVE  ConnectionInv'
<1> USE DEF Answered
<1>0. StateTyped /\ Exclusive /\ RowsMatch /\ Numbered /\ Foreseen
  BY DEF ConnectionInv
<1>1. /\ call' \in [Sender -> CallState]
      /\ call'[s].pc = "ended" /\ call'[s].command = call[s].command
      /\ \A t \in Sender \ {s} : call'[t] = call[t]
  <2>1. call \in [Sender -> CallState]
    BY <1>0 DEF StateTyped
  <2>2. call' = [call EXCEPT ![s] = [call[s] EXCEPT !.pc = "ended", !.fact = NoFact,
                                                    !.event = NoEvent, !.answer = answer]]
    BY <2>1
  <2>3. [call[s] EXCEPT !.pc = "ended", !.fact = NoFact, !.event = NoEvent, !.answer = answer]
            \in CallState
    BY <2>1 DEF CallState, Pcs
  <2>4. [call[s] EXCEPT !.pc = "ended", !.fact = NoFact, !.event = NoEvent, !.answer = answer].command
            = call[s].command
    BY <2>1 DEF CallState
  <2>5. [call[s] EXCEPT !.pc = "ended", !.fact = NoFact, !.event = NoEvent, !.answer = answer].pc
            = "ended"
    BY <2>1 DEF CallState
  <2> QED
    BY <2>1, <2>2, <2>3, <2>4, <2>5
<1>2. claimant' \in [CommandId -> Sender \cup {NoCall}] /\ pairLock' \in Sender \cup {NoCall}
  BY <1>0 DEF Release, StateTyped
<1>3. StateTyped'
  BY <1>0, <1>1, <1>2 DEF StateTyped
<1>4. /\ \A t \in Sender \ {s}, c \in CommandId : claimant[c] = t => claimant'[c] = t
      /\ \A t \in Sender \ {s} : pairLock = t => pairLock' = t
  BY <1>0 DEF Release, StateTyped
<1>5. Exclusive'
  BY <1>0, <1>1, <1>4 DEF Exclusive, Executing, Records
<1>6. RowsMatch' /\ Numbered'
  BY <1>0, <1>1 DEF RowsMatch, Numbered
<1>7. Foreseen'
  BY <1>0, <1>1 DEF Foreseen, Records
<1> QED
  BY <1>3, <1>5, <1>6, <1>7, SilentStep

\* A step of one call leaves the others where they were.
LEMMA CallStep ==
    ASSUME StateTyped, NEW s \in Sender, NEW r \in CallState, call' = [call EXCEPT ![s] = r]
    PROVE  /\ call' \in [Sender -> CallState]
           /\ call'[s] = r
           /\ \A t \in Sender \ {s} : call'[t] = call[t]
<1>1. call \in [Sender -> CallState]
  BY DEF StateTyped
<1> QED
  BY <1>1

\* A call that moves to another statement keeps everything else.
LEMMA MoveStep ==
    ASSUME StateTyped, NEW s \in Sender, NEW pc \in Pcs, Move(s, pc)
    PROVE  /\ call' \in [Sender -> CallState]
           /\ call'[s] = [call[s] EXCEPT !.pc = pc]
           /\ call'[s].pc = pc
           /\ \A t \in Sender : /\ call'[t].command = call[t].command
                                /\ call'[t].request = call[t].request
                                /\ call'[t].fact = call[t].fact
                                /\ call'[t].event = call[t].event
                                /\ call'[t].answer = call[t].answer
                                /\ t # s => call'[t] = call[t]
<1>1. call[s] \in CallState
  BY DEF StateTyped
<1>2. [call[s] EXCEPT !.pc = pc] \in CallState
  BY <1>1 DEF CallState
<1>3. call' = [call EXCEPT ![s] = [call[s] EXCEPT !.pc = pc]]
  BY DEF Move
<1>4. /\ call' \in [Sender -> CallState]
      /\ call'[s] = [call[s] EXCEPT !.pc = pc]
      /\ \A t \in Sender \ {s} : call'[t] = call[t]
  BY <1>2, <1>3, CallStep
<1> QED
  BY <1>1, <1>4 DEF CallState

LEMMA ConnectionNextInv == ConnectionInv /\ [ConnectionNext]_connectionVars => ConnectionInv'
<1> SUFFICES ASSUME ConnectionInv, [ConnectionNext]_connectionVars PROVE ConnectionInv'
  OBVIOUS
<1> USE DEF At
<1>0. StateTyped /\ Exclusive /\ RowsMatch /\ Numbered /\ FactsOrdered /\ Foreseen /\ AtMostOne
  BY DEF ConnectionInv
<1>1. ASSUME NEW s \in Sender, NEW c \in CommandId, NEW q \in Request, Send(s, c, q)
      PROVE  ConnectionInv'
  <2> DEFINE sent == [NewCall EXCEPT !.pc = "claiming", !.command = c, !.request = q]
  <2>1. /\ sent \in CallState /\ sent.command = c /\ sent.pc = "claiming"
    BY DEF NewCall, CallState, Pcs, Answers, NoCall, NoFact
  <2>2. call' = [call EXCEPT ![s] = sent]
    BY <1>1 DEF Send
  <2> HIDE DEF sent
  <2>3. /\ call' \in [Sender -> CallState]
        /\ call'[s] = sent
        /\ \A t \in Sender \ {s} : call'[t] = call[t]
    BY <1>0, <2>1, <2>2, CallStep
  <2>4. StateTyped'
    BY <1>0, <1>1, <2>3 DEF Send, StateTyped
  <2>5. Exclusive'
    BY <1>0, <1>1, <2>1, <2>3 DEF Send, Exclusive, Executing, Records
  <2>6. RowsMatch' /\ Numbered' /\ Foreseen'
    BY <1>0, <1>1, <2>1, <2>3 DEF Send, RowsMatch, Numbered, Foreseen, Records
  <2> QED
    BY <1>1, <2>4, <2>5, <2>6, SilentStep DEF Send
<1>2. ASSUME NEW s \in Sender, Claim(s) PROVE ConnectionInv'
  <2> DEFINE pc == IF call[s].request = Recording THEN "locking" ELSE "reading"
  <2>1. pc \in Pcs /\ Move(s, pc)
    BY <1>2 DEF Claim, Pcs
  <2>2. /\ call[s].pc = "claiming" /\ call[s].command \in CommandId
        /\ claimant[call[s].command] = NoCall /\ ledger[call[s].command] = NoClaim
    BY <1>0, <1>2 DEF Claim, Insertable, Exclusive
  <2>3. claimant' = [claimant EXCEPT ![call[s].command] = s]
    BY <1>2 DEF Claim
  <2>4. call' \in [Sender -> CallState] /\ call'[s].pc = pc
    BY <1>0, <2>1, MoveStep
  <2>5. StateTyped'
    BY <1>0, <1>2, <2>2, <2>3, <2>4 DEF Claim, StateTyped
  <2>6. Exclusive'
    <3> SUFFICES ASSUME NEW t \in Sender
                 PROVE  /\ call'[t].pc # "idle" => call'[t].command \in CommandId
                        /\ Executing(t)' => /\ claimant'[call'[t].command] = t
                                            /\ ledger'[call'[t].command] = NoClaim
                        /\ call'[t].pc = "locking" => Records(t)'
                        /\ /\ call'[t].pc \in {"reading", "appending", "completing"}
                           /\ Records(t)'
                           => pairLock' = t
      BY DEF Exclusive
    <3>1. CASE t = s
      BY <1>0, <1>2, <2>1, <2>2, <2>3, <2>4, <3>1, MoveStep DEF Claim, StateTyped, Records
    <3>2. CASE t # s
      <4>1. call'[t] = call[t]
        BY <1>0, <2>1, <3>2, MoveStep
      <4>2. Executing(t) => claimant[call[t].command] # NoCall
        BY <1>0, ConnectionAssumption DEF Exclusive, NoCall
      <4>3. Executing(t) => claimant'[call[t].command] = t
        BY <1>0, <2>2, <2>3, <4>2 DEF Exclusive, StateTyped
      <4> QED
        BY <1>0, <1>2, <4>1, <4>3 DEF Claim, Exclusive, Executing, Records
    <3> QED
      BY <3>1, <3>2
  <2>7. RowsMatch' /\ Numbered' /\ Foreseen'
    BY <1>0, <1>2, <2>1, <2>4, MoveStep DEF Claim, RowsMatch, Numbered, Foreseen, Records
  <2> QED
    BY <1>2, <2>5, <2>6, <2>7, SilentStep DEF Claim
<1>3. ASSUME NEW s \in Sender, Replay(s) PROVE ConnectionInv'
  <2>1. call[s].pc = "claiming" /\ call[s].command \in CommandId /\ ledger[call[s].command] # NoClaim
    BY <1>0, <1>3 DEF Replay, Insertable, Exclusive
  <2>2. ledger[call[s].command] \in LedgerRow
    BY <1>0, <2>1 DEF StateTyped
  <2>3. PICK answer \in Answers : Answered(s, answer)
    <3>1. CASE Replays(ledger[call[s].command], call[s].request)
      <4>1. ledger[call[s].command].state = "complete"
        BY <3>1 DEF Replays
      <4>2. ledger[call[s].command].response \in FactId \cup {NoFact}
        BY <2>2, <4>1 DEF LedgerRow, NoClaim, Legacy
      <4> QED
        BY <1>3, <3>1, <4>2 DEF Replay, Answers
    <3>2. CASE ~Replays(ledger[call[s].command], call[s].request)
      BY <1>3, <3>2 DEF Replay, Answers
    <3> QED
      BY <3>1, <3>2
  <2>4. ~Executing(s) /\ UNCHANGED <<ledger, history, recorded, claimant, pairLock>>
    BY <1>3, <2>1 DEF Replay, Executing
  <2> QED
    BY <2>1, <2>3, <2>4, EndingStep
<1>4. ASSUME NEW s \in Sender, LockPair(s) PROVE ConnectionInv'
  <2>1. "reading" \in Pcs /\ Move(s, "reading")
    BY <1>4 DEF LockPair, Pcs
  <2>2. call' \in [Sender -> CallState] /\ call'[s].pc = "reading"
    BY <1>0, <2>1, MoveStep
  <2>3. StateTyped'
    BY <1>0, <1>4, <2>2 DEF LockPair, StateTyped
  <2>4. Exclusive'
    <3> SUFFICES ASSUME NEW t \in Sender
                 PROVE  /\ call'[t].pc # "idle" => call'[t].command \in CommandId
                        /\ Executing(t)' => /\ claimant'[call'[t].command] = t
                                            /\ ledger'[call'[t].command] = NoClaim
                        /\ call'[t].pc = "locking" => Records(t)'
                        /\ /\ call'[t].pc \in {"reading", "appending", "completing"}
                           /\ Records(t)'
                           => pairLock' = t
      BY DEF Exclusive
    <3>1. CASE t = s
      BY <1>0, <1>4, <2>1, <2>2, <3>1, MoveStep DEF LockPair, Exclusive, Executing, Records
    <3>2. CASE t # s
      <4>1. call'[t] = call[t]
        BY <1>0, <2>1, <3>2, MoveStep
      <4>2. pairLock # t
        BY <1>4, ConnectionAssumption DEF LockPair, NoCall
      <4> QED
        BY <1>0, <1>4, <4>1, <4>2 DEF LockPair, Exclusive, Executing, Records
    <3> QED
      BY <3>1, <3>2
  <2>5. RowsMatch' /\ Numbered' /\ Foreseen'
    BY <1>0, <1>4, <2>1, <2>2, MoveStep DEF LockPair, RowsMatch, Numbered, Foreseen, Records
  <2> QED
    BY <1>4, <2>3, <2>4, <2>5, SilentStep DEF LockPair
<1>5. ASSUME NEW s \in Sender, ReadCurrent(s) PROVE ConnectionInv'
  <2>1. PICK f \in FactId :
            /\ f \in CurrentFacts(history) \/ CurrentFacts(history) = {}
            /\ call' = [call EXCEPT ![s].pc = "appending", ![s].fact = f]
    BY <1>5 DEF ReadCurrent
  <2> DEFINE found == [call[s] EXCEPT !.pc = "appending", !.fact = f]
  <2>2. call[s] \in CallState /\ call[s].pc = "reading"
    BY <1>0, <1>5 DEF StateTyped, ReadCurrent
  <2>3. /\ found \in CallState /\ found.pc = "appending" /\ found.fact = f
        /\ found.command = call[s].command /\ found.request = call[s].request
    BY <2>2 DEF CallState, Pcs
  <2>4. call' = [call EXCEPT ![s] = found]
    BY <2>1
  <2> HIDE DEF found
  <2>5. /\ call' \in [Sender -> CallState]
        /\ call'[s] = found
        /\ \A t \in Sender \ {s} : call'[t] = call[t]
    BY <1>0, <2>3, <2>4, CallStep
  <2>6. StateTyped' /\ Exclusive'
    BY <1>0, <1>5, <2>2, <2>3, <2>5 DEF ReadCurrent, StateTyped, Exclusive, Executing, Records
  <2>7. RowsMatch' /\ Numbered'
    BY <1>0, <1>5, <2>3, <2>5 DEF ReadCurrent, RowsMatch, Numbered
  <2>8. CurrentFacts(history) \subseteq {f}
    BY <1>0, <2>1 DEF AtMostOne
  <2>9. Foreseen'
    BY <1>0, <1>5, <2>1, <2>3, <2>5, <2>8 DEF ReadCurrent, Foreseen, Records
  <2> QED
    BY <1>5, <2>6, <2>7, <2>9, SilentStep DEF ReadCurrent
<1>6. ASSUME NEW s \in Sender, Refuse(s) \/ Crash(s) PROVE ConnectionInv'
  <2>1. call[s].pc # "idle"
    BY <1>6 DEF Refuse, Crash
  <2>2. PICK answer \in Answers : RollBack(s, answer)
    BY <1>6 DEF Refuse, Crash, Answers
  <2> QED
    BY <2>1, <2>2, EndingStep DEF RollBack
<1>7. ASSUME NEW s \in Sender, AppendEvent(s) PROVE ConnectionInv'
  <2> DEFINE drawn == [sequence |-> recorded + 1, fact |-> call[s].fact,
                       action |-> call[s].request.operation, command |-> call[s].command]
             appended == [call[s] EXCEPT !.pc = "completing", !.event = drawn]
  <2>1. /\ call[s] \in CallState /\ call[s].pc = "appending" /\ call[s].fact \in FactId
        /\ call[s].command \in CommandId
    BY <1>0, <1>7 DEF StateTyped, AppendEvent, Exclusive, Foreseen
  <2>2. call[s].request.operation \in {"record", "retract"}
    BY <2>1 DEF CallState, Request, Recording, Retracting
  <2>3. recorded \in Nat /\ recorded + 1 \in 0..MaxSequence /\ recorded' = recorded + 1
    <3>1. MaxSequence \in Nat /\ recorded \in 0..MaxSequence
      BY <1>0, ConnectionAssumption DEF StateTyped
    <3>2. recorded < MaxSequence /\ recorded' = recorded + 1
      BY <1>7 DEF AppendEvent
    <3> QED
      BY ONLY <3>1, <3>2
  <2>4. drawn \in FactEvent
    BY <2>1, <2>2, <2>3 DEF FactEvent
  <2>5. /\ drawn.sequence = recorded + 1 /\ drawn.fact = call[s].fact
        /\ drawn.action = call[s].request.operation /\ drawn.command = call[s].command
    OBVIOUS
  <2>6. call' = [call EXCEPT ![s] = appended]
    BY <1>7 DEF AppendEvent
  <2>shape. drawn = [sequence |-> drawn.sequence, fact |-> call[s].fact,
                 action |-> call[s].request.operation, command |-> call[s].command]
    OBVIOUS
  <2> HIDE DEF drawn
  <2>7. /\ appended \in CallState /\ appended.pc = "completing" /\ appended.event = drawn
        /\ appended.command = call[s].command /\ appended.request = call[s].request
        /\ appended.fact = call[s].fact
    BY <2>1, <2>4 DEF CallState, Pcs
  <2> HIDE DEF appended
  <2>8. /\ call' \in [Sender -> CallState]
        /\ call'[s] = appended
        /\ \A t \in Sender \ {s} : call'[t] = call[t]
    BY <1>0, <2>6, <2>7, CallStep
  <2>9. StateTyped' /\ Exclusive'
    BY <1>0, <1>7, <2>1, <2>3, <2>7, <2>8 DEF AppendEvent, StateTyped, Exclusive, Executing, Records
  <2>10. RowsMatch' /\ Foreseen'
    BY <1>0, <1>7, <2>1, <2>7, <2>8 DEF AppendEvent, RowsMatch, Foreseen, Records
  <2>11. Numbered'
    <3>1. history' = history
      BY <1>7 DEF AppendEvent
    <3>2. \A n \in 1..recorded : n \in 1..recorded' /\ n # recorded + 1
      BY <2>3
    <3>3. recorded + 1 \in 1..recorded'
      BY <2>3
    <3>4. /\ \A e \in history' : e.sequence \in 1..recorded'
          /\ \A e, f \in history' : e.sequence = f.sequence => e = f
      BY <1>0, <3>1, <3>2 DEF Numbered
    <3>5. ASSUME NEW t \in Sender, call'[t].pc = "completing"
          PROVE  /\ call'[t].event = [sequence |-> call'[t].event.sequence, fact |-> call'[t].fact,
                                      action |-> call'[t].request.operation,
                                      command |-> call'[t].command]
                 /\ call'[t].event.sequence \in 1..recorded'
                 /\ \A e \in history' : e.sequence # call'[t].event.sequence
      <4>1. CASE t = s
        BY <1>0, <2>5, <2>shape, <2>7, <2>8, <3>1, <3>2, <3>3, <4>1 DEF Numbered
      <4>2. CASE t # s
        BY <1>0, <2>8, <3>1, <3>2, <3>5, <4>2 DEF Numbered
      <4> QED
        BY <4>1, <4>2
    <3>6. ASSUME NEW t \in Sender, NEW u \in Sender \ {t},
                 call'[t].pc = "completing", call'[u].pc = "completing"
          PROVE  call'[u].event.sequence # call'[t].event.sequence
      <4>1. CASE t = s
        BY <1>0, <2>5, <2>7, <2>8, <3>2, <3>6, <4>1 DEF Numbered
      <4>2. CASE u = s
        BY <1>0, <2>5, <2>7, <2>8, <3>2, <3>6, <4>2 DEF Numbered
      <4>3. CASE t # s /\ u # s
        BY <1>0, <2>8, <3>6, <4>3 DEF Numbered
      <4> QED
        BY <4>1, <4>2, <4>3
    <3> QED
      BY <3>4, <3>5, <3>6 DEF Numbered
  <2> QED
    BY <1>7, <2>9, <2>10, <2>11, SilentStep DEF AppendEvent
<1>8. ASSUME NEW s \in Sender, Deliver(s) PROVE ConnectionInv'
  <2>1. call[s].pc = "answering" /\ call[s].answer \in Answers
    BY <1>0, <1>8 DEF Deliver, RowsMatch, Answers
  <2> QED
    BY <1>8, <2>1, EndingStep DEF Deliver, Executing
<1>9. CASE UNCHANGED connectionVars
  BY <1>0, <1>9, SilentStep
     DEF connectionVars, StateTyped, Exclusive, Executing, Records, RowsMatch, Numbered, Foreseen
<1>10. ASSUME NEW s \in Sender, Commit(s) PROVE ConnectionInv'
  <2> DEFINE ev == call[s].event
             c == call[s].command
             told == [call[s] EXCEPT !.pc = "answering", !.answer = ResponseOf(s)]
  <2>1. /\ call[s] \in CallState /\ call[s].pc = "completing" /\ call[s].fact \in FactId
        /\ c \in CommandId /\ claimant[c] = s /\ ledger[c] = NoClaim
    BY <1>0, <1>10 DEF StateTyped, Commit, Exclusive, Executing, Foreseen
  <2>2. /\ ev = [sequence |-> ev.sequence, fact |-> call[s].fact,
                 action |-> call[s].request.operation, command |-> c]
        /\ ev.sequence \in 1..recorded /\ \A e \in history : e.sequence # ev.sequence
    BY <1>0, <2>1 DEF Numbered
  <2>3. /\ ev.fact = call[s].fact /\ ev.action = call[s].request.operation /\ ev.command = c
        /\ ev.sequence \in Nat
    <3> HIDE DEF ev, c
    <3> QED
      BY <2>2
  <2>4. call[s].request.operation \in {"record", "retract"}
        /\ (~Records(s) => call[s].request.operation = "retract")
    BY <2>1 DEF CallState, Request, Recording, Retracting, Records
  <2>5. ev \in FactEvent
    <3> HIDE DEF ev, c
    <3> QED
      BY <2>1, <2>2, <2>3, <2>4 DEF FactEvent
  <2>6. history' = history \cup {ev}
    BY <1>10 DEF Commit
  <2>7. WellNumbered(history)
    BY <1>0 DEF WellNumbered, Numbered, FactsOrdered, StateTyped, FactEvent
  <2>8. /\ WellNumbered(history')
        /\ CurrentFacts(history') \subseteq CurrentFacts(history) \cup {call[s].fact}
        /\ ~Records(s) => CurrentFacts(history') \subseteq CurrentFacts(history)
    <3> HIDE DEF ev
    <3> QED
      BY <2>2, <2>3, <2>4, <2>6, <2>7, Appended
  <2>9. ResponseOf(s) \in FactId \cup {NoFact}
    BY <2>1 DEF ResponseOf
  <2>10. /\ told \in CallState /\ told.pc = "answering" /\ told.answer = ResponseOf(s)
         /\ told.command = c /\ told.request = call[s].request /\ told.fact = call[s].fact
    BY <2>1, <2>9 DEF CallState, Pcs, Answers
  <2>11. call' = [call EXCEPT ![s] = told]
    BY <1>10 DEF Commit
  <2>12. /\ ledger' = [ledger EXCEPT ![c] = CompletedRow(call[s].request, ResponseOf(s))]
         /\ Release(s) /\ recorded' = recorded
    BY <1>10 DEF Commit
  <2> HIDE DEF ev, c, told
  <2>13. /\ call' \in [Sender -> CallState]
         /\ call'[s] = told
         /\ \A t \in Sender \ {s} : call'[t] = call[t]
    BY <1>0, <2>10, <2>11, CallStep
  <2>14. CompletedRow(call[s].request, ResponseOf(s)) \in LedgerRow
    BY <2>1, <2>9 DEF LedgerRow, CompletedRow, CallState
  <2>15. StateTyped'
    <3>1. ledger' \in [CommandId -> LedgerRow]
      BY <1>0, <2>1, <2>12, <2>14 DEF StateTyped
    <3>2. claimant' \in [CommandId -> Sender \cup {NoCall}] /\ pairLock' \in Sender \cup {NoCall}
      BY <1>0, <2>12 DEF Release, StateTyped
    <3> QED
      BY <1>0, <2>5, <2>6, <2>12, <2>13, <3>1, <3>2 DEF StateTyped
  <2>16. /\ \A t \in Sender \ {s}, d \in CommandId : claimant[d] = t => claimant'[d] = t /\ d # c
         /\ \A t \in Sender \ {s} : pairLock = t => pairLock' = t
    BY <1>0, <2>1, <2>12 DEF Release, StateTyped
  <2>17. Exclusive'
    BY <1>0, <2>1, <2>10, <2>12, <2>13, <2>16 DEF Exclusive, Executing, Records, StateTyped
  <2>18. /\ ledger'[c] = CompletedRow(call[s].request, ResponseOf(s))
         /\ \A d \in CommandId \ {c} : ledger'[d] = ledger[d]
         /\ ledger'[c].state = "complete" /\ ledger[c].state # "complete"
    BY <1>0, <2>1, <2>12 DEF StateTyped, CompletedRow, NoClaim
  <2>19. RowsMatch'
    <3>1. \A e \in history : e.command # c /\ e.command \in CommandId
      BY <1>0, <2>18 DEF RowsMatch, StateTyped, FactEvent
    <3>2. /\ \A e \in history' : ledger'[e.command].state = "complete"
          /\ \A e, f \in history' : e.command = f.command => e = f
      BY <1>0, <2>3, <2>6, <2>18, <3>1 DEF RowsMatch
    <3>3. ASSUME NEW t \in Sender, call'[t].pc = "answering"
          PROVE  /\ call'[t].answer \in FactId \cup {NoFact}
                 /\ ledger'[call'[t].command] = CompletedRow(call'[t].request, call'[t].answer)
      <4>1. CASE t = s
        BY <2>9, <2>10, <2>13, <2>18, <4>1
      <4>2. CASE t # s
        <5>1. /\ call[t].pc = "answering" /\ call[t].command \in CommandId
              /\ ledger[call[t].command] = CompletedRow(call[t].request, call[t].answer)
          BY <1>0, <2>13, <3>3, <4>2 DEF RowsMatch, Exclusive
        <5>2. call[t].command # c
          BY <2>18, <5>1 DEF CompletedRow
        <5> QED
          BY <1>0, <2>13, <2>18, <4>2, <5>1, <5>2 DEF RowsMatch
      <4> QED
        BY <4>1, <4>2
    <3> QED
      BY <3>2, <3>3 DEF RowsMatch
  <2>20. Numbered'
    <3>1. \A e \in history' : e \in history \/ e = ev
      BY <2>6
    <3>2. /\ \A e \in history' : e.sequence \in 1..recorded'
          /\ \A e, f \in history' : e.sequence = f.sequence => e = f
      BY <1>0, <2>2, <2>12, <3>1 DEF Numbered
    <3>3. \A t \in Sender : call'[t].pc = "completing" => t # s /\ call[t].pc = "completing" /\ call'[t] = call[t]
      BY <2>10, <2>13
    <3>4. \A t \in Sender \ {s} : call[t].pc = "completing" => call[t].event.sequence # ev.sequence
      BY <1>0, <2>1 DEF Numbered, ev
    <3> QED
      BY <1>0, <2>12, <3>1, <3>2, <3>3, <3>4 DEF Numbered
  <2>21. FactsOrdered'
    BY <2>8 DEF WellNumbered, FactsOrdered
  <2>22. AtMostOne'
    BY <1>0, <2>1, <2>8 DEF AtMostOne, Foreseen
  <2>23. Foreseen'
    <3> SUFFICES ASSUME NEW t \in Sender, call'[t].pc \in {"appending", "completing"}
                 PROVE  /\ call'[t].fact \in FactId
                        /\ Records(t)' => CurrentFacts(history') \subseteq {call'[t].fact}
      BY DEF Foreseen
    <3>1. t # s /\ call'[t] = call[t]
      BY <2>10, <2>13
    <3>2. Records(t) => ~Records(s)
      BY <1>0, <2>1, <3>1 DEF Exclusive
    <3> QED
      BY <1>0, <2>8, <3>1, <3>2 DEF Foreseen, Records
  <2> QED
    BY <2>15, <2>17, <2>19, <2>20, <2>21, <2>22, <2>23 DEF ConnectionInv
<1> QED
  BY <1>1, <1>2, <1>3, <1>4, <1>5, <1>6, <1>7, <1>8, <1>9, <1>10 DEF ConnectionNext

\* Claims, locks and answers agree, whatever calls race, crash or are repeated: who holds the open
\* insert or the pair's lock may rely on what it read (connection-command-ledger.mjs, record, retract).
THEOREM ConnectionInvariant == ConnectionSpec => []ConnectionInv
<1> QED
  BY ConnectionInitInv, ConnectionNextInv, PTL DEF ConnectionSpec

\* The invariant gives the types.
LEMMA ConnectionTypes == ConnectionInv => ConnectionTypeOK
<1> SUFFICES ASSUME ConnectionInv PROVE ConnectionTypeOK
  OBVIOUS
<1> DEFINE rows == {NoClaim, Legacy} \cup {CompletedRow(q, r) : q \in Request, r \in FactId \cup {NoFact}}
<1>1. ASSUME NEW row \in LedgerRow PROVE row \in rows
  <2>1. CASE row \in {NoClaim, Legacy}
    BY <2>1
  <2>2. CASE row \in [state : {"complete"}, request : Request, response : FactId \cup {NoFact}]
    <3>1. row = CompletedRow(row.request, row.response)
      BY <2>2 DEF CompletedRow
    <3> QED
      BY <2>2, <3>1
  <2> QED
    BY <1>1, <2>1, <2>2 DEF LedgerRow
<1>2. ledger \in [CommandId -> rows]
  BY <1>1 DEF ConnectionInv, StateTyped
<1> QED
  BY <1>2 DEF ConnectionInv, StateTyped, ConnectionTypeOK, Numbered, FactEvent

\* Rows, locks and events keep their types.
THEOREM ConnectionTyped == ConnectionSpec => []ConnectionTypeOK
<1> QED
  BY ConnectionTypes, ConnectionInvariant, PTL

\* The pair has at most one current fact, however record and retract interleave.
THEOREM ConnectionCurrentOnce == ConnectionSpec => []OneCurrentFact
<1>1. ConnectionInv => OneCurrentFact
  <2> SUFFICES ASSUME ConnectionInv PROVE OneCurrentFact
    OBVIOUS
  <2>1. CASE CurrentFacts(history) = {}
    BY <2>1, FS_EmptySet DEF OneCurrentFact
  <2>2. CASE CurrentFacts(history) # {}
    <3>1. PICK f : CurrentFacts(history) = {f}
      BY <2>2 DEF ConnectionInv, AtMostOne
    <3> QED
      BY <3>1, FS_Singleton DEF OneCurrentFact
  <2> QED
    BY <2>1, <2>2
<1> QED
  BY <1>1, ConnectionInvariant, PTL

-------------------------------------------------------------------------------
(* The ledger implements ExactlyOnce. *)

\* What ExactlyOnce sees of the ledger, the history and the calls.
Spent == {c \in CommandId : ledger[c] = Legacy}
Done == [c \in CommandId |-> IF ledger[c].state = "complete"
                             THEN {<<ledger[c].request, ledger[c].response>>} ELSE {}]
Effects == [c \in CommandId |-> Cardinality({e \in history : e.command = c})]
ToldOf == [s \in Sender |-> IF Told(s)
                            THEN {<<call[s].command, <<call[s].request, call[s].answer>>>>}
                            ELSE {}]
seen == <<Spent, Done, Effects, ToldOf>>

LEMMA OnceInit == ConnectionInit => Once!ExactlyOnceInit
<1> SUFFICES ASSUME ConnectionInit PROVE Once!ExactlyOnceInit
  OBVIOUS
<1>1. Spent \subseteq CommandId
  BY DEF Spent
<1>2. Done = [c \in CommandId |-> {}]
  <2>1. \A c \in CommandId : ledger[c].state # "complete"
    BY DEF ConnectionInit, NoClaim, Legacy
  <2> QED
    BY <2>1 DEF Done
<1>3. Effects = [c \in CommandId |-> 0]
  <2>1. \A c \in CommandId : {e \in history : e.command = c} = {}
    BY DEF ConnectionInit
  <2> QED
    BY <2>1, FS_EmptySet DEF Effects
<1>4. ToldOf = [s \in Sender |-> {}]
  <2>1. \A s \in Sender : ~Told(s)
    BY DEF ConnectionInit, NewCall, Told, At
  <2> QED
    BY <2>1 DEF ToldOf
<1> QED
  BY <1>1, <1>2, <1>3, <1>4 DEF Once!ExactlyOnceInit, Spent, Done, Effects, ToldOf

\* A step that completes no command changes nothing of it but what its own call was told.
LEMMA OnceUnseen ==
    ASSUME UNCHANGED <<ledger, history>>, NEW s \in Sender,
           \A t \in Sender \ {s} : call'[t] = call[t], ~Told(s), ~Told(s)'
    PROVE  UNCHANGED seen
<1>1. UNCHANGED <<Spent, Done, Effects>>
  BY DEF Spent, Done, Effects
<1>2. \A t \in Sender : Told(t)' = Told(t)
  BY DEF Told, At
<1>3. UNCHANGED ToldOf
  BY <1>2 DEF ToldOf
<1> QED
  BY <1>1, <1>3 DEF seen

\* A call that ends without success is told of nothing, one that ends with success is told of the
\* one execution of its command.
LEMMA OnceEnding ==
    ASSUME ConnectionInv, NEW s \in Sender, call[s].pc # "ended", NEW answer,
           Answered(s, answer), UNCHANGED <<ledger, history>>,
           answer \in {"error", "conflict", "lost"}
           \/ /\ call[s].command \in CommandId
              /\ ledger[call[s].command].state = "complete"
              /\ ledger[call[s].command].request = call[s].request
              /\ ledger[call[s].command].response = answer
    PROVE  [Once!ExactlyOnceNext]_seen
<1>1. call \in [Sender -> CallState]
  BY DEF ConnectionInv, StateTyped
<1>2. /\ call'[s].pc = "ended" /\ call'[s].command = call[s].command
      /\ call'[s].request = call[s].request /\ call'[s].answer = answer
      /\ \A t \in Sender \ {s} : call'[t] = call[t]
  BY <1>1 DEF Answered, CallState
<1>3. ~Told(s)
  BY DEF Told, At
<1>4. CASE ~Told(s)'
  BY <1>2, <1>3, <1>4, OnceUnseen
<1>5. CASE Told(s)'
  <2>1. answer \in FactId \cup {NoFact}
    BY <1>2, <1>5 DEF Told
  <2>2. answer \notin {"error", "conflict", "lost"}
    BY <2>1, ConnectionAssumption DEF NoFact
  <2> DEFINE t == <<call[s].command, <<call[s].request, answer>>>>
  <2>3. UNCHANGED <<Spent, Done, Effects>>
    BY DEF Spent, Done, Effects
  <2>4. ToldOf[s] = {} /\ ToldOf'[s] = {t}
    BY <1>2, <1>3, <1>5 DEF ToldOf
  <2>5. ToldOf' = [ToldOf EXCEPT ![s] = {t}]
    <3>1. \A u \in Sender \ {s} : Told(u)' = Told(u)
      BY <1>2 DEF Told, At
    <3> QED
      BY <1>2, <1>5, <3>1 DEF ToldOf
  <2>6. <<call[s].request, answer>> \in Done[call[s].command]
    BY <2>2 DEF Done
  <2>7. t[1] = call[s].command /\ t[2] = <<call[s].request, answer>>
    OBVIOUS
  <2> HIDE DEF t
  <2>8. \E u \in ToldOf'[s] : u[2] \in Done[u[1]] /\ ToldOf' = [ToldOf EXCEPT ![s] = {u}]
    BY <2>4, <2>5, <2>6, <2>7
  <2>9. Once!Tell(s)
    BY <2>3, <2>4, <2>8 DEF Once!Tell, Spent, Done, Effects, ToldOf
  <2> QED
    BY <2>9 DEF Once!ExactlyOnceNext
<1> QED
  BY <1>4, <1>5

\* A commit executes its command: it had no event before and has one now.
LEMMA OnceCommit ==
    ASSUME ConnectionInv, ConnectionInv', NEW s \in Sender, Commit(s),
           NEW c \in CommandId, c = call[s].command
    PROVE  Once!Execute(c)
<1> DEFINE row == CompletedRow(call[s].request, ResponseOf(s))
           x == <<call[s].request, ResponseOf(s)>>
<1>1. /\ StateTyped /\ call[s].pc = "completing" /\ c \in CommandId /\ ledger[c] = NoClaim
      /\ call[s].fact \in FactId /\ call[s].request \in Request
  BY DEF ConnectionInv, StateTyped, CallState, Commit, At, Exclusive, Executing, Foreseen
<1>2. ledger' = [ledger EXCEPT ![c] = row] /\ history' = history \cup {call[s].event}
  BY DEF Commit
<1>3. /\ ledger'[c] = row /\ row.state = "complete"
      /\ row.request = call[s].request /\ row.response = ResponseOf(s)
      /\ \A d \in CommandId \ {c} : ledger'[d] = ledger[d]
  BY <1>1, <1>2 DEF StateTyped, CompletedRow
<1>4. ledger[c] # Legacy /\ row # Legacy /\ ledger[c].state # "complete"
  BY <1>1, <1>3 DEF NoClaim, Legacy
<1>5. call[s].event.command = c
  <2>1. call[s].event = [sequence |-> call[s].event.sequence, fact |-> call[s].fact,
                         action |-> call[s].request.operation, command |-> call[s].command]
    BY <1>1 DEF ConnectionInv, Numbered
  <2> QED
    BY <2>1
<1>6. x \in Request \X (FactId \cup {NoFact})
  BY <1>1 DEF ResponseOf
<1> HIDE DEF row
<1>7. c \notin Spent /\ Done[c] = {}
  BY <1>1, <1>4 DEF Spent, Done
<1>8. Done' = [Done EXCEPT ![c] = {x}] /\ Done'[c] = {x}
  BY <1>1, <1>3 DEF Done
<1>9. Effects' = [Effects EXCEPT ![c] = @ + 1]
  <2>1. {e \in history : e.command = c} = {}
    BY <1>1, <1>4 DEF ConnectionInv, RowsMatch
  <2>2. {e \in history' : e.command = c} = {call[s].event}
    BY <1>2, <1>5, <2>1
  <2>3. \A d \in CommandId \ {c} : {e \in history' : e.command = d} = {e \in history : e.command = d}
    BY <1>2, <1>5
  <2>4. /\ Cardinality({e \in history : e.command = c}) = 0
        /\ Cardinality({e \in history' : e.command = c}) = 1
    BY <2>1, <2>2, FS_EmptySet, FS_Singleton
  <2>5. Effects[c] = 0 /\ Effects'[c] = 1 /\ \A d \in CommandId \ {c} : Effects'[d] = Effects[d]
    BY <1>1, <2>3, <2>4 DEF Effects
  <2>6. /\ Effects = [d \in CommandId |-> Effects[d]] /\ Effects' = [d \in CommandId |-> Effects'[d]]
    BY DEF Effects
  <2> QED
    BY <2>5, <2>6
<1>10. UNCHANGED Spent
  BY <1>3, <1>4 DEF Spent
<1>11. UNCHANGED ToldOf
  <2>1. \A t \in Sender \ {s} : call'[t] = call[t]
    BY <1>1 DEF Commit, StateTyped
  <2>2. ~Told(s)
    BY <1>1 DEF Told, At
  <2>3. call'[s].pc = "answering"
    BY <1>1 DEF Commit, StateTyped, CallState
  <2>4. ~Told(s)'
    BY <2>3 DEF Told, At
  <2>5. \A t \in Sender : Told(t)' = Told(t)
    BY <2>1, <2>2, <2>4 DEF Told, At
  <2> QED
    BY <2>1, <2>2, <2>4, <2>5 DEF ToldOf
<1> HIDE DEF x
<1>12. \E y \in Done'[c] : y \in Request \X (FactId \cup {NoFact}) /\ Done' = [Done EXCEPT ![c] = {y}]
  BY <1>6, <1>8
<1> QED
  BY <1>7, <1>9, <1>10, <1>11, <1>12 DEF Once!Execute, Spent, Done, Effects, ToldOf

LEMMA OnceStep ==
    ConnectionInv /\ ConnectionInv' /\ [ConnectionNext]_connectionVars => [Once!ExactlyOnceNext]_seen
<1> SUFFICES ASSUME ConnectionInv, ConnectionInv', [ConnectionNext]_connectionVars
             PROVE  [Once!ExactlyOnceNext]_seen
  OBVIOUS
<1>0. StateTyped /\ Exclusive /\ RowsMatch
  BY DEF ConnectionInv
<1>1. ASSUME NEW s \in Sender,
             \/ \E c \in CommandId, q \in Request : Send(s, c, q)
             \/ Claim(s) \/ LockPair(s) \/ ReadCurrent(s) \/ AppendEvent(s)
      PROVE  [Once!ExactlyOnceNext]_seen
  <2>1. UNCHANGED <<ledger, history>> /\ \A t \in Sender \ {s} : call'[t] = call[t]
    BY <1>0, <1>1 DEF StateTyped, Send, Claim, LockPair, ReadCurrent, AppendEvent, Move
  <2>2. call[s].pc # "ended"
    BY <1>1 DEF Send, Claim, Insertable, LockPair, ReadCurrent, AppendEvent, At
  <2>3. call'[s].pc # "ended"
    <3>1. CASE \E c \in CommandId, q \in Request : Send(s, c, q)
      BY <1>0, <3>1 DEF StateTyped, Send, NewCall
    <3>2. CASE Claim(s) \/ LockPair(s) \/ ReadCurrent(s) \/ AppendEvent(s)
      BY <1>0, <3>2 DEF StateTyped, CallState, Claim, LockPair, ReadCurrent, AppendEvent, Move
    <3> QED
      BY <1>1, <3>1, <3>2
  <2>4. ~Told(s) /\ ~Told(s)'
    BY <2>2, <2>3 DEF Told, At
  <2> QED
    BY <2>1, <2>4, OnceUnseen
<1>2. ASSUME NEW s \in Sender, Replay(s) PROVE [Once!ExactlyOnceNext]_seen
  <2>1. call[s].pc = "claiming" /\ call[s].command \in CommandId
    BY <1>0, <1>2 DEF Replay, Insertable, At, Exclusive
  <2>2. UNCHANGED <<ledger, history>>
    BY <1>2 DEF Replay
  <2>3. CASE Replays(ledger[call[s].command], call[s].request)
    <3>1. Answered(s, ledger[call[s].command].response)
      BY <1>2, <2>3 DEF Replay
    <3> QED
      BY <2>1, <2>2, <2>3, <3>1, OnceEnding DEF Replays
  <2>4. CASE ~Replays(ledger[call[s].command], call[s].request)
    <3>1. Answered(s, "conflict")
      BY <1>2, <2>4 DEF Replay
    <3> QED
      BY <2>1, <2>2, <3>1, OnceEnding
  <2> QED
    BY <2>3, <2>4
<1>3. ASSUME NEW s \in Sender, Refuse(s) \/ Crash(s) PROVE [Once!ExactlyOnceNext]_seen
  <2>1. PICK answer \in {"error", "conflict", "lost"} : RollBack(s, answer)
    BY <1>3 DEF Refuse, Crash
  <2>2. call[s].pc # "ended"
    BY <1>3 DEF Refuse, Crash, At
  <2> QED
    BY <2>1, <2>2, OnceEnding DEF RollBack
<1>4. ASSUME NEW s \in Sender, Deliver(s) PROVE [Once!ExactlyOnceNext]_seen
  <2>1. call[s].pc = "answering" /\ call[s].command \in CommandId
    BY <1>0, <1>4 DEF Deliver, At, Exclusive
  <2>2. ledger[call[s].command] = CompletedRow(call[s].request, call[s].answer)
    BY <1>0, <2>1 DEF RowsMatch
  <2>3. /\ ledger[call[s].command].state = "complete"
        /\ ledger[call[s].command].request = call[s].request
        /\ ledger[call[s].command].response = call[s].answer
    BY <2>2 DEF CompletedRow
  <2> QED
    BY <1>4, <2>1, <2>3, OnceEnding DEF Deliver
<1>5. ASSUME NEW s \in Sender, Commit(s) PROVE [Once!ExactlyOnceNext]_seen
  <2>1. PICK c \in CommandId : c = call[s].command
    BY <1>0, <1>5 DEF Commit, At, Exclusive
  <2>2. Once!Execute(c)
    BY <1>5, <2>1, OnceCommit
  <2> QED
    BY <2>2 DEF Once!ExactlyOnceNext
<1>6. CASE UNCHANGED connectionVars
  <2>1. UNCHANGED <<Spent, Done, Effects>>
    BY <1>6 DEF connectionVars, Spent, Done, Effects
  <2>2. UNCHANGED ToldOf
    BY <1>6 DEF connectionVars, ToldOf, Told, At
  <2> QED
    BY <2>1, <2>2 DEF seen
<1> QED
  BY <1>1, <1>2, <1>3, <1>4, <1>5, <1>6 DEF ConnectionNext

\* Every command takes effect at most once and whoever is told of success is told of that one
\* execution: the protocol of claims, replays, commits and crashes implements ExactlyOnce.
THEOREM ConnectionRefinesOnce == ConnectionSpec => CommandsExactlyOnce
<1> QED
  BY OnceInit, OnceStep, ConnectionInvariant, PTL
     DEF ConnectionSpec, CommandsExactlyOnce, Once!ExactlyOnceSpec, seen, Spent, Done, Effects, ToldOf

-----------------------------------------------------------------------------
(***************************************************************************)
(* Every document has its file and the contents fit the store, for any     *)
(* imports, contents and services.  Both rest on the lock of the store: an *)
(* import holds it from its quota check to the end of its transaction, and *)
(* while it looks whether a file is referenced.                            *)
(***************************************************************************)

\* The lock has one holder at a time.
LockHeld == \A m \in Import : queued[m] \in {"checked", "written", "cleaning"} => storeLock = m

\* What the holder saw when it checked still holds, and its file is still there.
StillFree ==
    \A m \in Import :
        /\ queued[m] \in {"checked", "written"} => Affordable(m)
        /\ queued[m] = "written" => ContentOf[m] \in blobs

ImportInv == ImportTypeOK /\ LockHeld /\ StillFree /\ DocumentsStored /\ QuotaKept

LEMMA ImportInitInv == ImportInit => ImportInv
<1> SUFFICES ASSUME ImportInit PROVE ImportInv
  OBVIOUS
<1> USE DEF ImportInit
<1>1. ImportTypeOK
  BY DEF ImportTypeOK
<1>2. LockHeld /\ StillFree
  BY DEF LockHeld, StillFree
<1>3. Stored = {}
  BY DEF Stored
<1>4. DocumentsStored /\ QuotaKept
  BY <1>3, ImportAssumption, FS_EmptySet DEF DocumentsStored, QuotaKept
<1> QED
  BY <1>1, <1>2, <1>4 DEF ImportInv

\* Steps that leave documents and files alone only have to respect the lock.
LEMMA ImportQuietStep ==
    ASSUME ImportInv, UNCHANGED <<documents, blobs>>, ImportTypeOK', LockHeld',
           \A m \in Import : queued'[m] \in {"checked", "written"} => Affordable(m),
           \A m \in Import : queued'[m] = "written" => queued[m] = "written"
    PROVE  ImportInv'
<1>1. Stored' = Stored
  BY DEF Stored
<1>2. \A m \in Import : Affordable(m)' = Affordable(m)
  BY <1>1 DEF Affordable
<1>3. StillFree'
  BY <1>2 DEF ImportInv, StillFree
<1>4. DocumentsStored' /\ QuotaKept'
  BY <1>1 DEF ImportInv, DocumentsStored, QuotaKept
<1> QED
  BY <1>3, <1>4 DEF ImportInv

LEMMA ImportNextInv == ImportInv /\ [ImportNext]_importVars => ImportInv'
<1> SUFFICES ASSUME ImportInv, [ImportNext]_importVars PROVE ImportInv'
  OBVIOUS
<1> USE ImportAssumption
<1> USE DEF Is, Reach, InTransaction, Running, StoreFree, Unlock
<1>1. ImportTypeOK /\ LockHeld /\ StillFree /\ DocumentsStored /\ QuotaKept
  BY DEF ImportInv
<1>2. ASSUME NEW m \in Import, StartImport(m) \/ ReplayImport(m) \/ BeginImport(m) PROVE ImportInv'
  <2>1. ImportTypeOK' /\ LockHeld'
    BY <1>1, <1>2 DEF StartImport, ReplayImport, BeginImport, ImportTypeOK, LockHeld
  <2> QED
    BY <1>1, <1>2, <2>1, ImportQuietStep
       DEF StartImport, ReplayImport, BeginImport, ImportTypeOK, StillFree
<1>3. ASSUME NEW m \in Import, CheckQuota(m) PROVE ImportInv'
  <2>1. ImportTypeOK' /\ LockHeld'
    BY <1>1, <1>3 DEF CheckQuota, ImportTypeOK, LockHeld
  <2>2. \A n \in Import : queued'[n] \in {"checked", "written"} => Affordable(n)
    BY <1>1, <1>3 DEF CheckQuota, ImportTypeOK, StillFree
  <2> QED
    BY <1>1, <1>3, <2>1, <2>2, ImportQuietStep DEF CheckQuota, ImportTypeOK
<1>4. ASSUME NEW m \in Import, WriteBlob(m) PROVE ImportInv'
  <2>1. ImportTypeOK' /\ LockHeld'
    BY <1>1, <1>4 DEF WriteBlob, ImportTypeOK, LockHeld
  <2>2. Stored' = Stored
    BY <1>4 DEF WriteBlob, Stored
  <2>3. StillFree'
    BY <1>1, <1>4, <2>2 DEF WriteBlob, ImportTypeOK, StillFree, Affordable
  <2>4. DocumentsStored' /\ QuotaKept'
    BY <1>1, <1>4, <2>2 DEF WriteBlob, DocumentsStored, QuotaKept
  <2> QED
    BY <2>1, <2>3, <2>4 DEF ImportInv
<1>5. ASSUME NEW m \in Import, CommitImport(m) PROVE ImportInv'
  <2>1. ImportTypeOK' /\ LockHeld'
    BY <1>1, <1>5 DEF CommitImport, ImportTypeOK, LockHeld
  <2>2. Stored' = Stored \cup {ContentOf[m]}
    BY <1>5 DEF CommitImport, Stored
  <2>3. Affordable(m) /\ ContentOf[m] \in blobs
    BY <1>1, <1>5 DEF CommitImport, StillFree
  <2>4. \A n \in Import : queued'[n] \notin {"checked", "written"}
    BY <1>1, <1>5 DEF CommitImport, ImportTypeOK, LockHeld
  <2>5. StillFree'
    BY <2>4 DEF StillFree
  <2>6. DocumentsStored' /\ QuotaKept'
    BY <1>1, <1>5, <2>2, <2>3 DEF CommitImport, DocumentsStored, QuotaKept, Affordable
  <2> QED
    BY <2>1, <2>5, <2>6 DEF ImportInv
<1>6. ASSUME NEW m \in Import, RollBackImport(m) \/ CrashImport(m) PROVE ImportInv'
  <2>1. ImportTypeOK' /\ LockHeld'
    BY <1>1, <1>6 DEF RollBackImport, CrashImport, ImportTypeOK, LockHeld
  <2> QED
    BY <1>1, <1>6, <2>1, ImportQuietStep DEF RollBackImport, CrashImport, ImportTypeOK, StillFree
<1>7. ASSUME NEW m \in Import, LockForCleaning(m) PROVE ImportInv'
  <2>1. ImportTypeOK' /\ LockHeld'
    BY <1>1, <1>7 DEF LockForCleaning, ImportTypeOK, LockHeld
  <2> QED
    BY <1>1, <1>7, <2>1, ImportQuietStep DEF LockForCleaning, ImportTypeOK, StillFree
<1>8. ASSUME NEW m \in Import, RemoveBlob(m) PROVE ImportInv'
  <2>1. ImportTypeOK' /\ LockHeld'
    BY <1>1, <1>8 DEF RemoveBlob, ImportTypeOK, LockHeld
  <2>2. Stored' = Stored
    BY <1>8 DEF RemoveBlob, Stored
  <2>3. \A n \in Import : queued'[n] \notin {"checked", "written"}
    BY <1>1, <1>8 DEF RemoveBlob, ImportTypeOK, LockHeld
  <2>4. StillFree'
    BY <2>3 DEF StillFree
  <2>5. DocumentsStored' /\ QuotaKept'
    BY <1>1, <1>8, <2>2 DEF RemoveBlob, Unreferenced, DocumentsStored, QuotaKept
  <2> QED
    BY <2>1, <2>4, <2>5 DEF ImportInv
<1>9. CASE UNCHANGED importVars
  BY <1>1, <1>9 DEF importVars, ImportInv, ImportTypeOK, LockHeld, StillFree, DocumentsStored,
                    QuotaKept, Affordable, Stored
<1> QED
  BY <1>2, <1>3, <1>4, <1>5, <1>6, <1>7, <1>8, <1>9 DEF ImportNext

\* No reachable state breaks the invariant: types, the lock, the room foreseen, files and quota.
THEOREM ImportsInvariant == ImportSpec => []ImportInv
<1> QED
  BY ImportInitInv, ImportNextInv, PTL DEF ImportSpec

\* Requests, files and locks keep their types.
THEOREM ImportsTyped == ImportSpec => []ImportTypeOK
<1>1. ImportInv => ImportTypeOK
  BY DEF ImportInv
<1> QED
  BY <1>1, ImportsInvariant, PTL

\* Every document has its file, whatever imports run, fail, clean up and crash together.
THEOREM ImportsStored == ImportSpec => []DocumentsStored
<1>1. ImportInv => DocumentsStored
  BY DEF ImportInv
<1> QED
  BY <1>1, ImportsInvariant, PTL

\* The contents of all documents fit the store, for any number of imports that check the quota.
THEOREM ImportsWithinQuota == ImportSpec => []QuotaKept
<1>1. ImportInv => QuotaKept
  BY DEF ImportInv
<1> QED
  BY <1>1, ImportsInvariant, PTL

\* The store is sound: every document has its file, and all fit the quota.
THEOREM ImportsSound == ImportSpec => []StoreSound
<1>1. ImportInv => StoreSound
  BY DEF ImportInv, StoreSound
<1> QED
  BY <1>1, ImportsInvariant, PTL
=============================================================================
