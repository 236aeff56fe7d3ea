------------------------- MODULE ResidentRecognizer -------------------------
(***************************************************************************)
(* The recogniser keeps one Python process and sends it one request at a   *)
(* time over a pipe; answers come back without names, in order.  A request *)
(* ends with its answer, its timeout, or the failure of the process.       *)
(*                                                                         *)
(* The events of a process (data, close, the callback of a write, a timer) *)
(* arrive in any order between them, also after the process was killed and *)
(* replaced: they act on whatever process is resident then.                *)
(*                                                                         *)
(* Left out: how an answer is cut into chunks, the manifest, the contents, *)
(* and the shutdown of the recogniser.                                     *)
(***************************************************************************)
EXTENDS Naturals, Sequences

CONSTANT LastCall   \* requests are 1..LastCall, in the order of the queue

ASSUME CallAssumption == LastCall \in Nat

VARIABLES
    outcome,        \* [call -> "queued", "sent", the call whose answer it got, or "failed"]
    armed,          \* the calls whose timer is set
    resident,       \* the process that is used, if any
    child           \* [process -> its state]; a process has the name of the call that spawned it

recognizerVars == <<outcome, armed, resident, child>>

-----------------------------------------------------------------------------

Call == 1..LastCall
NoChild == 0
Nobody == 0

Unspawned == [life |-> "unspawned", killed |-> FALSE, pending |-> Nobody, stdin |-> <<>>,
              stdout |-> <<>>, writing |-> <<>>]

RecognizerInit ==
    /\ outcome = [r \in Call |-> [state |-> "queued", answer |-> Nobody]]
    /\ armed = {}
    /\ resident = NoChild
    /\ child = [k \in Call |-> Unspawned]

\* stopResident; kids are the processes as the caller has left them.
StopResident(kids) ==
    /\ resident' = NoChild
    /\ child' = IF resident = NoChild THEN kids ELSE [kids EXCEPT ![resident].killed = TRUE]

Settled(r) == outcome[r].state \in {"answered", "failed"}
\* A promise that is settled keeps its outcome.
Settle(r, state, answer) ==
    outcome' = IF r = Nobody \/ Settled(r) THEN outcome
               ELSE [outcome EXCEPT ![r] = [state |-> state, answer |-> answer]]

-----------------------------------------------------------------------------

\* residentQueue: a call starts when all before it have settled.
Recognize(r) ==
    LET fresh == resident = NoChild \/ child[resident].killed
        k == IF fresh THEN r ELSE resident
    IN
    /\ outcome[r].state = "queued" /\ \A q \in 1..(r - 1) : Settled(q)
    /\ IF ~fresh /\ child[k].pending # Nobody
       THEN /\ Settle(r, "failed", Nobody)
            /\ UNCHANGED <<armed, resident, child>>
       ELSE /\ outcome' = [outcome EXCEPT ![r].state = "sent"]
            /\ armed' = armed \cup {r}
            /\ resident' = k
            /\ child' = [child EXCEPT ![k].life = IF fresh THEN "alive" ELSE @, ![k].pending = r,
                                      ![k].stdin = Append(@, r),
                                      ![k].writing = Append(@, r)]

\* The process answers its oldest request, killed or not, until it is dead.
Answer(k) ==
    /\ child[k].life = "alive" /\ child[k].stdin # <<>>
    /\ child' = [child EXCEPT ![k].stdin = Tail(@), ![k].stdout = Append(@, Head(child[k].stdin))]
    /\ UNCHANGED <<outcome, armed, resident>>

Die(k) ==
    /\ child[k].life = "alive"
    /\ child' = [child EXCEPT ![k].life = "dead"]
    /\ UNCHANGED <<outcome, armed, resident>>

\* Output nobody waits for stops the resident process, whichever process it came from.
Data(k) ==
    LET r == child[k].pending
        read == [child EXCEPT ![k].stdout = Tail(@), ![k].pending = Nobody]
    IN
    /\ child[k].stdout # <<>>
    /\ IF r = Nobody
       THEN StopResident(read) /\ UNCHANGED <<outcome, armed>>
       ELSE \/ /\ Settle(r, "answered", Head(child[k].stdout))
               /\ armed' = armed \ {r}
               /\ child' = read
               /\ UNCHANGED resident
            \* The answer does not parse, ...
            \/ Settle(r, "failed", Nobody) /\ armed' = armed \ {r} /\ StopResident(read)
            \* ... or its frame is invalid: then the timer is left running.
            \/ Settle(r, "failed", Nobody) /\ UNCHANGED armed /\ StopResident(read)

ChildOf(r) == CHOOSE k \in Call : k <= r /\ child[k].life # "unspawned"
                                  /\ \A j \in (k + 1)..r : child[j].life = "unspawned"

TimeoutKeepsChild(r) ==
    /\ r \in armed
    /\ armed' = armed \ {r}
    /\ Settle(r, "failed", Nobody)
    /\ child' = [child EXCEPT ![ChildOf(r)].pending = Nobody]
    /\ UNCHANGED resident

TimeoutOnlyStops(r) ==
    /\ r \in armed
    /\ armed' = armed \ {r}
    /\ UNCHANGED outcome
    /\ StopResident([child EXCEPT ![ChildOf(r)].pending = Nobody])

Timeout(r) ==
    /\ r \in armed
    /\ armed' = armed \ {r}
    /\ Settle(r, "failed", Nobody)
    /\ StopResident([child EXCEPT ![ChildOf(r)].pending = Nobody])

\* close comes after the last output: the call that still waits fails.
Close(k) ==
    LET r == child[k].pending IN
    /\ child[k].life = "dead" /\ child[k].stdout = <<>>
    /\ Settle(r, "failed", Nobody)
    /\ armed' = armed \ {r}
    /\ child' = [child EXCEPT ![k].life = "closed", ![k].pending = Nobody]
    /\ resident' = IF resident = k THEN NoChild ELSE resident

\* The callback of the oldest write.
Written(k) ==
    /\ child[k].writing # <<>>
    /\ child' = [child EXCEPT ![k].writing = Tail(@)]
    /\ UNCHANGED <<outcome, armed, resident>>

\* An error means that the process is dead.  Whichever call waits by then waits no more, but only
\* the one that was written is told; another one is left to its timer.
WriteFails(k) ==
    LET r == Head(child[k].writing) IN
    /\ child[k].writing # <<>> /\ child[k].life # "alive"
    /\ IF child[k].pending = Nobody THEN UNCHANGED <<outcome, armed>>
       ELSE Settle(r, "failed", Nobody) /\ armed' = armed \ {r}
    /\ StopResident([child EXCEPT ![k].writing = Tail(@), ![k].pending = Nobody])

-----------------------------------------------------------------------------

RecognizerNext ==
    \/ \E r \in Call : Recognize(r) \/ Timeout(r)
    \/ \E k \in Call : Answer(k) \/ Die(k) \/ Data(k) \/ Close(k) \/ Written(k) \/ WriteFails(k)

\* Timers expire and queued calls start.
RecognizerFairness == \A r \in Call : WF_recognizerVars(Recognize(r)) /\ WF_recognizerVars(Timeout(r))

RecognizerSpec == RecognizerInit /\ [][RecognizerNext]_recognizerVars

-----------------------------------------------------------------------------
(* Properties *)

OutcomeRow == [state : {"queued", "sent", "answered", "failed"}, answer : {Nobody} \cup Call]

ChildRow ==
    [life : {"unspawned", "alive", "dead", "closed"}, killed : BOOLEAN,
     pending : {Nobody} \cup Call, stdin : Seq(Call), stdout : Seq(Call),
     writing : Seq(Call)]

RecognizerTypeOK ==
    /\ outcome \in [Call -> OutcomeRow]
    /\ armed \subseteq Call
    /\ resident \in {NoChild} \cup Call
    /\ child \in [Call -> ChildRow]

\* A call is answered with the answer to its own request: what a slow process says after a timeout
\* never reaches the call that comes next.
AnswersOwnCall == \A r \in Call : outcome[r].state = "answered" => outcome[r].answer = r

\* At most one process runs that nobody has told to end: replacing the recogniser after a timeout
\* or a broken answer does not leave the old one and its model in memory.
OneRecognizer == \A k \in Call : child[k].life = "alive" => k = resident \/ child[k].killed

\* Replacing a process confuses neither answers nor processes.
RecognizerSafe == AnswersOwnCall /\ OneRecognizer

\* Once the first call has started every call ends, whatever the process does: a process that is
\* silent, dead, slow or talks nonsense never blocks the queue.
CallsEnd == outcome[1].state # "queued" ~> \A r \in Call : Settled(r)
=============================================================================
