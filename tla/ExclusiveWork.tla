---------------------------- MODULE ExclusiveWork ----------------------------
(***************************************************************************)
(* What the detection queue promises of each piece of work: it is held by  *)
(* at most one agent, only its holder can finish it, it is finished once   *)
(* and for good, and work that is given up stays given up.                 *)
(*                                                                         *)
(* One transaction may move several items (a claim sweeps every lapsed     *)
(* lease), so a step moves each item by its own rule, or not at all.       *)
(***************************************************************************)
CONSTANTS Item, Agent, None

VARIABLES
    phase,      \* [Item -> "open", "done" or "dead"]
    holder,     \* [Item -> the agent working on it, or None]
    author      \* [Item -> the agent that finished it, or None]

workVars == <<phase, holder, author>>

Init ==
    /\ phase = [i \in Item |-> "open"]
    /\ holder = [i \in Item |-> None]
    /\ author = [i \in Item |-> None]

Same(i) == phase'[i] = phase[i] /\ holder'[i] = holder[i] /\ author'[i] = author[i]

\* Taken when free, or taken over from a holder that lost it.
Take(i) ==
    /\ phase[i] = "open" /\ phase'[i] = "open"
    /\ holder'[i] \in Agent
    /\ author'[i] = None

\* Lost: the lease ran out, the attempt failed, or the work was taken away.
Lose(i) ==
    /\ phase[i] = "open" /\ phase'[i] \in {"open", "dead"}
    /\ holder[i] # None /\ holder'[i] = None
    /\ author'[i] = None

Finish(i) ==
    /\ phase[i] = "open" /\ phase'[i] = "done"
    /\ holder[i] # None /\ holder'[i] = None
    /\ author'[i] = holder[i]

Next == \A i \in Item : Same(i) \/ Take(i) \/ Lose(i) \/ Finish(i)

Spec == Init /\ [][Next]_workVars
=============================================================================
