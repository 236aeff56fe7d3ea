---------------------------- MODULE ExactlyOnce ----------------------------
(***************************************************************************)
(* What a ledger of client-named commands promises: a command has its      *)
(* effect at most once, for one request, and whoever is told that it       *)
(* succeeded sent that request and is told what its one execution said.    *)
(***************************************************************************)
EXTENDS Naturals

CONSTANTS
    Commands,       \* the names clients give their commands
    Executions,     \* what a command can ask, with what its execution can say
    Calls           \* the calls of clients

VARIABLES
    spent,          \* the names that cannot be used: taken before the ledger existed
    done,           \* [Commands -> the executions of the command]
    effects,        \* [Commands -> how often it took effect]
    told            \* [Calls -> the executions, with their commands, the call was told of]

ExactlyOnceInit ==
    /\ spent \subseteq Commands
    /\ done = [c \in Commands |-> {}]
    /\ effects = [c \in Commands |-> 0]
    /\ told = [k \in Calls |-> {}]

Execute(c) ==
    /\ c \notin spent /\ done[c] = {}
    /\ \E x \in done'[c] : x \in Executions /\ done' = [done EXCEPT ![c] = {x}]
    /\ effects' = [effects EXCEPT ![c] = @ + 1]
    /\ UNCHANGED <<spent, told>>

Tell(k) ==
    /\ told[k] = {}
    /\ \E t \in told'[k] : t[2] \in done[t[1]] /\ told' = [told EXCEPT ![k] = {t}]
    /\ UNCHANGED <<spent, done, effects>>

ExactlyOnceNext == (\E c \in Commands : Execute(c)) \/ (\E k \in Calls : Tell(k))

ExactlyOnceSpec == ExactlyOnceInit /\ [][ExactlyOnceNext]_<<spent, done, effects, told>>
=============================================================================
