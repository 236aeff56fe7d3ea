---------------------------- MODULE FolderAlbums ----------------------------
(***************************************************************************)
(* Collections made from folders.  A page attaches the items of a folder   *)
(* to a collection batch by batch, saves a checkpoint for each batch that  *)
(* changed something, and can undo the operation from the checkpoints.     *)
(* Meanwhile the owner attaches and detaches items by hand, pages are      *)
(* closed and opened again, and requests fail.                             *)
(*                                                                         *)
(* A membership is the latest of its events by created_at, which is the    *)
(* time the transaction began; its locks order the transactions later.     *)
(*                                                                         *)
(* Left out: other operations and collections, the manifest, the commands  *)
(* that replay (the page never repeats one), unavailable items.            *)
(***************************************************************************)
EXTENDS Integers, Sequences, FiniteSets

CONSTANTS
    Item,           \* assets of the folders
    Batches,        \* the batches of the operation, a sequence of sets of items
    Page,           \* open browser pages
    Hand,           \* sessions that attach and detach by hand
    MaxBegins       \* bound: transactions that change memberships

ASSUME FolderAssumption ==
    Batches \in Seq(SUBSET Item) /\ Page \cap Hand = {} /\ MaxBegins \in Nat

VARIABLES
    events,         \* [Item -> its membership events in the collection]
    change,         \* [Page \cup Hand -> the open change of memberships]
    begun,          \* how many began: the clock
    operation,      \* the saved operation and its checkpoints
    view            \* [Page -> the state of the page]

folderVars == <<events, change, begun, operation, view>>

-----------------------------------------------------------------------------

Nothing == 0

NoChange == [at |-> Nothing, action |-> "attach", items |-> {}, undoes |-> Nothing]
NoOperation == [state |-> "none", checkpoints |-> <<>>]
ClosedPage == [pc |-> "closed", batch |-> 1, decision |-> Nothing, changed |-> {},
               saved |-> NoOperation, left |-> {}]

FolderInit ==
    /\ events = [i \in Item |-> {}]
    /\ change = [s \in Page \cup Hand |-> NoChange]
    /\ begun = 0
    /\ operation = NoOperation
    /\ view = [g \in Page |-> ClosedPage]

\* Events are known by the time of their transaction, their decision.
LatestEvent(i) == CHOOSE e \in events[i] : \A x \in events[i] : x.at <= e.at
LatestIs(i, d) == events[i] # {} /\ LatestEvent(i).at = d
Member(i) == events[i] # {} /\ LatestEvent(i).action = "attach"
MemberBefore(i, d) ==
    \E e \in events[i] : /\ e.at < d /\ e.action = "attach"
                         /\ \A x \in events[i] : x.at < d => x.at <= e.at

-----------------------------------------------------------------------------
(* Changes of memberships *)

Begin(s, action, items, undoes) ==
    /\ change[s] = NoChange /\ begun < MaxBegins
    /\ begun' = begun + 1
    /\ change' = [change EXCEPT ![s] =
                    [at |-> begun + 1, action |-> action, items |-> items, undoes |-> undoes]]
    /\ UNCHANGED events

UndoableAny(i, d) == \E e \in events[i] : e.at = d
\* Of a decision only what is still current is undone.
Undoable(i, d) == LatestIs(i, d)

\* attach and detach change what is not so yet.
ChangedItems(c) ==
    {i \in c.items : IF c.undoes = Nothing THEN Member(i) # (c.action = "attach")
                                           ELSE Undoable(i, c.undoes)}

\* Under the locks of its items a change reads their events and appends to them.
Apply(s) ==
    LET c == change[s]
        changed == ChangedItems(c)
    IN
    /\ c # NoChange
    /\ events' = [i \in Item |-> IF i \in changed
                                 THEN events[i] \cup {[at |-> c.at, action |-> c.action]}
                                 ELSE events[i]]
    /\ change' = [change EXCEPT ![s] = NoChange]
    /\ UNCHANGED begun

BeginByHand(h) ==
    /\ \E action \in {"attach", "detach"}, i \in Item : Begin(h, action, {i}, Nothing)
    /\ UNCHANGED <<operation, view>>

ApplyByHand(h) == Apply(h) /\ UNCHANGED <<operation, view>>

-----------------------------------------------------------------------------
(* The page applies *)

Show(g, v) == view' = [view EXCEPT ![g] = v]
Memberships == <<events, change, begun>>

\* activeBulkAlbumOperation
Unfinished == IF operation.state \in {"applying", "applied", "partial", "undoing"}
              THEN operation ELSE NoOperation

OpenPage(g) ==
    /\ view[g].pc = "closed"
    /\ Show(g, [ClosedPage EXCEPT !.pc = "open", !.saved = Unfinished])
    /\ UNCHANGED <<Memberships, operation>>

StartApply(g) ==
    /\ view[g].pc = "open" /\ view[g].saved = NoOperation /\ operation = NoOperation
    /\ operation' = [NoOperation EXCEPT !.state = "applying"]
    /\ Show(g, [view[g] EXCEPT !.pc = "batch"])
    /\ UNCHANGED Memberships

BeginBatch(g) ==
    /\ view[g].pc = "batch" /\ view[g].batch <= Len(Batches)
    /\ Begin(g, "attach", Batches[view[g].batch], Nothing)
    /\ Show(g, [view[g] EXCEPT !.pc = "attaching"])
    /\ UNCHANGED operation

NextBatch(v) == [v EXCEPT !.pc = "batch", !.batch = @ + 1, !.decision = Nothing, !.changed = {}]

ApplyBatch(g) ==
    LET changed == ChangedItems(change[g]) IN
    /\ view[g].pc = "attaching"
    /\ Apply(g)
    /\ Show(g, IF changed = {} THEN NextBatch(view[g])
               ELSE [view[g] EXCEPT !.pc = "checkpointing", !.decision = change[g].at,
                                    !.changed = changed])
    /\ UNCHANGED operation

Checkpoint(g) ==
    LET v == view[g] IN
    /\ v.pc = "checkpointing" /\ operation.state = "applying"
    /\ operation' = [operation EXCEPT !.checkpoints =
            Append(@, [decision |-> v.decision, items |-> v.changed, state |-> "applied"])]
    /\ Show(g, NextBatch(v))
    /\ UNCHANGED Memberships

FinishApply(g) ==
    /\ view[g].pc = "batch" /\ view[g].batch > Len(Batches) /\ operation.state = "applying"
    /\ operation' = [operation EXCEPT !.state = "applied"]
    /\ Show(g, [ClosedPage EXCEPT !.pc = "open", !.saved = operation'])
    /\ UNCHANGED Memberships

\* A request of the loop fails, perhaps after its effect: the page marks the operation partial.
ApplyFails(g) ==
    /\ view[g].pc \in {"batch", "checkpointing"}
    /\ operation' = IF operation.state = "applying" THEN [operation EXCEPT !.state = "partial"]
                                                   ELSE operation
    /\ Show(g, [ClosedPage EXCEPT !.pc = "open", !.saved = IF Unfinished = NoOperation
                                                           THEN NoOperation ELSE operation'])
    /\ UNCHANGED Memberships

-----------------------------------------------------------------------------
(* The page undoes, or keeps *)

LiveCheckpoints(op) == {k \in DOMAIN op.checkpoints : op.checkpoints[k].state = "applied"}

\* The page undoes the checkpoints of the operation as it loaded it.
StartUndo(g) ==
    LET v == view[g] IN
    /\ v.pc = "open" /\ v.saved # NoOperation
    /\ IF operation.state \in {"applied", "partial", "undoing"}
       THEN /\ operation' = [operation EXCEPT !.state = "undoing"]
            /\ Show(g, [v EXCEPT !.pc = "undoing", !.left = LiveCheckpoints(v.saved)])
       ELSE /\ UNCHANGED operation
            /\ Show(g, [v EXCEPT !.saved = Unfinished])
    /\ UNCHANGED Memberships

LastLeft(v) == CHOOSE k \in v.left : \A j \in v.left : j <= k
Undone(k) == [operation EXCEPT !.checkpoints[k].state = "undone"]

BeginUndo(g) ==
    LET saved == view[g].saved.checkpoints[LastLeft(view[g])] IN
    /\ view[g].pc = "undoing" /\ view[g].left # {}
    /\ Begin(g, "detach", saved.items, saved.decision)
    /\ Show(g, [view[g] EXCEPT !.pc = "detaching"])
    /\ UNCHANGED operation

ApplyUndo(g) ==
    /\ view[g].pc = "detaching"
    /\ Apply(g)
    /\ Show(g, [view[g] EXCEPT !.pc = "undone"])
    /\ UNCHANGED operation

UndoCheckpointEarly(g) ==
    LET v == view[g] IN
    /\ v.pc \in {"undoing", "undone"} /\ v.left # {}
    /\ operation' = Undone(LastLeft(v))
    /\ Show(g, [v EXCEPT !.pc = "undoing", !.left = @ \ {LastLeft(v)}])
    /\ UNCHANGED Memberships

UndoCheckpoint(g) ==
    LET v == view[g] IN
    /\ v.pc = "undone"
    /\ operation' = Undone(LastLeft(v))
    /\ Show(g, [v EXCEPT !.pc = "undoing", !.left = @ \ {LastLeft(v)}])
    /\ UNCHANGED Memberships

\* The last request is accepted whatever is left of the operation elsewhere.
FinishUndo(g) ==
    /\ view[g].pc = "undoing" /\ view[g].left = {}
    /\ operation.state \in {"undoing", "undone"}
    /\ operation' = [operation EXCEPT !.state = "undone"]
    /\ Show(g, [ClosedPage EXCEPT !.pc = "open"])
    /\ UNCHANGED Memberships

UndoFails(g) ==
    /\ view[g].pc \in {"undoing", "undone"}
    /\ Show(g, [ClosedPage EXCEPT !.pc = "open", !.saved = Unfinished])
    /\ UNCHANGED <<Memberships, operation>>

Keep(g) ==
    /\ view[g].pc = "open" /\ view[g].saved # NoOperation
    /\ operation.state \in {"applied", "partial", "kept"}
    /\ operation' = [operation EXCEPT !.state = "kept"]
    /\ Show(g, [view[g] EXCEPT !.saved = NoOperation])
    /\ UNCHANGED Memberships

\* The page is closed: a change it has begun ends without it.
ClosePage(g) ==
    /\ view[g].pc \notin {"closed", "attaching", "detaching"}
    /\ Show(g, ClosedPage)
    /\ UNCHANGED <<Memberships, operation>>

ClosePageEarly(g) ==
    /\ view[g].pc \in {"attaching", "detaching"}
    /\ Apply(g)
    /\ Show(g, ClosedPage)
    /\ UNCHANGED operation

-----------------------------------------------------------------------------

FolderNext ==
    \/ \E h \in Hand : BeginByHand(h) \/ ApplyByHand(h)
    \/ \E g \in Page :
        \/ OpenPage(g) \/ StartApply(g) \/ BeginBatch(g) \/ ApplyBatch(g) \/ Checkpoint(g)
        \/ FinishApply(g) \/ ApplyFails(g) \/ StartUndo(g) \/ BeginUndo(g) \/ ApplyUndo(g)
        \/ UndoCheckpoint(g) \/ FinishUndo(g) \/ UndoFails(g) \/ Keep(g)
        \/ ClosePage(g) \/ ClosePageEarly(g)

FolderSpec == FolderInit /\ [][FolderNext]_folderVars

-----------------------------------------------------------------------------
(* Properties *)

FolderTypeOK ==
    /\ begun \in 0..MaxBegins
    /\ \A i \in Item : \A e \in events[i] : e.at \in 1..begun /\ e.action \in {"attach", "detach"}
    /\ operation.state \in {"none", "applying", "applied", "partial", "undoing", "undone", "kept"}
    /\ \A s \in Page \cup Hand : change[s].at \in 0..begun

\* What is undone is undone: the checkpoint of a batch is marked only when none of the
\* memberships it saved is current, whoever attached and detached the items meanwhile.
UndoneCheckpointsDetached ==
    \A k \in DOMAIN operation.checkpoints :
        LET saved == operation.checkpoints[k] IN
        saved.state = "undone" => \A i \in saved.items : ~LatestIs(i, saved.decision)

\* Undo takes back its own memberships only: an item that was a member before the operation, or
\* that somebody attached by hand after it was detached, stays a member, also when transactions
\* commit in another order than they began in.
UndoKeepsOthers ==
    [][\A g \in Page, i \in Item :
        change[g].undoes # Nothing /\ change'[g] # change[g] /\ Member(i) /\ ~Member(i)'
            => LatestIs(i, change[g].undoes) /\ ~MemberBefore(i, change[g].undoes)]_folderVars
=============================================================================
