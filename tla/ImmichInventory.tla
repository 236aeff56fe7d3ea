-------------------------- MODULE ImmichInventory --------------------------
(***************************************************************************)
(* The inventory of one Immich source: runs that read the lanes of the     *)
(* library page by page, the projection of each photo, its binding, the    *)
(* assets bindings keep available, and the removal of missing records.     *)
(*                                                                         *)
(* An ordinary run lists what is not in the trash and admits photos.  A    *)
(* catalogue run lists the trash too, admits nothing, and is the only one  *)
(* whose completion turns what it has not seen into missing.  Clients of   *)
(* both kinds work on the one processing run of the source, resume it, or  *)
(* replace it by one of their kind.                                        *)
(*                                                                         *)
(* A step is a database transaction, or the listing of a page, which       *)
(* counts photos from the start of its lane.                               *)
(*                                                                         *)
(* Left out: unsupported media, content identity, jobs (module             *)
(* DetectionQueue), the selection of lanes, other sources, events, and the *)
(* refresh of single assets that are shown (immich-asset-activity.mjs: it  *)
(* asks Immich, keeps the answer for a minute, and writes what was asked   *)
(* into projection, binding and asset; removed bindings it leaves alone).  *)
(***************************************************************************)
EXTENDS Integers, Sequences, FiniteSets

CONSTANTS
    Photo,          \* Immich asset ids, in the order of a listing
    Lane,           \* visibilities, numbered in the order a run reads them
    Asset,          \* Cimmich assets
    AssetOf,        \* [Photo -> the asset it binds]; equal content shares one
    Sync,           \* callers of synchronize
    CatalogueSync,  \* those that run with cataloguePresenceOnly
    PageSize,       \* photos on a page
    MaxUpsets       \* bound: changes of the library, callers that stop, days that pass

ASSUME InventoryAssumption ==
    /\ Photo \subseteq Nat /\ IsFiniteSet(Photo)
    /\ IsFiniteSet(Lane) /\ Lane = 1..Cardinality(Lane) /\ Lane # {}
    /\ AssetOf \in [Photo -> Asset]
    /\ CatalogueSync \subseteq Sync
    /\ PageSize \in Nat \ {0} /\ MaxUpsets \in Nat

VARIABLES
    library,        \* [Photo -> its lane and whether it is in the trash]
    run,            \* the source's latest run
    lane,           \* [Lane -> its state in that run and its cursor]
    page,           \* [Lane -> the contents recorded for its cursors]
    proj,           \* [Photo -> its projection]
    binding,        \* [Photo -> the state of its binding]
    asset,          \* [Asset -> its state]
    retired,        \* the photos named by removal commands
    sync,           \* [Sync -> the state of a caller]
    quiet,          \* the library has not changed since the run began (history)
    upsets          \* how many of those so far

inventoryVars == <<library, run, lane, page, proj, binding, asset, retired, sync, quiet, upsets>>

-----------------------------------------------------------------------------

Nowhere == 0
InLibrary(p) == library[p].lane # Nowhere /\ ~library[p].trashed

NewLane == [state |-> "pending", cursor |-> 1]
NoProjection == [state |-> "absent", lane |-> Nowhere, trashed |-> FALSE, seen |-> FALSE]
NoPage == [items |-> {}, more |-> FALSE]
IdleSync == [pc |-> "idle", lane |-> 1, cursor |-> 1, page |-> NoPage]

Known(p) == proj[p].state # "absent"

InventoryInit ==
    /\ library = [p \in Photo |-> [lane |-> 1, trashed |-> FALSE]]
    /\ run = [state |-> "none", catalogue |-> FALSE]
    /\ lane = [l \in Lane |-> NewLane]
    /\ page = [l \in Lane |-> <<>>]
    /\ proj = [p \in Photo |-> NoProjection]
    /\ binding = [p \in Photo |-> "none"]
    /\ asset = [a \in Asset |-> "none"]
    /\ retired = {}
    /\ sync = [c \in Sync |-> IdleSync]
    /\ quiet = FALSE
    /\ upsets = 0

-----------------------------------------------------------------------------
(* The library and its listing *)

Upset == upsets < MaxUpsets /\ upsets' = upsets + 1

LibraryChanges(p) ==
    /\ Upset
    /\ library[p].lane # Nowhere
    /\ \E l \in Lane \cup {Nowhere}, t \in BOOLEAN :
        /\ l = Nowhere => ~t
        /\ library' = [library EXCEPT ![p] = [lane |-> l, trashed |-> t]]
        /\ library' # library
    /\ quiet' = FALSE
    /\ UNCHANGED <<run, lane, page, proj, binding, asset, retired, sync>>

Listing(l, withTrash) ==
    {p \in Photo : library[p].lane = l /\ (withTrash \/ ~library[p].trashed)}

\* In the order of the identifiers.
Position(p, all) == Cardinality({q \in all : q <= p})

\* Cursors are page numbers.
PageAt(l, k, withTrash) ==
    LET all == Listing(l, withTrash)
        on == {p \in all : (k - 1) * PageSize < Position(p, all) /\ Position(p, all) <= k * PageSize}
    IN [items |-> {[photo |-> p, trashed |-> library[p].trashed] : p \in on},
        more |-> Cardinality(all) > k * PageSize]

-----------------------------------------------------------------------------
(* Beginning and reading *)

Catalogue(c) == c \in CatalogueSync

NeverResumable(c) == FALSE
Resumable(c) == run.state = "processing" /\ run.catalogue = Catalogue(c)

\* A processing run of the other kind has failed: its callers' next write is refused.
FreshRun(c) ==
    /\ run' = [state |-> "processing", catalogue |-> Catalogue(c)]
    /\ lane' = [l \in Lane |-> NewLane]
    /\ page' = [l \in Lane |-> <<>>]
    /\ proj' = [p \in Photo |-> [proj[p] EXCEPT !.seen = FALSE]]
    /\ sync' = [d \in Sync |-> IF d = c THEN [IdleSync EXCEPT !.pc = "entering"] ELSE IdleSync]
    /\ quiet' = TRUE

BeginScoped(c) ==
    /\ sync[c].pc = "idle"
    /\ \/ /\ Resumable(c)
          /\ sync' = [sync EXCEPT ![c] = [IdleSync EXCEPT !.pc = "entering"]]
          /\ UNCHANGED <<run, lane, page, proj, quiet>>
       \/ ~Resumable(c) /\ FreshRun(c)
    /\ UNCHANGED <<library, binding, asset, retired, upsets>>

\* synchronize first fails runs that began a day ago, live or not; the source gets a fresh one.
BeginAfterADay(c) ==
    /\ Upset
    /\ sync[c].pc = "idle" /\ run.state = "processing"
    /\ FreshRun(c)
    /\ UNCHANGED <<library, binding, asset, retired>>

NextLaneUnbounded(s) == [IdleSync EXCEPT !.pc = "entering", !.lane = s.lane + 1]
\* After a lane comes the next one, after the last one the completion.
NextLane(s) == IF s.lane + 1 \in Lane THEN [IdleSync EXCEPT !.pc = "entering", !.lane = s.lane + 1]
                                      ELSE [IdleSync EXCEPT !.pc = "completing"]

ReadPage(s, k, c) ==
    [s EXCEPT !.pc = "recording", !.cursor = k, !.page = PageAt(s.lane, k, Catalogue(c))]

\* A lane is entered at its committed cursor; later pages follow the cursor the last one returned.
ListAssets(c) ==
    LET s == sync[c] IN
    /\ \/ s.pc = "entering"
          /\ sync' = [sync EXCEPT ![c] = IF lane[s.lane].state = "completed" THEN NextLane(s)
                                         ELSE ReadPage(s, lane[s.lane].cursor, c)]
       \/ s.pc = "paging" /\ sync' = [sync EXCEPT ![c] = ReadPage(s, s.cursor, c)]
    /\ UNCHANGED <<library, run, lane, page, proj, binding, asset, retired, quiet, upsets>>

\* Continues with the lane a recording returned.
Continue(s, row) == IF row.state = "completed" THEN NextLane(s)
                    ELSE [s EXCEPT !.pc = "paging", !.cursor = row.cursor, !.page = NoPage]

Fails(c) ==
    /\ sync' = [sync EXCEPT ![c] = IdleSync]
    /\ UNCHANGED <<run, lane, page, proj, binding, asset>>

-----------------------------------------------------------------------------
(* Recording a page *)

Recorded(s) == s.cursor \in DOMAIN page[s.lane]

\* A page that is recorded already is returned as it is, and refused with other contents.
ReplayPage(c) ==
    LET s == sync[c] IN
    /\ s.pc = "recording" /\ Recorded(s)
    /\ IF page[s.lane][s.cursor] = s.page
       THEN /\ sync' = [sync EXCEPT ![c] = Continue(s, lane[s.lane])]
            /\ UNCHANGED <<run, lane, page, proj, binding, asset>>
       ELSE Fails(c)
    /\ UNCHANGED <<library, retired, quiet, upsets>>

Listed(s) == {i.photo : i \in s.page.items}
IgnoredTrash(s) == {}
InTrash(s) == {i.photo : i \in {j \in s.page.items : j.trashed}}

\* Runs and lanes are read again under their locks; a photo belongs to one lane of a run.
Recordable(s) ==
    /\ run.state = "processing"
    /\ lane[s.lane].state # "completed" /\ lane[s.lane].cursor = s.cursor
    /\ \A p \in Listed(s) : proj[p].seen => proj[p].lane = s.lane

Advanced(s) == IF s.page.more THEN [state |-> "processing", cursor |-> s.cursor + 1]
               ELSE [state |-> "completed", cursor |-> 1]

AdvanceLane(c) ==
    LET s == sync[c] IN
    /\ page' = [page EXCEPT ![s.lane] = Append(@, s.page)]
    /\ lane' = [lane EXCEPT ![s.lane] = Advanced(s)]
    /\ sync' = [sync EXCEPT ![c] = Continue(s, Advanced(s))]
    /\ UNCHANGED run

\* recordPage admits every photo of the page, whatever was recorded of it before.
AdmitPhotos(s) ==
    /\ proj' = [p \in Photo |-> IF p \in Listed(s)
                                THEN [state |-> "active", lane |-> s.lane, trashed |-> FALSE,
                                      seen |-> TRUE]
                                ELSE proj[p]]
    /\ binding' = [p \in Photo |-> IF p \in Listed(s) THEN "active" ELSE binding[p]]
    /\ asset' = [a \in Asset |-> IF \E p \in Listed(s) : AssetOf[p] = a THEN "active" ELSE asset[a]]

\* recordImmichCataloguePresencePage touches known photos; removed ones keep their binding.
\* One statement: the assets are computed from the bindings as they were before it.
RefreshPresence(s) ==
    LET observed == {p \in Listed(s) : Known(p)}
        refreshed == observed \ retired
    IN
    /\ proj' = [p \in Photo |-> IF p \in observed
                                THEN [state |-> IF p \in InTrash(s) THEN "missing" ELSE "active",
                                      lane |-> s.lane, trashed |-> p \in InTrash(s), seen |-> TRUE]
                                ELSE proj[p]]
    /\ binding' = [p \in Photo |-> IF p \in refreshed THEN proj'[p].state ELSE binding[p]]
    /\ asset' = [a \in Asset |->
                    IF /\ asset[a] \in {"active", "missing"}
                       /\ \E p \in refreshed : AssetOf[p] = a
                    THEN IF \E p \in Photo : AssetOf[p] = a /\ binding[p] = "active"
                         THEN "active" ELSE "missing"
                    ELSE asset[a]]

RecordPage(c) ==
    LET s == sync[c] IN
    /\ s.pc = "recording" /\ ~Recorded(s)
    /\ IF Recordable(s)
       THEN /\ AdvanceLane(c)
            /\ IF Catalogue(c) THEN RefreshPresence(s) ELSE AdmitPhotos(s)
       ELSE Fails(c)
    /\ UNCHANGED <<library, retired, quiet, upsets>>

-----------------------------------------------------------------------------
(* Completion and reconciliation *)

Absent == {p \in Photo : Known(p) /\ ~proj[p].seen}

\* What a complete catalogue has not listed is missing, with the assets nothing else keeps.
Complete(c) ==
    LET missing == IF run.catalogue THEN Absent ELSE {}
        lost == {p \in Photo : run.catalogue /\ proj'[p].state = "missing"}
        kept == {AssetOf[p] : p \in {q \in Photo : proj'[q].state = "active" /\ proj'[q].seen}}
    IN
    /\ sync[c].pc = "completing"
    /\ IF run.state = "processing" /\ \A l \in Lane : lane[l].state = "completed"
       THEN /\ run' = [run EXCEPT !.state = "completed"]
            /\ proj' = [p \in Photo |->
                            IF p \in missing /\ proj[p].state # "missing"
                            THEN [proj[p] EXCEPT !.state = "missing", !.trashed = FALSE]
                            ELSE proj[p]]
            /\ asset' = [a \in Asset |-> IF a \in {AssetOf[p] : p \in lost} \ kept
                                         THEN "missing" ELSE asset[a]]
            /\ sync' = [sync EXCEPT ![c] = [IdleSync EXCEPT !.pc = "bindings"]]
            /\ UNCHANGED <<lane, page, binding>>
       ELSE Fails(c)
    /\ UNCHANGED <<library, retired, quiet, upsets>>

ReconciledAny(p) == Known(p) /\ binding[p] # "none"
\* Two statements of their own transactions follow: a removed photo's binding is left alone.
Reconciled(p) == Known(p) /\ binding[p] # "none" /\ p \notin retired

ReconcileBindings(c) ==
    /\ sync[c].pc = "bindings"
    /\ binding' = [p \in Photo |-> IF Reconciled(p) THEN proj[p].state ELSE binding[p]]
    /\ sync' = [sync EXCEPT ![c].pc = "assets"]
    /\ UNCHANGED <<library, run, lane, page, proj, asset, retired, quiet, upsets>>

BoundIn(a, states) == \E p \in Photo : AssetOf[p] = a /\ binding[p] \in states

ReconcileAssets(c) ==
    /\ sync[c].pc = "assets"
    /\ asset' = [a \in Asset |->
                    IF asset[a] \notin {"active", "missing"} THEN asset[a]
                    ELSE IF BoundIn(a, {"active"}) THEN "active"
                    ELSE IF BoundIn(a, {"missing"}) THEN "missing" ELSE asset[a]]
    /\ sync' = [sync EXCEPT ![c] = IdleSync]
    /\ UNCHANGED <<library, run, lane, page, proj, binding, retired, quiet, upsets>>

-----------------------------------------------------------------------------
(* Removal, and callers that stop *)

Removable == {p \in Photo : proj[p].state = "missing" /\ binding[p] = "missing"}

EndsWithAny(a, removed) == a \in {AssetOf[p] : p \in removed}
EndsWith(a, removed) ==
    /\ a \in {AssetOf[p] : p \in removed}
    /\ \A p \in Photo \ removed : AssetOf[p] = a => binding[p] \notin {"active", "missing"}

\* The records are read again under their locks; an asset ends with its last binding.
RemoveMissingFiles(removed) ==
    /\ removed # {} /\ removed \subseteq Removable
    /\ binding' = [p \in Photo |-> IF p \in removed THEN "superseded" ELSE binding[p]]
    /\ asset' = [a \in Asset |-> IF EndsWith(a, removed) THEN "tombstoned" ELSE asset[a]]
    /\ retired' = retired \cup removed
    /\ UNCHANGED <<library, run, lane, page, proj, sync, quiet, upsets>>

\* The process ends, or the caller asked for no more pages: the run stays to be resumed.
StopSync(c) ==
    /\ Upset
    /\ sync[c].pc # "idle"
    /\ sync' = [sync EXCEPT ![c] = IdleSync]
    /\ UNCHANGED <<library, run, lane, page, proj, binding, asset, retired, quiet>>

-----------------------------------------------------------------------------

Synchronizes(c) ==
    \/ BeginScoped(c) \/ BeginAfterADay(c) \/ ListAssets(c) \/ ReplayPage(c) \/ RecordPage(c)
    \/ Complete(c) \/ ReconcileBindings(c) \/ ReconcileAssets(c)

InventoryNext ==
    \/ \E p \in Photo : LibraryChanges(p)
    \/ \E c \in Sync : Synchronizes(c) \/ StopSync(c)
    \/ \E removed \in SUBSET Photo : RemoveMissingFiles(removed)

InventorySpec == InventoryInit /\ [][InventoryNext]_inventoryVars

-----------------------------------------------------------------------------
(* Properties *)

InventoryTypeOK ==
    /\ library \in [Photo -> [lane : {Nowhere} \cup Lane, trashed : BOOLEAN]]
    /\ run \in [state : {"none", "processing", "completed"}, catalogue : BOOLEAN]
    /\ \A l \in Lane : lane[l].state \in {"pending", "processing", "completed"}
    /\ proj \in [Photo -> [state : {"absent", "active", "missing"}, lane : {Nowhere} \cup Lane,
                           trashed : BOOLEAN, seen : BOOLEAN]]
    /\ binding \in [Photo -> {"none", "active", "missing", "superseded"}]
    /\ \A c \in Sync : sync[c].lane \in Lane
    /\ asset \in [Asset -> {"none", "active", "missing", "tombstoned"}]
    /\ retired \subseteq Photo

\* When a catalogue run completes and the library has not changed since it began, exactly the
\* known photos outside the active library are missing, whoever recorded its pages: stopped and
\* resumed callers, callers that overlap, and callers whose page was listed too early.
CatalogueTruth ==
    run.state = "completed" /\ run.catalogue /\ quiet =>
        \A p \in Photo : Known(p) => (proj[p].state = "missing" <=> ~InLibrary(p))

\* No catalogue page and no reconciliation brings a removed record back, also none that began before
\* the removal.  Migration 0148 (lines 3-5) promises more: inventory "must never reactivate the
\* retired source binding".  The code breaks that promise: the pages of an ordinary run set every
\* binding they list to active and, unlike the other writers, look for no removal
\* (immich-inventory.mjs:923-940).  Those pages are what the property excludes; revival of any other
\* kind, or of a photo the page does not list, violates it.
RevivedOnlyByListing ==
    [][\A p \in Photo : binding[p] = "superseded" /\ binding'[p] # "superseded" =>
            ~run.catalogue /\ page' # page /\ proj'[p].state = "active"]_inventoryVars

\* An asset ends only with its last record: a tombstoned asset has no photo that is bound.
TombstoneSafe ==
    \A a \in Asset : asset[a] = "tombstoned" => ~BoundIn(a, {"active", "missing"})

\* A catalogue run during which the library stays as it is completes, whoever else works on it and
\* whatever was interrupted, unless an ordinary run replaces it: no page is refused for ever.
CatalogueCompletes ==
    LET runs == run.state = "processing" /\ run.catalogue /\ quiet IN runs ~> ~runs
=============================================================================
