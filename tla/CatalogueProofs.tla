-------------------------- MODULE CatalogueProofs ---------------------------
(***************************************************************************)
(* What is proved of the catalogue: its synchronisation with the library,  *)
(* and the bulk operations on its folders.                                 *)
(***************************************************************************)
EXTENDS ImmichInventory, FolderAlbums, FiniteSetTheorems, TLAPS

-----------------------------------------------------------------------------
(***************************************************************************)
(* What a catalogue run says is true of the library, and what is removed   *)
(* comes back and ends only as it should, for any library, callers and     *)
(* page size.  A new run dismisses the callers of the run before, so that  *)
(* every page recorded in a run whose library stays as it is shows that    *)
(* library; and a lane has seen exactly the photos before its cursor.      *)
(***************************************************************************)

Sequential(s) == \E S : s \in Seq(S)

LaneRow == [state : {"pending", "processing", "completed"}, cursor : Nat \ {0}]
PageRow == [items : SUBSET [photo : Photo, trashed : BOOLEAN], more : BOOLEAN]
Caller == [pc : {"idle", "entering", "paging", "recording", "completing", "bindings", "assets"},
           lane : Lane, cursor : Nat \ {0}, page : PageRow]

\* The callers at work on the latest run are of its kind.
Typed ==
    /\ InventoryTypeOK
    /\ lane \in [Lane -> LaneRow]
    /\ DOMAIN page = Lane /\ \A l \in Lane : Sequential(page[l])
    /\ sync \in [Sync -> Caller]
    /\ \A c \in Sync : sync[c].pc # "idle" => run.catalogue = Catalogue(c)

\* A known photo is bound or was, and only removal supersedes a binding.
Bound ==
    \A p \in Photo : /\ Known(p) => binding[p] # "none"
                     /\ binding[p] = "superseded" => p \in retired

RemovalInv == Typed /\ Bound /\ TombstoneSafe

PositionIn(p) == Position(p, Listing(library[p].lane, TRUE))

\* What a catalogue run has read of a library that stays as it is: callers hold pages of that
\* library, lanes have seen the photos before their cursor, and seen photos show what they are.
Undisturbed == run.state = "processing" /\ run.catalogue /\ quiet

PagesTrue ==
    \A c \in Sync : sync[c].pc = "recording" =>
        sync[c].page = PageAt(sync[c].lane, sync[c].cursor, TRUE)

SeenUpTo(p, row) ==
    IF row.state = "completed" THEN proj[p].seen
    ELSE proj[p].seen <=> PositionIn(p) <= (row.cursor - 1) * PageSize

SeenInOrder ==
    \A p \in Photo : Known(p) /\ library[p].lane # Nowhere => SeenUpTo(p, lane[library[p].lane])

SeenTrue ==
    \A p \in Photo : Known(p) /\ proj[p].seen =>
        /\ library[p].lane # Nowhere
        /\ proj[p].state = "missing" <=> library[p].trashed

TrueSoFar == Undisturbed => PagesTrue /\ SeenInOrder /\ SeenTrue

CatalogueInv == Typed /\ TrueSoFar /\ CatalogueTruth

-------------------------------------------------------------------------------
(* Callers, rows and pages *)

LEMMA Lanes == Lane \subseteq Nat \ {0} /\ 1 \in Lane /\ Nowhere \notin Lane
<1>1. Cardinality(Lane) \in Nat
  BY InventoryAssumption, FS_CardinalityType
<1> QED
  BY <1>1, InventoryAssumption DEF Nowhere

LEMMA Listings ==
    ASSUME NEW l, NEW withTrash \in BOOLEAN
    PROVE  /\ IsFiniteSet(Listing(l, withTrash)) /\ Listing(l, withTrash) \subseteq Photo
           /\ Cardinality(Listing(l, withTrash)) \in Nat
<1> QED
  BY InventoryAssumption, FS_Subset, FS_CardinalityType DEF Listing

LEMMA PageTyped ==
    ASSUME Typed, NEW l \in Lane, NEW k \in Nat \ {0}, NEW c
    PROVE  PageAt(l, k, Catalogue(c)) \in PageRow
<1> DEFINE all == Listing(l, Catalogue(c))
           on == {p \in all : (k - 1) * PageSize < Position(p, all) /\ Position(p, all) <= k * PageSize}
           items == {[photo |-> p, trashed |-> library[p].trashed] : p \in on}
           more == Cardinality(all) > k * PageSize
<1>1. on \subseteq Photo
  BY DEF Listing
<1>2. \A p \in Photo : library[p].trashed \in BOOLEAN
  BY DEF Typed, InventoryTypeOK
<1>3. items \in SUBSET [photo : Photo, trashed : BOOLEAN]
  <2> HIDE DEF on
  <2> QED
    BY <1>1, <1>2
<1>4. more \in BOOLEAN
  OBVIOUS
<1>5. PageAt(l, k, Catalogue(c)) = [items |-> items, more |-> more]
  BY DEF PageAt
<1> HIDE DEF items, more
<1> QED
  BY <1>3, <1>4, <1>5 DEF PageRow

LEMMA IdleTyped == IdleSync \in Caller
<1>1. NoPage \in PageRow
  BY DEF NoPage, PageRow
<1> QED
  BY <1>1, Lanes DEF IdleSync, Caller

LEMMA NextTyped ==
    ASSUME NEW s \in Caller
    PROVE  /\ NextLane(s) \in Caller
           /\ NextLane(s).pc \in {"entering", "completing"}
<1>1. s.lane \in Nat
  BY Lanes DEF Caller
<1> QED
  BY <1>1, IdleTyped DEF NextLane, Caller, IdleSync

LEMMA ReadTyped ==
    ASSUME Typed, NEW s \in Caller, NEW k \in Nat \ {0}, NEW c
    PROVE  /\ ReadPage(s, k, c) \in Caller
           /\ ReadPage(s, k, c).lane = s.lane /\ ReadPage(s, k, c).cursor = k
           /\ ReadPage(s, k, c).page = PageAt(s.lane, k, Catalogue(c))
<1>1. s.lane \in Lane
  BY DEF Caller
<1>2. PICK q \in PageRow : q = PageAt(s.lane, k, Catalogue(c))
  BY <1>1, PageTyped
<1>3. ReadPage(s, k, c) = [s EXCEPT !.pc = "recording", !.cursor = k, !.page = q]
  BY <1>2 DEF ReadPage
<1>4. ReadPage(s, k, c) \in Caller
  BY <1>3 DEF Caller
<1>5. /\ ReadPage(s, k, c).lane = s.lane /\ ReadPage(s, k, c).cursor = k
      /\ ReadPage(s, k, c).page = q
  BY <1>3 DEF Caller
<1> QED
  BY <1>2, <1>4, <1>5

LEMMA ContinueTyped ==
    ASSUME NEW s \in Caller, NEW row \in LaneRow
    PROVE  /\ Continue(s, row) \in Caller
           /\ Continue(s, row).pc \in {"entering", "completing", "paging"}
<1>1. NoPage \in PageRow
  BY DEF NoPage, PageRow
<1>2. [s EXCEPT !.pc = "paging", !.cursor = row.cursor, !.page = NoPage] \in Caller
  BY <1>1 DEF Caller, LaneRow
<1> QED
  BY <1>2, NextTyped DEF Continue, Caller

LEMMA AdvancedTyped ==
    ASSUME NEW s \in Caller
    PROVE  Advanced(s) \in LaneRow
BY DEF Advanced, Caller, LaneRow

-------------------------------------------------------------------------------
(* Types *)

\* What a caller's own step does to the callers.
LEMMA OneCaller ==
    ASSUME Typed, NEW c \in Sync, NEW s \in Caller, sync' = [sync EXCEPT ![c] = s],
           sync[c].pc # "idle", run'.catalogue = run.catalogue
    PROVE  /\ sync' \in [Sync -> Caller]
           /\ \A d \in Sync : sync'[d].pc # "idle" => run'.catalogue = Catalogue(d)
BY DEF Typed, Catalogue

LEMMA InventoryTypedInit == InventoryInit => Typed
<1> SUFFICES ASSUME InventoryInit PROVE Typed
  OBVIOUS
<1>1. InventoryTypeOK
  BY Lanes, InventoryAssumption DEF InventoryInit, InventoryTypeOK, NoProjection, NewLane, IdleSync, Nowhere
<1>2. lane \in [Lane -> LaneRow] /\ DOMAIN page = Lane
  BY DEF InventoryInit, NewLane, LaneRow
<1>3. \A l \in Lane : Sequential(page[l])
  BY DEF InventoryInit, Sequential
<1>4. sync \in [Sync -> Caller] /\ \A c \in Sync : sync[c].pc = "idle"
  BY IdleTyped DEF InventoryInit, IdleSync
<1> QED
  BY <1>1, <1>2, <1>3, <1>4 DEF Typed

LEMMA FreshTyped ==
    ASSUME Typed, NEW c \in Sync, FreshRun(c), UNCHANGED <<library, binding, asset, retired>>
    PROVE  Typed'
<1>1. [IdleSync EXCEPT !.pc = "entering"] \in Caller
  BY IdleTyped DEF Caller
<1>2. /\ sync' \in [Sync -> Caller]
      /\ \A d \in Sync : sync'[d].pc # "idle" => d = c
  BY <1>1, IdleTyped DEF FreshRun, IdleSync
<1>3. run' \in [state : {"none", "processing", "completed"}, catalogue : BOOLEAN]
      /\ run'.catalogue = Catalogue(c)
  BY DEF FreshRun, Catalogue
<1>4. /\ lane' \in [Lane -> LaneRow] /\ DOMAIN page' = Lane
      /\ \A l \in Lane : page'[l] = <<>>
  BY DEF FreshRun, NewLane, LaneRow
<1>5. proj' \in [Photo -> [state : {"absent", "active", "missing"}, lane : {Nowhere} \cup Lane,
                           trashed : BOOLEAN, seen : BOOLEAN]]
  BY DEF FreshRun, Typed, InventoryTypeOK
<1>6. \A l \in Lane : Sequential(page'[l])
  <2>1. <<>> \in Seq({})
    OBVIOUS
  <2> QED
    BY <1>4, <2>1 DEF Sequential
<1>7. InventoryTypeOK'
  BY <1>2, <1>3, <1>4, <1>5 DEF Typed, InventoryTypeOK, LaneRow, Caller
<1> QED
  BY <1>2, <1>3, <1>4, <1>6, <1>7 DEF Typed

LEMMA FailsTyped ==
    ASSUME Typed, NEW c \in Sync, Fails(c), UNCHANGED <<library, retired>>
    PROVE  Typed'
<1>1. /\ sync' \in [Sync -> Caller]
      /\ \A d \in Sync : sync'[d].pc # "idle" => sync'[d] = sync[d]
  BY IdleTyped DEF Fails, Typed, IdleSync
<1>2. InventoryTypeOK'
  BY <1>1 DEF Fails, Typed, InventoryTypeOK, Caller
<1> QED
  BY <1>1, <1>2 DEF Fails, Typed

\* A step of one caller that leaves the lanes, the pages and the projections alone.
LEMMA CallerTyped ==
    ASSUME Typed, NEW c \in Sync, NEW s \in Caller, sync' = [sync EXCEPT ![c] = s],
           sync[c].pc # "idle", UNCHANGED <<library, run, lane, page, proj, retired>>,
           binding' \in [Photo -> {"none", "active", "missing", "superseded"}],
           asset' \in [Asset -> {"none", "active", "missing", "tombstoned"}]
    PROVE  Typed'
<1>1. /\ sync' \in [Sync -> Caller]
      /\ \A d \in Sync : sync'[d].pc # "idle" => run'.catalogue = Catalogue(d)
  BY OneCaller
<1>2. InventoryTypeOK'
  BY <1>1 DEF Typed, InventoryTypeOK, Caller
<1> QED
  BY <1>1, <1>2 DEF Typed

LEMMA RecordTyped ==
    ASSUME Typed, NEW c \in Sync, RecordPage(c)
    PROVE  Typed'
<1> DEFINE s == sync[c]
<1>1. s \in Caller /\ s.lane \in Lane /\ s.page \in PageRow /\ s.pc = "recording"
  BY DEF Typed, RecordPage, Caller
<1>2. CASE ~Recordable(s)
  BY <1>2, FailsTyped DEF RecordPage
<1>3. CASE Recordable(s)
  <2>1. AdvanceLane(c) /\ UNCHANGED <<library, run, retired>>
    BY <1>3 DEF RecordPage, AdvanceLane
  <2>2. Advanced(s) \in LaneRow
    BY <1>1, AdvancedTyped
  <2>3. Continue(s, Advanced(s)) \in Caller
    BY <1>1, <2>2, ContinueTyped
  <2>4. /\ sync' \in [Sync -> Caller]
        /\ \A d \in Sync : sync'[d].pc # "idle" => run'.catalogue = Catalogue(d)
    BY <1>1, <2>1, <2>3, OneCaller DEF AdvanceLane
  <2>5. lane' \in [Lane -> LaneRow]
    BY <1>1, <2>1, <2>2 DEF AdvanceLane, Typed
  <2>6. DOMAIN page' = Lane /\ \A l \in Lane : Sequential(page'[l])
    <3>1. page' = [page EXCEPT ![s.lane] = Append(page[s.lane], s.page)]
      BY <2>1 DEF AdvanceLane
    <3>2. DOMAIN page' = Lane
      BY <3>1 DEF Typed
    <3>3. ASSUME NEW l \in Lane PROVE Sequential(page'[l])
      <4>1. PICK S : page[l] \in Seq(S)
        BY DEF Typed, Sequential
      <4>2. page[l] \in Seq(S \cup {s.page})
        BY <4>1
      <4>3. Append(page[l], s.page) \in Seq(S \cup {s.page})
        BY <4>2
      <4>4. page'[l] \in Seq(S \cup {s.page})
        BY <3>1, <4>2, <4>3 DEF Typed
      <4> QED
        BY <4>4 DEF Sequential
    <3> QED
      BY <3>2, <3>3
  <2>7. /\ proj' \in [Photo -> [state : {"absent", "active", "missing"}, lane : {Nowhere} \cup Lane,
                               trashed : BOOLEAN, seen : BOOLEAN]]
        /\ binding' \in [Photo -> {"none", "active", "missing", "superseded"}]
        /\ asset' \in [Asset -> {"none", "active", "missing", "tombstoned"}]
    <3>1. CASE Catalogue(c)
      <4>1. RefreshPresence(s)
        BY <1>3, <3>1 DEF RecordPage
      <4>2. proj' \in [Photo -> [state : {"absent", "active", "missing"}, lane : {Nowhere} \cup Lane,
                                 trashed : BOOLEAN, seen : BOOLEAN]]
        BY <1>1, <4>1 DEF RefreshPresence, Typed, InventoryTypeOK
      <4>3. \A p \in Listed(s) \cap Photo : Known(p) => proj'[p].state \in {"active", "missing"}
        BY <4>1 DEF RefreshPresence
      <4>4. binding' \in [Photo -> {"none", "active", "missing", "superseded"}]
        BY <4>1, <4>3 DEF RefreshPresence, Typed, InventoryTypeOK
      <4>5. asset' \in [Asset -> {"none", "active", "missing", "tombstoned"}]
        BY <4>1 DEF RefreshPresence, Typed, InventoryTypeOK
      <4> QED
        BY <4>2, <4>4, <4>5
    <3>2. CASE ~Catalogue(c)
      <4>1. AdmitPhotos(s)
        BY <1>3, <3>2 DEF RecordPage
      <4> QED
        BY <1>1, <4>1 DEF AdmitPhotos, Typed, InventoryTypeOK
    <3> QED
      BY <3>1, <3>2
  <2>8. InventoryTypeOK'
    BY <2>1, <2>4, <2>5, <2>7 DEF Typed, InventoryTypeOK, Caller, LaneRow
  <2> QED
    BY <2>4, <2>5, <2>6, <2>8 DEF Typed
<1> QED
  BY <1>2, <1>3

LEMMA CompleteTyped ==
    ASSUME Typed, NEW c \in Sync, Complete(c)
    PROVE  Typed'
<1> DEFINE done == run.state = "processing" /\ \A l \in Lane : lane[l].state = "completed"
<1>1. CASE ~done
  BY <1>1, FailsTyped DEF Complete
<1>2. CASE done
  <2>1. sync' = [sync EXCEPT ![c] = [IdleSync EXCEPT !.pc = "bindings"]] /\ sync[c].pc # "idle"
    BY <1>2 DEF Complete
  <2>2. run' = [run EXCEPT !.state = "completed"] /\ UNCHANGED <<library, lane, page, binding, retired>>
    BY <1>2 DEF Complete
  <2>3. /\ run' \in [state : {"none", "processing", "completed"}, catalogue : BOOLEAN]
        /\ run'.catalogue = run.catalogue
    BY <2>2 DEF Typed, InventoryTypeOK
  <2>4. [IdleSync EXCEPT !.pc = "bindings"] \in Caller
    BY IdleTyped DEF Caller
  <2>5. /\ sync' \in [Sync -> Caller]
        /\ \A d \in Sync : sync'[d].pc # "idle" => run'.catalogue = Catalogue(d)
    BY <2>1, <2>3, <2>4, OneCaller
  <2>6. proj' \in [Photo -> [state : {"absent", "active", "missing"}, lane : {Nowhere} \cup Lane,
                             trashed : BOOLEAN, seen : BOOLEAN]]
    <3> DEFINE Row == [state : {"absent", "active", "missing"}, lane : {Nowhere} \cup Lane,
                       trashed : BOOLEAN, seen : BOOLEAN]
               X == IF run.catalogue THEN Absent ELSE {}
    <3>1. proj' = [p \in Photo |-> IF p \in X /\ proj[p].state # "missing"
                                   THEN [proj[p] EXCEPT !.state = "missing", !.trashed = FALSE]
                                   ELSE proj[p]]
      BY <1>2 DEF Complete
    <3>2. \A row \in Row : [row EXCEPT !.state = "missing", !.trashed = FALSE] \in Row
      OBVIOUS
    <3>3. proj \in [Photo -> Row]
      BY DEF Typed, InventoryTypeOK
    <3> HIDE DEF X, Row
    <3>4. proj' \in [Photo -> Row]
      BY <3>1, <3>2, <3>3
    <3> QED
      BY <3>4 DEF Row
  <2>7. asset' \in [Asset -> {"none", "active", "missing", "tombstoned"}]
    <3>1. PICK X : asset' = [a \in Asset |-> IF a \in X THEN "missing" ELSE asset[a]]
      BY <1>2 DEF Complete
    <3> QED
      BY <3>1 DEF Typed, InventoryTypeOK
  <2>8. InventoryTypeOK'
    BY <2>2, <2>3, <2>5, <2>6, <2>7 DEF Typed, InventoryTypeOK, Caller
  <2> QED
    BY <2>2, <2>5, <2>8 DEF Typed
<1> QED
  BY <1>1, <1>2

LEMMA InventoryTypedNext == Typed /\ [InventoryNext]_inventoryVars => Typed'
<1> SUFFICES ASSUME Typed, [InventoryNext]_inventoryVars PROVE Typed'
  OBVIOUS
<1>1. ASSUME NEW p \in Photo, LibraryChanges(p) PROVE Typed'
  BY <1>1 DEF LibraryChanges, Upset, Typed, InventoryTypeOK
<1>2. ASSUME NEW c \in Sync, BeginScoped(c) PROVE Typed'
  <2>1. CASE Resumable(c) /\ sync' = [sync EXCEPT ![c] = [IdleSync EXCEPT !.pc = "entering"]]
             /\ UNCHANGED <<run, lane, page, proj, quiet>>
    <3>1. [IdleSync EXCEPT !.pc = "entering"] \in Caller
      BY IdleTyped DEF Caller
    <3>2. /\ sync' \in [Sync -> Caller]
          /\ \A d \in Sync : sync'[d].pc # "idle" => run'.catalogue = Catalogue(d)
      BY <2>1, <3>1 DEF Typed, Catalogue, Resumable
    <3>3. InventoryTypeOK'
      BY <1>2, <2>1, <3>2 DEF BeginScoped, Typed, InventoryTypeOK, Caller
    <3> QED
      BY <1>2, <2>1, <3>2, <3>3 DEF BeginScoped, Typed
  <2> QED
    BY <1>2, <2>1, FreshTyped DEF BeginScoped
<1>3. ASSUME NEW c \in Sync, BeginAfterADay(c) PROVE Typed'
  BY <1>3, FreshTyped DEF BeginAfterADay
<1>4. ASSUME NEW c \in Sync, ListAssets(c) PROVE Typed'
  <2> DEFINE s == sync[c]
  <2>1. /\ s \in Caller /\ s.lane \in Lane /\ s.cursor \in Nat \ {0}
        /\ lane[s.lane].cursor \in Nat \ {0}
    BY DEF Typed, Caller, LaneRow
  <2>2. /\ NextLane(s) \in Caller /\ ReadPage(s, s.cursor, c) \in Caller
        /\ ReadPage(s, lane[s.lane].cursor, c) \in Caller
    BY <2>1, NextTyped, ReadTyped
  <2>3. \E t \in Caller : sync' = [sync EXCEPT ![c] = t]
    BY <1>4, <2>2 DEF ListAssets
  <2>4. s.pc # "idle" /\ UNCHANGED <<library, run, lane, page, proj, binding, asset, retired>>
    BY <1>4 DEF ListAssets
  <2> QED
    BY <2>3, <2>4, CallerTyped DEF Typed, InventoryTypeOK
<1>5. ASSUME NEW c \in Sync, ReplayPage(c) PROVE Typed'
  <2> DEFINE s == sync[c]
  <2>1. s \in Caller /\ lane[s.lane] \in LaneRow
    BY DEF Typed, Caller
  <2>2. Continue(s, lane[s.lane]) \in Caller
    BY <2>1, ContinueTyped
  <2>3. CASE Fails(c)
    BY <1>5, <2>3, FailsTyped DEF ReplayPage
  <2>4. CASE sync' = [sync EXCEPT ![c] = Continue(s, lane[s.lane])]
             /\ UNCHANGED <<run, lane, page, proj, binding, asset>>
    <3>1. s.pc # "idle" /\ UNCHANGED <<library, run, lane, page, proj, binding, asset, retired>>
      BY <1>5, <2>4 DEF ReplayPage
    <3> QED
      BY <2>2, <2>4, <3>1, CallerTyped DEF Typed, InventoryTypeOK
  <2> QED
    BY <1>5, <2>3, <2>4 DEF ReplayPage
<1>6. ASSUME NEW c \in Sync, RecordPage(c) PROVE Typed'
  BY <1>6, RecordTyped
<1>7. ASSUME NEW c \in Sync, Complete(c) PROVE Typed'
  BY <1>7, CompleteTyped
<1>8. ASSUME NEW c \in Sync, ReconcileBindings(c) PROVE Typed'
  <2>1. [sync[c] EXCEPT !.pc = "assets"] \in Caller
    BY DEF Typed, Caller
  <2>2. binding' \in [Photo -> {"none", "active", "missing", "superseded"}]
    BY <1>8 DEF ReconcileBindings, Reconciled, Known, Typed, InventoryTypeOK
  <2>3. /\ sync' = [sync EXCEPT ![c] = [sync[c] EXCEPT !.pc = "assets"]] /\ sync[c].pc # "idle"
        /\ UNCHANGED <<library, run, lane, page, proj, asset, retired>>
    BY <1>8 DEF ReconcileBindings
  <2> QED
    BY <2>1, <2>2, <2>3, CallerTyped DEF Typed, InventoryTypeOK
<1>9. ASSUME NEW c \in Sync, ReconcileAssets(c) PROVE Typed'
  <2>1. asset' \in [Asset -> {"none", "active", "missing", "tombstoned"}]
    BY <1>9 DEF ReconcileAssets, Typed, InventoryTypeOK
  <2>2. /\ sync' = [sync EXCEPT ![c] = IdleSync] /\ sync[c].pc # "idle"
        /\ UNCHANGED <<library, run, lane, page, proj, binding, retired>>
    BY <1>9 DEF ReconcileAssets
  <2> QED
    BY <2>1, <2>2, IdleTyped, CallerTyped DEF Typed, InventoryTypeOK
<1>10. ASSUME NEW removed \in SUBSET Photo, RemoveMissingFiles(removed) PROVE Typed'
  <2>1. /\ binding' \in [Photo -> {"none", "active", "missing", "superseded"}]
        /\ asset' \in [Asset -> {"none", "active", "missing", "tombstoned"}]
        /\ retired' \subseteq Photo
    BY <1>10 DEF RemoveMissingFiles, Typed, InventoryTypeOK
  <2>2. InventoryTypeOK'
    BY <1>10, <2>1 DEF RemoveMissingFiles, Typed, InventoryTypeOK
  <2> QED
    BY <1>10, <2>2 DEF RemoveMissingFiles, Typed
<1>11. ASSUME NEW c \in Sync, StopSync(c) PROVE Typed'
  <2>1. sync' = [sync EXCEPT ![c] = IdleSync] /\ sync[c].pc # "idle"
        /\ UNCHANGED <<library, run, lane, page, proj, binding, asset, retired>>
    BY <1>11 DEF StopSync
  <2> QED
    BY <2>1, IdleTyped, CallerTyped DEF Typed, InventoryTypeOK
<1>12. CASE UNCHANGED inventoryVars
  BY <1>12 DEF inventoryVars, Typed, InventoryTypeOK
<1> QED
  BY <1>1, <1>2, <1>3, <1>4, <1>5, <1>6, <1>7, <1>8, <1>9, <1>10, <1>11, <1>12
     DEF InventoryNext, Synchronizes

-------------------------------------------------------------------------------
(* Removal *)

\* A photo whose binding a catalogue page or a reconciliation may set is bound already.
LEMMA KnownBound ==
    ASSUME Typed, Bound, NEW p \in Photo, Known(p), p \notin retired
    PROVE  binding[p] \in {"active", "missing"} /\ proj[p].state \in {"active", "missing"}
<1>1. binding[p] # "none" /\ binding[p] # "superseded"
  BY DEF Bound
<1> QED
  BY <1>1 DEF Typed, InventoryTypeOK, Known

\* Known photos stay known, and a step that is not named here leaves the bindings alone.
LEMMA RefreshKeepsBound ==
    ASSUME Typed, Bound, TombstoneSafe, NEW s \in Caller, RefreshPresence(s), UNCHANGED retired
    PROVE  Bound' /\ TombstoneSafe'
<1> DEFINE refreshed == {p \in Listed(s) : Known(p)} \ retired
<1>1. \A p \in Photo : Known(p)' <=> Known(p)
  BY DEF RefreshPresence, Known, Typed, InventoryTypeOK
<1>2. \A p \in Photo : p \notin refreshed => binding'[p] = binding[p]
  BY DEF RefreshPresence, Typed, InventoryTypeOK
<1>3. \A p \in Photo : p \in refreshed =>
        binding'[p] \in {"active", "missing"} /\ binding[p] \in {"active", "missing"}
  BY KnownBound DEF RefreshPresence
<1>4. Bound'
  BY <1>1, <1>2, <1>3 DEF Bound
<1>5. ASSUME NEW a \in Asset, asset'[a] = "tombstoned" PROVE ~BoundIn(a, {"active", "missing"})'
  <2>1. asset[a] = "tombstoned"
    BY <1>5 DEF RefreshPresence
  <2>2. \A p \in Photo : AssetOf[p] = a => binding[p] \notin {"active", "missing"}
    BY <2>1 DEF TombstoneSafe, BoundIn
  <2> QED
    BY <1>2, <1>3, <2>2 DEF BoundIn
<1> QED
  BY <1>4, <1>5 DEF TombstoneSafe

LEMMA AdmitKeepsBound ==
    ASSUME Typed, Bound, TombstoneSafe, NEW s \in Caller, AdmitPhotos(s), UNCHANGED retired
    PROVE  Bound' /\ TombstoneSafe'
<1>1. \A p \in Photo : IF p \in Listed(s) THEN binding'[p] = "active" ELSE binding'[p] = binding[p]
  BY DEF AdmitPhotos
<1>2. \A p \in Photo : p \notin Listed(s) => (Known(p)' <=> Known(p))
  BY DEF AdmitPhotos, Known
<1>3. Bound'
  BY <1>1, <1>2 DEF Bound
<1>4. ASSUME NEW a \in Asset, asset'[a] = "tombstoned" PROVE ~BoundIn(a, {"active", "missing"})'
  <2>1. asset[a] = "tombstoned" /\ \A p \in Listed(s) : AssetOf[p] # a
    BY <1>4 DEF AdmitPhotos
  <2> QED
    BY <1>1, <2>1 DEF TombstoneSafe, BoundIn
<1> QED
  BY <1>3, <1>4 DEF TombstoneSafe

LEMMA RemovalNext == RemovalInv /\ [InventoryNext]_inventoryVars => RemovalInv'
<1> SUFFICES ASSUME RemovalInv, [InventoryNext]_inventoryVars PROVE Bound' /\ TombstoneSafe'
  BY InventoryTypedNext DEF RemovalInv
<1> USE DEF RemovalInv
\* The steps that keep the bindings and tombstone nothing.
<1>1. ASSUME UNCHANGED <<binding, retired>>, \A p \in Photo : Known(p)' <=> Known(p),
             \A a \in Asset : asset'[a] = "tombstoned" => asset[a] = "tombstoned"
      PROVE  Bound' /\ TombstoneSafe'
  BY <1>1 DEF Bound, TombstoneSafe, BoundIn
<1>2. ASSUME UNCHANGED <<proj, binding, asset, retired>> PROVE Bound' /\ TombstoneSafe'
  BY <1>1, <1>2 DEF Known
<1>3. ASSUME NEW c \in Sync, FreshRun(c), UNCHANGED <<binding, asset, retired>>
      PROVE  Bound' /\ TombstoneSafe'
  <2>1. \A p \in Photo : Known(p)' <=> Known(p)
    BY <1>3 DEF FreshRun, Known, Typed, InventoryTypeOK
  <2> QED
    BY <1>1, <1>3, <2>1
<1>4. ASSUME NEW p \in Photo, LibraryChanges(p) PROVE Bound' /\ TombstoneSafe'
  BY <1>2, <1>4 DEF LibraryChanges
<1>5. ASSUME NEW c \in Sync, BeginScoped(c) PROVE Bound' /\ TombstoneSafe'
  BY <1>2, <1>3, <1>5 DEF BeginScoped
<1>6. ASSUME NEW c \in Sync, BeginAfterADay(c) PROVE Bound' /\ TombstoneSafe'
  BY <1>3, <1>6 DEF BeginAfterADay
<1>7. ASSUME NEW c \in Sync, ListAssets(c) PROVE Bound' /\ TombstoneSafe'
  BY <1>2, <1>7 DEF ListAssets
<1>8. ASSUME NEW c \in Sync, ReplayPage(c) PROVE Bound' /\ TombstoneSafe'
  BY <1>2, <1>8 DEF ReplayPage, Fails
<1>9. ASSUME NEW c \in Sync, RecordPage(c) PROVE Bound' /\ TombstoneSafe'
  <2>1. sync[c] \in Caller
    BY DEF Typed
  <2>2. CASE ~Recordable(sync[c])
    BY <1>2, <1>9, <2>2 DEF RecordPage, Fails
  <2>3. CASE Recordable(sync[c]) /\ Catalogue(c)
    BY <1>9, <2>1, <2>3, RefreshKeepsBound DEF RecordPage
  <2>4. CASE Recordable(sync[c]) /\ ~Catalogue(c)
    BY <1>9, <2>1, <2>4, AdmitKeepsBound DEF RecordPage
  <2> QED
    BY <2>2, <2>3, <2>4
<1>10. ASSUME NEW c \in Sync, Complete(c) PROVE Bound' /\ TombstoneSafe'
  <2> DEFINE done == run.state = "processing" /\ \A l \in Lane : lane[l].state = "completed"
  <2>1. CASE ~done
    BY <1>2, <1>10, <2>1 DEF Complete, Fails
  <2>2. CASE done
    <3>1. \A p \in Photo : proj'[p].state # proj[p].state => Known(p) /\ proj'[p].state = "missing"
      <4> DEFINE X == IF run.catalogue THEN Absent ELSE {}
      <4>1. proj' = [p \in Photo |-> IF p \in X /\ proj[p].state # "missing"
                                     THEN [proj[p] EXCEPT !.state = "missing", !.trashed = FALSE]
                                     ELSE proj[p]]
        BY <1>10, <2>2 DEF Complete
      <4>2. \A p \in X : Known(p)
        BY DEF Absent
      <4> HIDE DEF X
      <4> QED
        BY <4>1, <4>2 DEF Typed, InventoryTypeOK
    <3>2. \A a \in Asset : asset'[a] = "tombstoned" => asset[a] = "tombstoned"
      BY <1>10, <2>2 DEF Complete
    <3>3. UNCHANGED <<binding, retired>>
      BY <1>10, <2>2 DEF Complete
    <3> QED
      BY <1>1, <3>1, <3>2, <3>3 DEF Known
  <2> QED
    BY <2>1, <2>2
<1>11. ASSUME NEW c \in Sync, ReconcileBindings(c) PROVE Bound' /\ TombstoneSafe'
  <2>1. \A p \in Photo : IF Reconciled(p)
                         THEN binding[p] \in {"active", "missing"} /\ binding'[p] \in {"active", "missing"}
                         ELSE binding'[p] = binding[p]
    BY <1>11, KnownBound DEF ReconcileBindings, Reconciled
  <2>2. UNCHANGED <<proj, asset, retired>>
    BY <1>11 DEF ReconcileBindings
  <2>3. Bound'
    BY <2>1, <2>2 DEF Bound, Known
  <2>4. TombstoneSafe'
    BY <2>1, <2>2 DEF TombstoneSafe, BoundIn
  <2> QED
    BY <2>3, <2>4
<1>12. ASSUME NEW c \in Sync, ReconcileAssets(c) PROVE Bound' /\ TombstoneSafe'
  <2>1. \A a \in Asset : asset'[a] = "tombstoned" => asset[a] = "tombstoned"
    BY <1>12 DEF ReconcileAssets
  <2> QED
    BY <1>1, <1>12, <2>1 DEF ReconcileAssets, Known
<1>13. ASSUME NEW removed \in SUBSET Photo, RemoveMissingFiles(removed)
       PROVE  Bound' /\ TombstoneSafe'
  <2>1. \A p \in Photo : IF p \in removed THEN binding'[p] = "superseded"
                                          ELSE binding'[p] = binding[p]
    BY <1>13 DEF RemoveMissingFiles
  <2>2. Bound'
    BY <1>13, <2>1 DEF RemoveMissingFiles, Bound, Known
  <2>3. ASSUME NEW a \in Asset, asset'[a] = "tombstoned" PROVE ~BoundIn(a, {"active", "missing"})'
    <3>1. asset[a] = "tombstoned" \/ EndsWith(a, removed)
      BY <1>13, <2>3 DEF RemoveMissingFiles
    <3> QED
      BY <2>1, <3>1 DEF TombstoneSafe, BoundIn, EndsWith
  <2> QED
    BY <2>2, <2>3 DEF TombstoneSafe
<1>14. ASSUME NEW c \in Sync, StopSync(c) PROVE Bound' /\ TombstoneSafe'
  BY <1>2, <1>14 DEF StopSync
<1>15. CASE UNCHANGED inventoryVars
  BY <1>2, <1>15 DEF inventoryVars
<1> QED
  BY <1>4, <1>5, <1>6, <1>7, <1>8, <1>9, <1>10, <1>11, <1>12, <1>13, <1>14, <1>15
     DEF InventoryNext, Synchronizes

LEMMA RemovalInit == InventoryInit => RemovalInv
<1>1. InventoryInit => Bound /\ TombstoneSafe
  BY DEF InventoryInit, Bound, TombstoneSafe, Known, NoProjection
<1> QED
  BY <1>1, InventoryTypedInit DEF RemovalInv

\* synchronize, the page writes, the reconciliations and removeMissingFiles keep every record well
\* formed, and an asset ends only with its last binding.
THEOREM InventoryRemoval == InventorySpec => []RemovalInv
BY RemovalInit, RemovalNext, PTL DEF InventorySpec

\* TombstoneSafe: an ended asset has no photo that is bound, whatever is reconciled meanwhile.
THEOREM InventoryTombstones == InventorySpec => []TombstoneSafe
<1>1. RemovalInv => TombstoneSafe
  BY DEF RemovalInv
<1> QED
  BY <1>1, InventoryRemoval, PTL

\* The types of the library's mirror.
THEOREM InventoryTyped == InventorySpec => []InventoryTypeOK
<1>1. RemovalInv => InventoryTypeOK
  BY DEF RemovalInv, Typed
<1> QED
  BY <1>1, InventoryRemoval, PTL

Revived(p) == binding[p] = "superseded" /\ binding'[p] # "superseded"

LEMMA RevivedByPage ==
    ASSUME RemovalInv, [InventoryNext]_inventoryVars, NEW p \in Photo, Revived(p)
    PROVE  ~run.catalogue /\ page' # page /\ proj'[p].state = "active"
<1> USE DEF RemovalInv
<1>1. binding' # binding /\ p \in retired
  BY DEF Revived, Bound
<1>2. ~\E c \in Sync : BeginScoped(c) \/ BeginAfterADay(c) \/ ListAssets(c) \/ ReplayPage(c)
                       \/ Complete(c) \/ ReconcileAssets(c) \/ StopSync(c)
  BY <1>1 DEF BeginScoped, BeginAfterADay, ListAssets, ReplayPage, Fails, Complete, ReconcileAssets,
              StopSync
<1>3. ~\E c \in Sync : ReconcileBindings(c)
  <2> SUFFICES ASSUME NEW c \in Sync, ReconcileBindings(c) PROVE FALSE
    OBVIOUS
  <2>1. binding'[p] = binding[p]
    BY <1>1 DEF ReconcileBindings, Reconciled
  <2> QED
    BY <2>1 DEF Revived
<1>4. ~\E removed \in SUBSET Photo : RemoveMissingFiles(removed)
  BY DEF RemoveMissingFiles, Revived
<1>5. ~(UNCHANGED inventoryVars) /\ ~\E q \in Photo : LibraryChanges(q)
  BY <1>1 DEF inventoryVars, LibraryChanges
<1>6. PICK c \in Sync : RecordPage(c)
  BY <1>2, <1>3, <1>4, <1>5 DEF InventoryNext, Synchronizes
<1> DEFINE s == sync[c]
<1>7. Recordable(s) /\ s \in Caller /\ s.pc = "recording"
  BY <1>1, <1>6 DEF RecordPage, Fails, Typed
<1>8. ~Catalogue(c)
  <2> SUFFICES ASSUME Catalogue(c) PROVE FALSE
    OBVIOUS
  <2>1. RefreshPresence(s)
    BY <1>6, <1>7 DEF RecordPage
  <2>2. binding'[p] = binding[p]
    BY <1>1, <2>1 DEF RefreshPresence
  <2> QED
    BY <2>2 DEF Revived
<1>9. ~run.catalogue
  BY <1>7, <1>8 DEF Typed
<1>10. AdmitPhotos(s) /\ AdvanceLane(c)
  BY <1>6, <1>7, <1>8 DEF RecordPage
<1>11. proj'[p].state = "active"
  BY <1>10 DEF AdmitPhotos, Revived
<1>12. page' # page
  <2>1. PICK S : page[s.lane] \in Seq(S)
    BY <1>7 DEF Typed, Sequential, Caller
  <2>2. page[s.lane] \in Seq(S \cup {s.page})
    BY <2>1
  <2>3. Len(Append(page[s.lane], s.page)) = Len(page[s.lane]) + 1 /\ Len(page[s.lane]) \in Nat
    BY <2>2
  <2>4. page'[s.lane] = Append(page[s.lane], s.page)
    BY <1>7, <1>10 DEF AdvanceLane, Typed, Caller
  <2> QED
    BY <2>3, <2>4
<1> QED
  BY <1>9, <1>11, <1>12

\* RevivedOnlyByListing: no catalogue page and no reconciliation brings a removed record back.  The
\* pages of ordinary runs do, against what migration 0148 promises: they are excluded.
THEOREM InventoryRevival == InventorySpec => RevivedOnlyByListing
<1>1. ASSUME RemovalInv, [InventoryNext]_inventoryVars
      PROVE  [\A p \in Photo : binding[p] = "superseded" /\ binding'[p] # "superseded" =>
                ~run.catalogue /\ page' # page /\ proj'[p].state = "active"]_inventoryVars
  BY <1>1, RevivedByPage DEF Revived
<1> QED
  BY <1>1, InventoryRemoval, PTL DEF InventorySpec, RevivedOnlyByListing

-------------------------------------------------------------------------------
(* What a catalogue run says *)

\* A photo of a lane has a place among the photos listed there.
LEMMA Positions ==
    ASSUME NEW p \in Photo, library[p].lane # Nowhere
    PROVE  /\ PositionIn(p) \in Nat /\ PositionIn(p) >= 1
           /\ PositionIn(p) <= Cardinality(Listing(library[p].lane, TRUE))
<1> DEFINE all == Listing(library[p].lane, TRUE)
           upTo == {q \in all : q <= p}
<1>1. p \in upTo /\ upTo \subseteq all
  BY InventoryAssumption DEF Listing
<1>2. IsFiniteSet(all) /\ Cardinality(all) \in Nat
  BY Listings
<1>3. Cardinality(upTo) \in Nat /\ Cardinality(upTo) <= Cardinality(all) /\ IsFiniteSet(upTo)
  BY <1>1, <1>2, FS_Subset, FS_CardinalityType
<1>4. Cardinality(upTo) # 0
  <2>1. upTo # {}
    BY <1>1
  <2> HIDE DEF upTo
  <2> QED
    BY <1>3, <2>1, FS_EmptySet
<1>5. PositionIn(p) = Cardinality(upTo)
  BY DEF PositionIn, Position
<1> HIDE DEF upTo
<1>6. PositionIn(p) \in Nat /\ PositionIn(p) >= 1
  BY <1>3, <1>4, <1>5
<1> QED
  BY <1>3, <1>5, <1>6

\* What the page k of a lane lists, and when it is not the last.
LEMMA PageLists ==
    ASSUME Typed, NEW l \in Lane, NEW k \in Nat \ {0}, NEW s, s.page = PageAt(l, k, TRUE)
    PROVE  /\ \A p \in Photo : p \in Listed(s) <=> /\ library[p].lane = l
                                                   /\ (k - 1) * PageSize < PositionIn(p)
                                                   /\ PositionIn(p) <= k * PageSize
           /\ Listed(s) \subseteq Photo
           /\ \A p \in Listed(s) : p \in InTrash(s) <=> library[p].trashed
           /\ s.page.more <=> Cardinality(Listing(l, TRUE)) > k * PageSize
<1> DEFINE all == Listing(l, TRUE)
           on == {p \in all : (k - 1) * PageSize < Position(p, all) /\ Position(p, all) <= k * PageSize}
           items == {[photo |-> p, trashed |-> library[p].trashed] : p \in on}
           more == Cardinality(all) > k * PageSize
<1>1. s.page.items = items /\ s.page.more = more
  BY DEF PageAt
<1>2. \A p : p \in on <=> p \in all /\ (k - 1) * PageSize < Position(p, all) /\ Position(p, all) <= k * PageSize
  OBVIOUS
<1>3. on \subseteq Photo /\ \A p \in Photo : p \in all <=> library[p].lane = l
  BY DEF Listing
<1>4. \A i \in items : i.photo \in on /\ i.trashed = library[i.photo].trashed
  <2> HIDE DEF on
  <2> QED
    OBVIOUS
<1>5. \A p \in on : \E i \in items : i.photo = p
  <2> HIDE DEF on
  <2>1. \A p \in on : [photo |-> p, trashed |-> library[p].trashed] \in items
    OBVIOUS
  <2> HIDE DEF items
  <2> QED
    BY <2>1
<1>6. Listed(s) = on /\ \A p \in on : p \in InTrash(s) <=> library[p].trashed
  <2> HIDE DEF on, items
  <2>1. Listed(s) = {i.photo : i \in items}
    BY <1>1 DEF Listed
  <2>2. Listed(s) = on
    BY <1>4, <1>5, <2>1
  <2>3. \A p : p \in InTrash(s) <=> \E i \in items : i.trashed /\ i.photo = p
    BY <1>1 DEF InTrash
  <2>4. ASSUME NEW p \in on PROVE p \in InTrash(s) <=> library[p].trashed
    <3>1. \A i \in items : i.photo = p => (i.trashed <=> library[p].trashed)
      BY <1>4
    <3> QED
      BY <1>5, <2>3, <3>1
  <2> QED
    BY <2>2, <2>4
<1>7. \A p \in Photo : library[p].lane = l => PositionIn(p) = Position(p, all)
  BY DEF PositionIn
<1>8. s.page.more <=> Cardinality(Listing(l, TRUE)) > k * PageSize
  BY <1>1
<1> HIDE DEF all, on, items, more
<1> QED
  BY <1>2, <1>3, <1>6, <1>7, <1>8

LEMMA Pages ==
    ASSUME NEW k \in Nat \ {0}
    PROVE  /\ (k - 1) * PageSize \in Int /\ k * PageSize \in Int
           /\ (k - 1) * PageSize <= k * PageSize /\ (k + 1) - 1 = k
           /\ (1 - 1) * PageSize = 0
<1>1. PageSize \in Nat
  BY InventoryAssumption
<1>2. (k - 1) * PageSize = k * PageSize - PageSize
  BY <1>1
<1> QED
  BY <1>1, <1>2

LEMMA FreshTrue ==
    ASSUME Typed, NEW c \in Sync, FreshRun(c), UNCHANGED library
    PROVE  TrueSoFar' /\ CatalogueTruth'
<1>1. run'.state = "processing"
  BY DEF FreshRun
<1>2. PagesTrue'
  BY DEF FreshRun, PagesTrue, IdleSync
<1>3. \A p \in Photo : ~proj'[p].seen
  BY DEF FreshRun, Typed, InventoryTypeOK
<1>4. SeenInOrder'
  <2> SUFFICES ASSUME NEW p \in Photo, library[p].lane # Nowhere
               PROVE  SeenUpTo(p, lane[library[p].lane])'
    BY DEF SeenInOrder
  <2>1. library[p].lane \in Lane
    BY DEF Typed, InventoryTypeOK
  <2>2. lane'[library[p].lane].state = "pending" /\ lane'[library[p].lane].cursor = 1
    BY <2>1 DEF FreshRun, NewLane
  <2>3. PositionIn(p)' = PositionIn(p)
    BY DEF PositionIn, Listing, Position
  <2>4. PositionIn(p) \in Nat /\ PositionIn(p) >= 1
    BY Positions
  <2>5. (1 - 1) * PageSize = 0
    BY Pages, 1 \in Nat \ {0}
  <2>6. ~(PositionIn(p) <= (1 - 1) * PageSize)
    BY <2>4, <2>5
  <2> QED
    BY <1>3, <2>2, <2>3, <2>6 DEF SeenUpTo
<1>5. SeenTrue'
  BY <1>3 DEF SeenTrue
<1> QED
  BY <1>1, <1>2, <1>4, <1>5 DEF TrueSoFar, CatalogueTruth

\* A step that leaves the library, the run, its lanes and the projections alone.
LEMMA ReadingTrue ==
    ASSUME Typed, TrueSoFar, CatalogueTruth, UNCHANGED <<library, run, lane, proj, quiet>>,
           Undisturbed => PagesTrue'
    PROVE  TrueSoFar' /\ CatalogueTruth'
<1>1. Undisturbed' <=> Undisturbed
  BY DEF Undisturbed
<1>2. SeenInOrder => SeenInOrder'
  BY DEF SeenInOrder, SeenUpTo, PositionIn, Listing, Position, Known
<1>3. SeenTrue => SeenTrue'
  BY DEF SeenTrue, Known
<1>4. CatalogueTruth'
  BY DEF CatalogueTruth, Known, InLibrary
<1> QED
  BY <1>1, <1>2, <1>3, <1>4 DEF TrueSoFar

\* As ReadingTrue, when the callers that hold a page held it before.
LEMMA StandingTrue ==
    ASSUME Typed, TrueSoFar, CatalogueTruth, UNCHANGED <<library, run, lane, proj, quiet>>,
           \A d \in Sync : sync'[d].pc = "recording" => sync'[d] = sync[d]
    PROVE  TrueSoFar' /\ CatalogueTruth'
<1>1. \A l, k : PageAt(l, k, TRUE)' = PageAt(l, k, TRUE)
  BY DEF PageAt, Listing, Position
<1>2. PagesTrue => PagesTrue'
  BY <1>1 DEF PagesTrue
<1> QED
  BY <1>2, ReadingTrue DEF TrueSoFar

LEMMA FailsTrue ==
    ASSUME Typed, TrueSoFar, CatalogueTruth, NEW c \in Sync, Fails(c), UNCHANGED <<library, quiet>>
    PROVE  TrueSoFar' /\ CatalogueTruth'
<1>1. \A d \in Sync : sync'[d].pc = "recording" => sync'[d] = sync[d]
  BY DEF Fails, Typed, IdleSync
<1> QED
  BY <1>1, StandingTrue DEF Fails

LEMMA ListTrue ==
    ASSUME Typed, TrueSoFar, CatalogueTruth, NEW c \in Sync, ListAssets(c)
    PROVE  TrueSoFar' /\ CatalogueTruth'
<1> DEFINE s == sync[c]
<1>1. /\ s \in Caller /\ s.lane \in Lane /\ s.cursor \in Nat \ {0}
      /\ lane[s.lane].cursor \in Nat \ {0}
  BY DEF Typed, Caller, LaneRow
<1>2. UNCHANGED <<library, run, lane, proj, quiet>>
  BY DEF ListAssets
<1>3. ASSUME Undisturbed PROVE PagesTrue'
  <2> SUFFICES ASSUME NEW d \in Sync, sync'[d].pc = "recording"
               PROVE  sync'[d].page = PageAt(sync'[d].lane, sync'[d].cursor, TRUE)
    <3>1. \A l, k : PageAt(l, k, TRUE)' = PageAt(l, k, TRUE)
      BY <1>2 DEF PageAt, Listing, Position
    <3> QED
      BY <3>1 DEF PagesTrue
  <2>1. CASE d # c
    BY <1>3, <2>1 DEF ListAssets, Typed, TrueSoFar, PagesTrue
  <2>2. CASE d = c
    <3>1. Catalogue(c)
      <4>1. s.pc # "idle" /\ run.catalogue
        BY <1>3 DEF ListAssets, Undisturbed
      <4> QED
        BY <4>1 DEF Typed, Catalogue
    <3>2. NextLane(s).pc # "recording"
      BY <1>1, NextTyped
    <3>3. PICK k \in Nat \ {0} : sync'[c] = ReadPage(s, k, c)
      BY <1>1, <2>2, <3>2 DEF ListAssets, Typed
    <3>4. /\ sync'[c].lane = s.lane /\ sync'[c].cursor = k
          /\ sync'[c].page = PageAt(s.lane, k, Catalogue(c))
      BY <1>1, <3>3, ReadTyped
    <3>5. PageAt(s.lane, k, Catalogue(c)) = PageAt(s.lane, k, TRUE)
      BY <3>1 DEF PageAt, Listing
    <3> QED
      BY <2>2, <3>4, <3>5
  <2> QED
    BY <2>1, <2>2
<1> QED
  BY <1>2, <1>3, ReadingTrue

LEMMA RecordTrue ==
    ASSUME Typed, TrueSoFar, CatalogueTruth, NEW c \in Sync, RecordPage(c)
    PROVE  TrueSoFar' /\ CatalogueTruth'
<1> DEFINE s == sync[c]
           l == s.lane
           k == s.cursor
<1>1. /\ s \in Caller /\ l \in Lane /\ k \in Nat \ {0} /\ s.page \in PageRow /\ s.pc = "recording"
  BY DEF Typed, RecordPage, Caller
<1>2. CASE ~Recordable(s)
  BY <1>2, FailsTrue DEF RecordPage
<1>3. CASE Recordable(s)
  <2>1. AdvanceLane(c) /\ UNCHANGED <<library, run, quiet>> /\ run.state = "processing"
    BY <1>3 DEF RecordPage, AdvanceLane, Recordable
  <2>2. CatalogueTruth'
    BY <2>1 DEF CatalogueTruth
  <2> SUFFICES ASSUME Undisturbed PROVE PagesTrue' /\ SeenInOrder' /\ SeenTrue'
    BY <2>1, <2>2 DEF TrueSoFar, Undisturbed
  <2>3. RefreshPresence(s)
    <3>1. Catalogue(c)
      BY <1>1 DEF Typed, Undisturbed
    <3> QED
      BY <1>3, <3>1 DEF RecordPage
  <2>4. s.page = PageAt(l, k, TRUE) /\ PagesTrue /\ SeenInOrder /\ SeenTrue
    BY <1>1 DEF TrueSoFar, PagesTrue
  <2>5. PagesTrue'
    <3>1. Continue(s, Advanced(s)).pc # "recording"
      BY <1>1, AdvancedTyped, ContinueTyped
    <3>2. \A d \in Sync : sync'[d].pc = "recording" => sync'[d] = sync[d]
      BY <2>1, <3>1 DEF AdvanceLane, Typed
    <3>3. \A m, n : PageAt(m, n, TRUE)' = PageAt(m, n, TRUE)
      BY <2>1 DEF PageAt, Listing, Position
    <3> QED
      BY <2>4, <3>2, <3>3 DEF PagesTrue
  <2>6. /\ \A p \in Photo : p \in Listed(s) <=> /\ library[p].lane = l
                                                /\ (k - 1) * PageSize < PositionIn(p)
                                                /\ PositionIn(p) <= k * PageSize
        /\ Listed(s) \subseteq Photo
        /\ \A p \in Listed(s) : p \in InTrash(s) <=> library[p].trashed
        /\ s.page.more <=> Cardinality(Listing(l, TRUE)) > k * PageSize
    BY <1>1, <2>4, PageLists
  <2> DEFINE observed == {p \in Listed(s) : Known(p)}
  <2>7. \A p \in Photo :
            IF p \in observed
            THEN proj'[p].seen /\ (proj'[p].state = "missing" <=> library[p].trashed)
            ELSE proj'[p] = proj[p]
    BY <2>3, <2>6 DEF RefreshPresence
  <2>8. \A p \in Photo : Known(p)' <=> Known(p)
    BY <2>3 DEF RefreshPresence, Known, Typed, InventoryTypeOK
  <2>9. SeenTrue'
    <3>1. \A p \in observed : library[p].lane # Nowhere
      BY <1>1, <2>6, Lanes
    <3> QED
      BY <2>1, <2>4, <2>7, <2>8, <3>1 DEF SeenTrue
  <2>10. SeenInOrder'
    <3> SUFFICES ASSUME NEW p \in Photo, Known(p), library[p].lane # Nowhere
                 PROVE  SeenUpTo(p, lane[library[p].lane])'
      BY <2>1, <2>8 DEF SeenInOrder
    <3>1. PositionIn(p)' = PositionIn(p) /\ library'[p].lane = library[p].lane
      BY <2>1 DEF PositionIn, Listing, Position
    <3>2. SeenUpTo(p, lane[library[p].lane])
      BY <2>4 DEF SeenInOrder
    <3>3. CASE library[p].lane # l
      <4>1. proj'[p] = proj[p]
        BY <2>6, <2>7, <3>3
      <4>2. lane'[library[p].lane] = lane[library[p].lane]
        BY <2>1, <3>3 DEF AdvanceLane, Typed, InventoryTypeOK
      <4> QED
        BY <3>1, <3>2, <4>1, <4>2 DEF SeenUpTo
    <3>4. CASE library[p].lane = l
      <4> DEFINE at == PositionIn(p)
                 last == Cardinality(Listing(l, TRUE))
                 low == (k - 1) * PageSize
                 high == k * PageSize
                 before == at <= low
                 within == at <= high
      <4>1. lane[l].state # "completed" /\ lane[l].cursor = k /\ lane'[l] = Advanced(s)
        BY <1>1, <1>3, <2>1 DEF Recordable, AdvanceLane, Typed
      <4>2. proj[p].seen <=> before
        BY <3>2, <3>4, <4>1 DEF SeenUpTo
      <4>3. low \in Int /\ high \in Int /\ low <= high /\ (k + 1) - 1 = k
        BY <1>1, Pages
      <4>4. at \in Int /\ last \in Int /\ at <= last
        <5>1. at \in Nat /\ at <= last
          BY <3>4, Positions
        <5>2. last \in Nat
          BY Listings
        <5> HIDE DEF at, last
        <5> QED
          BY <5>1, <5>2
      <4>5. p \in Listed(s) <=> low < at /\ at <= high
        BY <2>6, <3>4
      <4>6. s.page.more <=> last > high
        BY <2>6
      <4>7. p \in observed <=> (~before /\ within)
        <5> HIDE DEF at, low, high
        <5> QED
          BY <4>3, <4>4, <4>5
      <4>8. before => within
        <5> HIDE DEF at, low, high
        <5> QED
          BY <4>3, <4>4
      <4>9. proj'[p].seen <=> within
        BY <2>7, <4>2, <4>7, <4>8
      <4>10. CASE s.page.more
        <5>1. Advanced(s).state # "completed" /\ Advanced(s).cursor = k + 1
          BY <4>10 DEF Advanced
        <5>2. PositionIn(p) <= ((k + 1) - 1) * PageSize <=> within
          BY <4>3
        <5> QED
          BY <3>1, <3>4, <4>1, <4>9, <5>1, <5>2 DEF SeenUpTo
      <4>11. CASE ~s.page.more
        <5>1. within
          <6> HIDE DEF at, last, high
          <6> QED
            BY <4>3, <4>11, <4>4, <4>6
        <5>2. Advanced(s).state = "completed"
          BY <4>11 DEF Advanced
        <5> QED
          BY <3>1, <3>4, <4>1, <4>9, <5>1, <5>2 DEF SeenUpTo
      <4> QED
        BY <4>10, <4>11
    <3> QED
      BY <3>3, <3>4
  <2> QED
    BY <2>5, <2>9, <2>10
<1> QED
  BY <1>2, <1>3

LEMMA CompleteTrue ==
    ASSUME Typed, TrueSoFar, CatalogueTruth, NEW c \in Sync, Complete(c)
    PROVE  TrueSoFar' /\ CatalogueTruth'
<1> DEFINE done == run.state = "processing" /\ \A l \in Lane : lane[l].state = "completed"
<1>1. CASE ~done
  BY <1>1, FailsTrue DEF Complete
<1>2. CASE done
  <2>1. /\ run'.state = "completed" /\ run'.catalogue = run.catalogue
        /\ UNCHANGED <<library, quiet>>
    BY <1>2 DEF Complete, Typed, InventoryTypeOK
  <2>2. TrueSoFar'
    BY <2>1 DEF TrueSoFar, Undisturbed
  <2> SUFFICES ASSUME run.catalogue, quiet, NEW p \in Photo, Known(p)'
               PROVE  proj'[p].state = "missing" <=> ~InLibrary(p)
    BY <2>1, <2>2 DEF CatalogueTruth, InLibrary
  <2>3. SeenInOrder /\ SeenTrue
    BY <1>2 DEF TrueSoFar, Undisturbed
  <2>4. proj' = [q \in Photo |-> IF q \in Absent /\ proj[q].state # "missing"
                                 THEN [proj[q] EXCEPT !.state = "missing", !.trashed = FALSE]
                                 ELSE proj[q]]
    BY <1>2 DEF Complete
  <2>5. Known(p)
    BY <2>4 DEF Known, Absent
  <2>6. CASE proj[p].seen
    <3>1. proj'[p] = proj[p]
      BY <2>4, <2>6 DEF Absent
    <3>2. library[p].lane # Nowhere /\ (proj[p].state = "missing" <=> library[p].trashed)
      BY <2>3, <2>5, <2>6 DEF SeenTrue
    <3> QED
      BY <3>1, <3>2 DEF InLibrary
  <2>7. CASE ~proj[p].seen
    <3>1. library[p].lane = Nowhere
      <4> SUFFICES ASSUME library[p].lane # Nowhere PROVE FALSE
        OBVIOUS
      <4>1. library[p].lane \in Lane
        BY DEF Typed, InventoryTypeOK
      <4> QED
        BY <1>2, <2>3, <2>5, <2>7, <4>1 DEF SeenInOrder, SeenUpTo
    <3>2. p \in Absent
      BY <2>5, <2>7 DEF Absent
    <3>3. proj'[p].state = "missing"
      BY <2>4, <3>2 DEF Typed, InventoryTypeOK
    <3> QED
      BY <3>1, <3>3 DEF InLibrary
  <2> QED
    BY <2>6, <2>7
<1> QED
  BY <1>1, <1>2

LEMMA CatalogueNext == CatalogueInv /\ [InventoryNext]_inventoryVars => CatalogueInv'
<1> SUFFICES ASSUME CatalogueInv, [InventoryNext]_inventoryVars PROVE TrueSoFar' /\ CatalogueTruth'
  BY InventoryTypedNext DEF CatalogueInv
<1> USE DEF CatalogueInv
<1>1. ASSUME NEW p \in Photo, LibraryChanges(p) PROVE TrueSoFar' /\ CatalogueTruth'
  BY <1>1 DEF LibraryChanges, TrueSoFar, Undisturbed, CatalogueTruth
<1>2. ASSUME NEW c \in Sync, BeginScoped(c) PROVE TrueSoFar' /\ CatalogueTruth'
  <2>1. CASE FreshRun(c)
    BY <1>2, <2>1, FreshTrue DEF BeginScoped
  <2>2. CASE ~FreshRun(c)
    <3>1. \A d \in Sync : sync'[d].pc = "recording" => sync'[d] = sync[d]
      BY <1>2, <2>2 DEF BeginScoped, Typed, IdleSync
    <3> QED
      BY <1>2, <2>2, <3>1, StandingTrue DEF BeginScoped
  <2> QED
    BY <2>1, <2>2
<1>3. ASSUME NEW c \in Sync, BeginAfterADay(c) PROVE TrueSoFar' /\ CatalogueTruth'
  BY <1>3, FreshTrue DEF BeginAfterADay
<1>4. ASSUME NEW c \in Sync, ListAssets(c) PROVE TrueSoFar' /\ CatalogueTruth'
  BY <1>4, ListTrue
<1>5. ASSUME NEW c \in Sync, ReplayPage(c) PROVE TrueSoFar' /\ CatalogueTruth'
  <2>1. CASE Fails(c)
    BY <1>5, <2>1, FailsTrue DEF ReplayPage
  <2>2. CASE ~Fails(c)
    <3> DEFINE t == Continue(sync[c], lane[sync[c].lane])
    <3>1. t.pc # "recording"
      <4>1. sync[c] \in Caller /\ lane[sync[c].lane] \in LaneRow
        BY DEF Typed, Caller
      <4> QED
        BY <4>1, ContinueTyped
    <3>2. sync' = [sync EXCEPT ![c] = t] /\ UNCHANGED <<library, run, lane, proj, quiet>>
      BY <1>5, <2>2 DEF ReplayPage
    <3>3. \A d \in Sync : sync'[d].pc = "recording" => sync'[d] = sync[d]
      BY <3>1, <3>2 DEF Typed
    <3> QED
      BY <3>2, <3>3, StandingTrue
  <2> QED
    BY <2>1, <2>2
<1>6. ASSUME NEW c \in Sync, RecordPage(c) PROVE TrueSoFar' /\ CatalogueTruth'
  BY <1>6, RecordTrue
<1>7. ASSUME NEW c \in Sync, Complete(c) PROVE TrueSoFar' /\ CatalogueTruth'
  BY <1>7, CompleteTrue
<1>8. ASSUME NEW c \in Sync, ReconcileBindings(c) PROVE TrueSoFar' /\ CatalogueTruth'
  <2>1. \A d \in Sync : sync'[d].pc = "recording" => sync'[d] = sync[d]
    BY <1>8 DEF ReconcileBindings, Typed, Caller
  <2> QED
    BY <1>8, <2>1, StandingTrue DEF ReconcileBindings
<1>9. ASSUME NEW c \in Sync, ReconcileAssets(c) \/ StopSync(c) PROVE TrueSoFar' /\ CatalogueTruth'
  <2>1. \A d \in Sync : sync'[d].pc = "recording" => sync'[d] = sync[d]
    BY <1>9 DEF ReconcileAssets, StopSync, Typed, IdleSync
  <2> QED
    BY <1>9, <2>1, StandingTrue DEF ReconcileAssets, StopSync
<1>10. ASSUME NEW removed \in SUBSET Photo, RemoveMissingFiles(removed)
       PROVE  TrueSoFar' /\ CatalogueTruth'
  BY <1>10, StandingTrue DEF RemoveMissingFiles
<1>11. CASE UNCHANGED inventoryVars
  BY <1>11, StandingTrue DEF inventoryVars
<1> QED
  BY <1>1, <1>2, <1>3, <1>4, <1>5, <1>6, <1>7, <1>8, <1>9, <1>10, <1>11
     DEF InventoryNext, Synchronizes

LEMMA CatalogueInit == InventoryInit => CatalogueInv
<1>1. InventoryInit => TrueSoFar /\ CatalogueTruth
  BY DEF InventoryInit, TrueSoFar, Undisturbed, CatalogueTruth
<1> QED
  BY <1>1, InventoryTypedInit DEF CatalogueInv

\* CatalogueTruth: a completed catalogue run marks exactly the photos outside the library, for any
\* library and page size, however its callers stopped, resumed and overlapped.
THEOREM InventoryCatalogue == InventorySpec => []CatalogueTruth
<1>1. CatalogueInv => CatalogueTruth
  BY DEF CatalogueInv
<1> QED
  BY <1>1, CatalogueInit, CatalogueNext, PTL DEF InventorySpec

-----------------------------------------------------------------------------
(***************************************************************************)
(* What undoing a folder operation takes back, for any items, batches,     *)
(* pages and sessions: all it had attached that is still current, and      *)
(* nothing else.  Transactions commit in another order than they began in; *)
(* the argument is that an event beaten by a later one stays beaten, and   *)
(* that an attachment which is current never follows another attachment.   *)
(***************************************************************************)

Event == [at : Nat \ {0}, action : {"attach", "detach"}]
Change == [at : Nat, action : {"attach", "detach"}, items : SUBSET Item, undoes : Nat]
SavedBatch == [decision : Nat \ {0}, items : SUBSET Item, state : {"applied", "undone"}]
Operation == [state : {"none", "applying", "applied", "partial", "undoing", "undone", "kept"},
              checkpoints : Seq(SavedBatch)]
PageView == [pc : {"closed", "open", "batch", "attaching", "checkpointing", "undoing", "detaching",
                   "undone"},
             batch : Nat \ {0}, decision : Nat, changed : SUBSET Item, saved : Operation,
             left : SUBSET Nat]

Opened(s) == change[s] # NoChange
Has(i, d) == \E e \in events[i] : e.at = d
Beaten(i, d) == \E e \in events[i] : e.at > d

Top(E, e) == e \in E /\ \A x \in E : x.at <= e.at
Distinct(E) == \A x, y \in E : x.at = y.at => x = y
AttachedBefore(E, d) ==
    \E e \in E : e.at < d /\ e.action = "attach" /\ \A x \in E : x.at < d => x.at <= e.at

\* Of the events of an item: they are distinct, have a latest one, and an attachment that is the
\* latest follows no other.
Ordered(E) ==
    /\ Distinct(E)
    /\ E # {} => \E e : Top(E, e)
    /\ \A l : Top(E, l) /\ l.action = "attach" => ~AttachedBefore(E, l.at)

\* Memberships: decisions are distinct, and undoing is later than what it undoes.
MembershipInv ==
    /\ begun \in Nat /\ begun <= MaxBegins
    /\ events \in [Item -> SUBSET Event] /\ change \in [Page \cup Hand -> Change]
    /\ \A i \in Item : \A e \in events[i] : e.at <= begun
    /\ \A s \in Page \cup Hand : Opened(s) =>
            /\ change[s].at \in 1..begun
            /\ change[s].undoes # Nothing => change[s].undoes < change[s].at
                                             /\ change[s].action = "detach"
            /\ \A t \in Page \cup Hand : t # s => change[t].at # change[s].at
            /\ \A i \in Item : \A e \in events[i] : e.at # change[s].at
    /\ \A i \in Item : Ordered(events[i])

\* What a page saved is what it attached; what it loaded is the operation's, but for its state.
Loaded(v) ==
    /\ DOMAIN v.saved.checkpoints \subseteq DOMAIN operation.checkpoints
    /\ \A k \in DOMAIN v.saved.checkpoints :
            /\ v.saved.checkpoints[k].decision = operation.checkpoints[k].decision
            /\ v.saved.checkpoints[k].items = operation.checkpoints[k].items
    /\ v.left \subseteq DOMAIN v.saved.checkpoints

\* The checkpoint a page is undoing.
Target(v) == v.saved.checkpoints[LastLeft(v)]

AtWork(g) ==
    LET v == view[g] IN
    /\ Loaded(v)
    /\ v.pc \notin {"attaching", "detaching"} => ~Opened(g)
    /\ v.pc = "open" => v.left = {}
    /\ v.pc = "attaching" => Opened(g) /\ change[g].undoes = Nothing
    /\ v.pc = "checkpointing" => v.decision \in 1..begun /\ \A i \in v.changed : Has(i, v.decision)
    /\ v.pc \in {"detaching", "undone"} => v.left # {}
    /\ v.pc = "detaching" => /\ Opened(g) /\ change[g].undoes = Target(v).decision
                             /\ change[g].items = Target(v).items
    /\ v.pc = "undone" => \A i \in Target(v).items : Beaten(i, Target(v).decision)

SavedInv ==
    /\ operation \in Operation /\ view \in [Page -> PageView]
    /\ \A k \in DOMAIN operation.checkpoints :
            LET saved == operation.checkpoints[k] IN
            /\ saved.decision <= begun /\ \A i \in saved.items : Has(i, saved.decision)
            /\ saved.state = "undone" => \A i \in saved.items : Beaten(i, saved.decision)
    /\ \A g \in Page : AtWork(g)

FolderInv == MembershipInv /\ SavedInv

-------------------------------------------------------------------------------
(* The latest of the events, and the last of the checkpoints *)

\* A nonempty finite set of numbers has a greatest one: otherwise each of its n members has
\* between 1 and n - 1 members above it, and two of them equally many.
LEMMA Greatest ==
    ASSUME NEW S, S \subseteq Nat, IsFiniteSet(S), S # {}
    PROVE  \E m \in S : \A x \in S : x <= m
<1> DEFINE Above(x) == {y \in S : y > x}
           n == Cardinality(S)
           T == 1..(n - 1)
           f == [x \in S |-> Cardinality(Above(x))]
<1> SUFFICES ASSUME \A m \in S : \E x \in S : ~(x <= m) PROVE FALSE
  OBVIOUS
<1>1. n \in Nat /\ n # 0
  BY FS_CardinalityType, FS_EmptySet
<1>2. ASSUME NEW x \in S
      PROVE  /\ IsFiniteSet(Above(x)) /\ Cardinality(Above(x)) \in Nat
             /\ Cardinality(Above(x)) \in T
  <2>1. Above(x) \subseteq S /\ Above(x) # S /\ Above(x) # {}
    BY DEF Above
  <2>2. /\ IsFiniteSet(Above(x)) /\ Cardinality(Above(x)) \in Nat
        /\ Cardinality(Above(x)) <= n /\ Cardinality(Above(x)) # n
    BY <2>1, FS_Subset, FS_CardinalityType
  <2>3. Cardinality(Above(x)) # 0
    BY <2>1, <2>2, FS_EmptySet
  <2> HIDE DEF Above, n
  <2> QED
    BY <1>1, <2>2, <2>3
<1>3. f \in [S -> T]
  BY <1>2
<1>4. IsFiniteSet(T) /\ Cardinality(T) < n
  <2>1. IsFiniteSet(T) /\ Cardinality(T) = IF 1 > n - 1 THEN 0 ELSE (n - 1) - 1 + 1
    BY <1>1, FS_Interval
  <2> HIDE DEF n
  <2> QED
    BY <1>1, <2>1
<1>5. \E x, y \in S : x # y /\ f[x] = f[y]
  <2> HIDE DEF f, T
  <2> QED
    BY <1>3, <1>4, FS_PigeonHole
<1>6. PICK x \in S, y \in S : x # y /\ f[x] = f[y]
  BY <1>5
<1>7. ASSUME NEW u \in S, NEW w \in S, u < w PROVE f[u] # f[w]
  <2>1. u \in Nat /\ w \in Nat /\ \A z \in S : z \in Nat
    OBVIOUS
  <2>2. w \in Above(u) /\ w \notin Above(w)
    BY <1>7, <2>1
  <2>3. Above(w) \subseteq Above(u)
    <3>1. \A z \in S : z > w => z > u
      <4> HIDE DEF Above, n, T, f
      <4> QED
        BY <1>7, <2>1
    <3> QED
      BY <3>1
  <2>4. IsFiniteSet(Above(u))
    BY <1>2
  <2> HIDE DEF Above
  <2>5. Cardinality(Above(w)) = Cardinality(Above(u)) => Above(w) = Above(u)
    BY <2>3, <2>4, FS_Subset
  <2> QED
    BY <2>2, <2>5
<1>8. x < y \/ y < x
  BY <1>6
<1> QED
  BY <1>6, <1>7, <1>8

\* The last checkpoint left to a page is one of them.
LEMMA LastLeftIs ==
    ASSUME SavedInv, NEW g \in Page, view[g].left # {}
    PROVE  LastLeft(view[g]) \in view[g].left
<1> DEFINE S == view[g].left
           n == Len(view[g].saved.checkpoints)
<1>1. n \in Nat /\ S \subseteq 1..n
  BY DEF SavedInv, AtWork, Loaded, PageView, Operation
<1>2. IsFiniteSet(1..n)
  BY <1>1, FS_Interval
<1>3. IsFiniteSet(S) /\ S \subseteq Nat
  BY <1>1, <1>2, FS_Subset
<1>4. \E m \in S : \A x \in S : x <= m
  BY <1>3, Greatest
<1> QED
  BY <1>4 DEF LastLeft

LEMMA TopIsLatest ==
    ASSUME NEW E, NEW e, E \subseteq Event, Distinct(E), Top(E, e)
    PROVE  (CHOOSE x \in E : \A y \in E : y.at <= x.at) = e
<1> DEFINE l == CHOOSE x \in E : \A y \in E : y.at <= x.at
<1>1. l \in E /\ \A y \in E : y.at <= l.at
  BY DEF Top
<1>2. e \in E /\ l.at <= e.at /\ e.at <= l.at
  BY <1>1 DEF Top
<1>3. l.at \in Nat /\ e.at \in Nat
  BY <1>1, <1>2 DEF Event
<1>4. l.at = e.at
  BY <1>2, <1>3
<1> QED
  BY <1>1, <1>2, <1>4 DEF Distinct

\* A beaten decision is not current, and stays beaten.
LEMMA BeatenNotLatest ==
    ASSUME MembershipInv, NEW i \in Item, NEW d \in Nat, Beaten(i, d)
    PROVE  ~LatestIs(i, d)
<1>1. PICK x \in events[i] : x.at > d
  BY DEF Beaten
<1>2. PICK e : Top(events[i], e)
  BY <1>1 DEF MembershipInv, Ordered
<1>3. LatestEvent(i) = e
  BY <1>2, TopIsLatest DEF LatestEvent, MembershipInv, Ordered
<1>4. x.at \in Nat /\ e.at \in Nat /\ x.at <= e.at
  BY <1>1, <1>2 DEF Top, MembershipInv, Event
<1> QED
  BY <1>1, <1>3, <1>4 DEF LatestIs

\* A decision that appended to an item is current or beaten.
LEMMA HasLatestOrBeaten ==
    ASSUME MembershipInv, NEW i \in Item, NEW d \in Nat, Has(i, d), ~LatestIs(i, d)
    PROVE  Beaten(i, d)
<1>1. PICK x \in events[i] : x.at = d
  BY DEF Has
<1>2. PICK e : Top(events[i], e)
  BY <1>1 DEF MembershipInv, Ordered
<1>3. LatestEvent(i) = e
  BY <1>2, TopIsLatest DEF LatestEvent, MembershipInv, Ordered
<1>4. e \in events[i] /\ e.at # d /\ d <= e.at /\ e.at \in Nat
  BY <1>1, <1>2, <1>3 DEF LatestIs, Top, MembershipInv, Event
<1> QED
  BY <1>4 DEF Beaten

-------------------------------------------------------------------------------
(* Changes of memberships *)

LEMMA BeginKeeps ==
    ASSUME MembershipInv, NEW s \in Page \cup Hand, NEW action \in {"attach", "detach"},
           NEW items \in SUBSET Item, NEW undoes \in Nat, undoes <= begun,
           undoes # Nothing => action = "detach", Begin(s, action, items, undoes)
    PROVE  /\ MembershipInv' /\ Opened(s)'
           /\ change'[s].items = items /\ change'[s].undoes = undoes
<1> DEFINE c == [at |-> begun + 1, action |-> action, items |-> items, undoes |-> undoes]
<1>1. begun \in Nat /\ begun' = begun + 1 /\ begun' <= MaxBegins /\ UNCHANGED events
  BY FolderAssumption DEF Begin, MembershipInv
<1>2. c \in Change /\ c.at = begun + 1 /\ c # NoChange
  <2>1. NoChange.at = 0
    BY DEF NoChange, Nothing
  <2>2. c.at # 0
    BY <1>1
  <2> QED
    BY <1>1, <2>1, <2>2 DEF Change
<1>3. change' = [change EXCEPT ![s] = c]
  BY DEF Begin
<1> HIDE DEF c
<1>4. change' \in [Page \cup Hand -> Change] /\ change'[s] = c
      /\ \A t \in Page \cup Hand : t # s => change'[t] = change[t]
  BY <1>2, <1>3 DEF MembershipInv
<1>5. \A t \in Page \cup Hand : change[t].at \in Nat /\ change[t].at <= begun
  <2>1. NoChange.at = 0
    BY DEF NoChange, Nothing
  <2>2. \A t \in Page \cup Hand : Opened(t) => change[t].at \in 1..begun
    BY DEF MembershipInv
  <2> QED
    BY <1>1, <2>1, <2>2 DEF Opened
<1>6. ASSUME NEW t \in Page \cup Hand, Opened(t)'
      PROVE  /\ change'[t].at \in 1..begun'
             /\ change'[t].undoes # Nothing => change'[t].undoes < change'[t].at
                                               /\ change'[t].action = "detach"
             /\ \A u \in Page \cup Hand : u # t => change'[u].at # change'[t].at
             /\ \A i \in Item : \A e \in events'[i] : e.at # change'[t].at
  <2>1. CASE t = s
    <3>1. c.undoes = undoes /\ c.action = action
      BY DEF c
    <3>2. \A u \in Page \cup Hand : u # s => change'[u].at # begun + 1
      BY <1>1, <1>4, <1>5
    <3>3. \A i \in Item : \A e \in events'[i] : e.at # begun + 1
      BY <1>1 DEF MembershipInv, Event
    <3>4. begun + 1 \in 1..begun' /\ undoes < begun + 1
      BY <1>1
    <3> QED
      BY <1>2, <1>4, <2>1, <3>1, <3>2, <3>3, <3>4
  <2>2. CASE t # s
    <3>1. change'[t] = change[t] /\ Opened(t)
      BY <1>4, <1>6, <2>2 DEF Opened
    <3>2. /\ change[t].at \in 1..begun
          /\ change[t].undoes # Nothing => change[t].undoes < change[t].at
                                           /\ change[t].action = "detach"
          /\ \A u \in Page \cup Hand : u # t => change[u].at # change[t].at
          /\ \A i \in Item : \A e \in events[i] : e.at # change[t].at
      BY <3>1 DEF MembershipInv
    <3>3. \A u \in Page \cup Hand : u # t => change'[u].at # change'[t].at
      BY <1>1, <1>2, <1>4, <1>5, <3>1, <3>2
    <3> QED
      BY <1>1, <3>1, <3>2, <3>3
  <2> QED
    BY <2>1, <2>2
<1>7. \A i \in Item : \A e \in events'[i] : e.at <= begun'
  BY <1>1 DEF MembershipInv, Event
<1>8. \A i \in Item : Ordered(events'[i])
  BY <1>1 DEF MembershipInv
<1>9. begun' \in Nat /\ events' \in [Item -> SUBSET Event]
  BY <1>1 DEF MembershipInv
<1>10. MembershipInv'
  BY <1>1, <1>4, <1>6, <1>7, <1>8, <1>9 DEF MembershipInv
<1>11. change'[s].items = items /\ change'[s].undoes = undoes /\ Opened(s)'
  BY <1>2, <1>4 DEF c, Opened
<1> QED
  BY <1>10, <1>11

\* What one event more does to the latest event of an item and to what was before it.
LEMMA ItemApplied ==
    ASSUME MembershipInv, NEW s \in Page \cup Hand, Apply(s), NEW i \in Item,
           i \in ChangedItems(change[s])
    PROVE  Ordered(events'[i])
<1> DEFINE c == change[s]
           E == events[i]
           n == [at |-> c.at, action |-> c.action]
           F == E \cup {n}
<1>1. /\ c \in Change /\ c.at \in Nat \ {0} /\ E \subseteq Event /\ Distinct(E)
      /\ \A e \in E : e.at # c.at
      /\ c.undoes # Nothing => c.undoes < c.at /\ c.action = "detach"
      /\ \A l : Top(E, l) /\ l.action = "attach" => ~AttachedBefore(E, l.at)
  BY DEF Apply, MembershipInv, Opened, Ordered
<1>2. n.at = c.at /\ n.action = c.action /\ n \in Event /\ events'[i] = F
  BY <1>1 DEF Apply, Change, Event, MembershipInv
<1>3. F \subseteq Event /\ Distinct(F) /\ n \in F
  BY <1>1, <1>2 DEF Distinct
<1> HIDE DEF n
<1>4. CASE E = {}
  <2>1. F = {n}
    BY <1>4
  <2>2. Top(F, n) /\ ~AttachedBefore(F, n.at) /\ \A l : Top(F, l) => l = n
    BY <1>2, <2>1 DEF Top, AttachedBefore, Event
  <2> QED
    BY <1>2, <1>3, <2>2 DEF Ordered
<1>5. CASE E # {}
  <2>1. PICK l : Top(E, l)
    BY <1>5 DEF MembershipInv, Ordered
  <2>2. LatestEvent(i) = l /\ l \in Event /\ l \in E
    BY <1>1, <2>1, TopIsLatest DEF LatestEvent, Top
  <2>3. l.at \in Nat /\ n.at \in Nat /\ l.at # n.at /\ \A e \in F : e.at \in Nat
    BY <1>1, <1>2, <1>3, <2>2 DEF Event
  <2>4. Member(i) <=> l.action = "attach"
    BY <1>5, <2>2 DEF Member
  <2>5. \A m : Top(F, m) => m = IF n.at > l.at THEN n ELSE l
    BY <1>2, <1>3, <2>1, <2>2, <2>3 DEF Top, Distinct
  <2>6. CASE n.at > l.at
    <3>1. Top(F, n)
      BY <1>3, <2>1, <2>3, <2>6 DEF Top
    <3>2. ASSUME n.action = "attach", AttachedBefore(F, n.at) PROVE FALSE
      <4>1. c.action = "attach" /\ c.undoes = Nothing
        BY <1>1, <1>2, <3>2
      <4>2. l.action # "attach"
        BY <2>4, <4>1 DEF ChangedItems
      <4>3. PICK e \in F : /\ e.at < n.at /\ e.action = "attach"
                           /\ \A x \in F : x.at < n.at => x.at <= e.at
        BY <3>2 DEF AttachedBefore
      <4>4. e \in E /\ l \in F
        BY <2>2, <2>3, <4>3
      <4>5. l.at <= e.at /\ e.at <= l.at
        BY <2>1, <2>6, <4>3, <4>4 DEF Top
      <4>6. l.at = e.at
        BY <2>3, <4>3, <4>5
      <4>7. e = l
        BY <1>1, <2>2, <4>4, <4>6 DEF Distinct
      <4> QED
        BY <4>2, <4>3, <4>7
    <3> QED
      BY <1>2, <1>3, <2>5, <2>6, <3>1, <3>2 DEF Ordered
  <2>7. CASE n.at < l.at
    <3>1. Top(F, l)
      BY <2>1, <2>3, <2>7 DEF Top
    <3>2. ASSUME l.action = "attach", AttachedBefore(F, l.at) PROVE FALSE
      <4>1. Member(i) /\ ~AttachedBefore(E, l.at)
        BY <1>1, <2>1, <2>4, <3>2
      <4>2. c.action # "attach"
        <5>1. CASE c.undoes = Nothing
          BY <4>1, <5>1 DEF ChangedItems
        <5>2. CASE c.undoes # Nothing
          BY <1>1, <5>2
        <5> QED
          BY <5>1, <5>2
      <4>3. PICK e \in F : /\ e.at < l.at /\ e.action = "attach"
                           /\ \A x \in F : x.at < l.at => x.at <= e.at
        BY <3>2 DEF AttachedBefore
      <4>4. e \in E
        BY <1>2, <4>2, <4>3
      <4>5. AttachedBefore(E, l.at)
        BY <4>3, <4>4 DEF AttachedBefore
      <4> QED
        BY <4>1, <4>5
    <3>3. ~(n.at > l.at)
      BY <2>3, <2>7
    <3> QED
      BY <1>2, <1>3, <2>5, <3>1, <3>2, <3>3 DEF Ordered
  <2> QED
    BY <2>3, <2>6, <2>7
<1> QED
  BY <1>4, <1>5

Grows == /\ begun <= begun' /\ begun' \in Nat
         /\ \A i \in Item : events[i] \subseteq events'[i]

LEMMA ApplyKeeps ==
    ASSUME MembershipInv, NEW s \in Page \cup Hand, Apply(s)
    PROVE  MembershipInv' /\ Grows /\ ~Opened(s)'
<1> DEFINE c == change[s]
           changed == ChangedItems(c)
<1>1. /\ c \in Change /\ c.at \in 1..begun /\ c.at \in Nat \ {0}
      /\ begun \in Nat /\ begun' = begun /\ changed \subseteq Item
  BY DEF Apply, MembershipInv, Opened, ChangedItems, Change
<1>2. [at |-> c.at, action |-> c.action] \in Event
  BY <1>1 DEF Event, Change
<1>3. events' = [i \in Item |-> IF i \in changed
                                THEN events[i] \cup {[at |-> c.at, action |-> c.action]}
                                ELSE events[i]]
  BY DEF Apply
<1> HIDE DEF changed
<1>4. events' \in [Item -> SUBSET Event]
  BY <1>2, <1>3 DEF MembershipInv
<1>5. NoChange \in Change /\ change' = [change EXCEPT ![s] = NoChange]
  BY DEF NoChange, Change, Nothing, Apply
<1>6. change' \in [Page \cup Hand -> Change] /\ change'[s] = NoChange
      /\ \A t \in Page \cup Hand : t # s => change'[t] = change[t]
  BY <1>5 DEF MembershipInv
<1>7. \A i \in Item : \A e \in events'[i] : e \in events[i] \/ e.at = c.at
  BY <1>3
<1>8. \A i \in Item : \A e \in events'[i] : e.at <= begun'
  BY <1>1, <1>7 DEF MembershipInv
<1>9. ASSUME NEW t \in Page \cup Hand, Opened(t)'
      PROVE  /\ change'[t].at \in 1..begun'
             /\ change'[t].undoes # Nothing => change'[t].undoes < change'[t].at
                                               /\ change'[t].action = "detach"
             /\ \A u \in Page \cup Hand : u # t => change'[u].at # change'[t].at
             /\ \A i \in Item : \A e \in events'[i] : e.at # change'[t].at
  <2>1. t # s /\ change'[t] = change[t] /\ Opened(t)
    BY <1>6, <1>9 DEF Opened
  <2>2. /\ change[t].at \in 1..begun
        /\ change[t].undoes # Nothing => change[t].undoes < change[t].at
                                         /\ change[t].action = "detach"
        /\ \A u \in Page \cup Hand : u # t => change[u].at # change[t].at
        /\ \A i \in Item : \A e \in events[i] : e.at # change[t].at
        /\ change[t].at # c.at
    BY <2>1 DEF MembershipInv
  <2>3. \A u \in Page \cup Hand : u # t => change'[u].at # change'[t].at
    <3>1. NoChange.at = 0
      BY DEF NoChange, Nothing
    <3> QED
      BY <1>1, <1>6, <2>1, <2>2, <3>1
  <2>4. \A i \in Item : \A e \in events'[i] : e.at # change'[t].at
    BY <1>7, <2>1, <2>2
  <2> QED
    BY <1>1, <2>1, <2>2, <2>3, <2>4
<1>10. \A i \in Item : Ordered(events'[i])
  <2> SUFFICES ASSUME NEW i \in Item PROVE Ordered(events'[i])
    OBVIOUS
  <2>1. CASE i \in changed
    BY <2>1, ItemApplied DEF changed
  <2>2. CASE i \notin changed
    BY <1>3, <2>2 DEF MembershipInv
  <2> QED
    BY <2>1, <2>2
<1>11. begun <= MaxBegins
  BY DEF MembershipInv
<1>12. MembershipInv'
  BY <1>1, <1>4, <1>6, <1>8, <1>9, <1>10, <1>11 DEF MembershipInv
<1>13. Grows
  BY <1>1, <1>3 DEF Grows
<1> QED
  BY <1>6, <1>12, <1>13 DEF Opened

-------------------------------------------------------------------------------
(* Pages and checkpoints *)

Extends ==
    /\ DOMAIN operation.checkpoints \subseteq DOMAIN operation'.checkpoints
    /\ \A k \in DOMAIN operation.checkpoints :
            /\ operation'.checkpoints[k].decision = operation.checkpoints[k].decision
            /\ operation'.checkpoints[k].items = operation.checkpoints[k].items

CheckpointsTrue ==
    \A k \in DOMAIN operation.checkpoints :
        LET saved == operation.checkpoints[k] IN
        /\ saved.decision <= begun /\ \A i \in saved.items : Has(i, saved.decision)
        /\ saved.state = "undone" => \A i \in saved.items : Beaten(i, saved.decision)

LEMMA OperationsTyped ==
    /\ NoOperation \in Operation /\ NoOperation.checkpoints = <<>>
    /\ operation \in Operation => Unfinished \in Operation
<1>1. <<>> \in Seq(SavedBatch)
  OBVIOUS
<1> QED
  BY <1>1 DEF NoOperation, Operation, Unfinished

LEMMA ClosedTyped == ClosedPage \in PageView /\ ClosedPage.saved = NoOperation /\ ClosedPage.left = {}
BY OperationsTyped DEF ClosedPage, PageView, Nothing

\* What a page relies on stays when it and its change do, and the rest only grows.
LEMMA OthersAtWork ==
    ASSUME MembershipInv, SavedInv, NEW g \in Page, Grows, Extends, change'[g] = change[g], view'[g] = view[g]
    PROVE  AtWork(g)'
<1>1. AtWork(g) /\ view[g] \in PageView
  BY DEF SavedInv
<1>2. Loaded(view[g])'
  BY <1>1 DEF AtWork, Loaded, Extends
<1>3. begun \in Nat /\ begun' \in Nat /\ begun <= begun'
  BY DEF MembershipInv, Grows
<1>4. view[g].pc = "checkpointing" => view[g].decision \in 1..begun'
                                      /\ \A i \in view[g].changed : Has(i, view[g].decision)'
  BY <1>1, <1>3 DEF AtWork, Has, Grows, PageView
<1>5. view[g].pc = "undone" => \A i \in Target(view[g]).items : Beaten(i, Target(view[g]).decision)'
  <2> SUFFICES ASSUME view[g].pc = "undone", NEW i \in Target(view[g]).items
               PROVE  Beaten(i, Target(view[g]).decision)'
    OBVIOUS
  <2>1. view[g].left # {} /\ Beaten(i, Target(view[g]).decision)
    BY <1>1 DEF AtWork
  <2>2. LastLeft(view[g]) \in DOMAIN view[g].saved.checkpoints
    BY <1>1, <2>1, LastLeftIs DEF AtWork, Loaded
  <2>3. Target(view[g]) \in SavedBatch
    BY <1>1, <2>2 DEF Target, PageView, Operation
  <2>4. i \in Item
    BY <2>3 DEF SavedBatch
  <2>5. Target(view[g])' = Target(view[g])
    BY DEF Target, LastLeft
  <2> QED
    BY <2>1, <2>4, <2>5 DEF Beaten, Grows
<1> QED
  BY <1>1, <1>2, <1>4, <1>5 DEF AtWork, Opened, Target, LastLeft

\* A step of one page.
LEMMA PageKeeps ==
    ASSUME MembershipInv, SavedInv, NEW g \in Page, NEW v \in PageView, Show(g, v), Grows, Extends,
           \A h \in Page : h # g => change'[h] = change[h],
           operation' \in Operation, CheckpointsTrue',
           view'[g] = v => AtWork(g)'
    PROVE  SavedInv'
<1>1. view' \in [Page -> PageView] /\ view'[g] = v /\ \A h \in Page : h # g => view'[h] = view[h]
  BY DEF Show, SavedInv
<1>2. \A h \in Page : AtWork(h)'
  <2> SUFFICES ASSUME NEW h \in Page PROVE AtWork(h)'
    OBVIOUS
  <2>1. CASE h = g
    BY <1>1, <2>1
  <2>2. CASE h # g
    BY <1>1, <2>2, OthersAtWork
  <2> QED
    BY <2>1, <2>2
<1> QED
  BY <1>1, <1>2 DEF SavedInv, CheckpointsTrue

LEMMA SameCheckpoints ==
    ASSUME MembershipInv, SavedInv, Grows, operation' \in Operation,
           operation'.checkpoints = operation.checkpoints
    PROVE  Extends /\ CheckpointsTrue'
<1>1. Extends
  BY DEF Extends
<1>2. begun \in Nat /\ begun' \in Nat /\ begun <= begun'
  BY DEF MembershipInv, Grows
<1>3. \A k \in DOMAIN operation.checkpoints : operation.checkpoints[k] \in SavedBatch
  BY DEF SavedInv, Operation
<1>4. CheckpointsTrue'
  <2> SUFFICES ASSUME NEW k \in DOMAIN operation.checkpoints
               PROVE  LET saved == operation.checkpoints[k] IN
                      /\ saved.decision <= begun' /\ \A i \in saved.items : Has(i, saved.decision)'
                      /\ saved.state = "undone" => \A i \in saved.items : Beaten(i, saved.decision)'
    BY DEF CheckpointsTrue, Has, Beaten
  <2> DEFINE saved == operation.checkpoints[k]
  <2>1. /\ saved.decision <= begun /\ \A i \in saved.items : Has(i, saved.decision)
        /\ saved.state = "undone" => \A i \in saved.items : Beaten(i, saved.decision)
        /\ saved.items \subseteq Item /\ saved.decision \in Nat
    BY <1>3 DEF SavedInv, SavedBatch
  <2>2. saved.decision <= begun'
    BY <1>2, <2>1
  <2>3. \A i \in saved.items : \E e \in events'[i] : e.at = saved.decision
    BY <2>1 DEF Has, Grows
  <2>4. saved.state = "undone" => \A i \in saved.items : \E e \in events'[i] : e.at > saved.decision
    BY <2>1 DEF Beaten, Grows
  <2> QED
    BY <2>2, <2>3, <2>4 DEF Has, Beaten
<1> QED
  BY <1>1, <1>4

-------------------------------------------------------------------------------
(* The steps *)

LEMMA MembershipsStay ==
    ASSUME MembershipInv, UNCHANGED Memberships
    PROVE  MembershipInv' /\ Grows
<1>1. Grows
  BY DEF Grows, Memberships, MembershipInv
<1>2. MembershipInv'
  BY DEF Memberships, MembershipInv, Opened
<1> QED
  BY <1>1, <1>2

\* Steps that leave the memberships and the checkpoints alone.
LEMMA QuietPage ==
    ASSUME FolderInv, NEW g \in Page, NEW v \in PageView, Show(g, v), UNCHANGED Memberships,
           operation' \in Operation, operation'.checkpoints = operation.checkpoints,
           view[g].pc \notin {"attaching", "detaching"},
           v.pc \in {"closed", "open", "batch", "undoing"}, Loaded(v),
           v.pc = "open" => v.left = {}
    PROVE  FolderInv'
<1>1. MembershipInv /\ SavedInv /\ MembershipInv' /\ Grows
  BY MembershipsStay DEF FolderInv
<1>2. Extends /\ CheckpointsTrue'
  BY <1>1, SameCheckpoints
<1>3. ASSUME view'[g] = v PROVE AtWork(g)'
  <2>1. ~Opened(g)'
    BY <1>1 DEF SavedInv, AtWork, Opened, Memberships
  <2>2. Loaded(view[g])'
    BY <1>3 DEF Loaded
  <2> QED
    BY <1>3, <2>1, <2>2 DEF AtWork
<1>4. SavedInv'
  BY <1>1, <1>2, <1>3, PageKeeps DEF Memberships
<1> QED
  BY <1>1, <1>4 DEF FolderInv

LEMMA UnfinishedLoaded ==
    ASSUME SavedInv, NEW v, v.saved \in {NoOperation, operation}, v.left = {}
    PROVE  Loaded(v)
BY OperationsTyped DEF Loaded

LEMMA PageQuietSteps ==
    ASSUME FolderInv, NEW g \in Page,
           \/ OpenPage(g) \/ StartApply(g) \/ FinishApply(g) \/ ApplyFails(g) \/ StartUndo(g)
           \/ FinishUndo(g) \/ UndoFails(g) \/ Keep(g) \/ ClosePage(g)
    PROVE  FolderInv'
<1> DEFINE w == view[g]
<1>1. /\ w \in PageView /\ operation \in Operation /\ Loaded(w) /\ SavedInv
      /\ Unfinished \in {NoOperation, operation} /\ Unfinished \in Operation
      /\ NoOperation \in Operation /\ NoOperation.checkpoints = <<>>
  BY OperationsTyped DEF FolderInv, SavedInv, AtWork, Unfinished
\* A page that opens, or that has loaded the operation.
<1>2. ASSUME NEW o \in Operation
      PROVE  LET v == [ClosedPage EXCEPT !.pc = "open", !.saved = o] IN
             v \in PageView /\ v.pc = "open" /\ v.saved = o /\ v.left = {}
  BY ClosedTyped DEF PageView
<1>3. ASSUME NEW o \in Operation, NEW state \in {"applying", "applied", "partial", "undoing", "undone", "kept"}
      PROVE  LET q == [o EXCEPT !.state = state] IN q \in Operation /\ q.checkpoints = o.checkpoints
  BY DEF Operation
<1>4. CASE OpenPage(g)
  <2> DEFINE v == [ClosedPage EXCEPT !.pc = "open", !.saved = Unfinished]
  <2>1. v \in PageView /\ v.pc = "open" /\ v.saved = Unfinished /\ v.left = {}
    BY <1>1, <1>2
  <2>2. Show(g, v) /\ UNCHANGED Memberships /\ operation' = operation /\ w.pc = "closed"
    BY <1>4 DEF OpenPage
  <2> HIDE DEF v
  <2>3. Loaded(v)
    BY <1>1, <2>1, UnfinishedLoaded
  <2> QED
    BY <1>1, <2>1, <2>2, <2>3, QuietPage
<1>5. CASE StartApply(g)
  <2> DEFINE v == [w EXCEPT !.pc = "batch"]
  <2>1. v \in PageView /\ v.pc = "batch" /\ v.saved = w.saved /\ v.left = w.left
    BY <1>1 DEF PageView
  <2>2. Show(g, v) /\ UNCHANGED Memberships /\ w.pc = "open" /\ operation = NoOperation
        /\ operation' = [NoOperation EXCEPT !.state = "applying"]
    BY <1>5 DEF StartApply
  <2>3. operation' \in Operation /\ operation'.checkpoints = operation.checkpoints
    BY <1>1, <1>3, <2>2
  <2> HIDE DEF v
  <2>4. Loaded(v)
    BY <1>1, <2>1 DEF Loaded
  <2> QED
    BY <1>1, <2>1, <2>2, <2>3, <2>4, QuietPage
<1>6. CASE FinishApply(g) \/ ApplyFails(g)
  <2>1. /\ UNCHANGED Memberships /\ w.pc \notin {"attaching", "detaching"}
        /\ operation' = operation \/ \E state \in {"applied", "partial"} :
                                        operation' = [operation EXCEPT !.state = state]
        /\ \E o \in {NoOperation, operation'} :
                Show(g, [ClosedPage EXCEPT !.pc = "open", !.saved = o])
    BY <1>6 DEF FinishApply, ApplyFails
  <2>2. operation' \in Operation /\ operation'.checkpoints = operation.checkpoints
    <3>1. CASE operation' = operation
      BY <1>1, <3>1
    <3>2. ASSUME NEW state \in {"applied", "partial"}, operation' = [operation EXCEPT !.state = state]
          PROVE  operation' \in Operation /\ operation'.checkpoints = operation.checkpoints
      BY <1>1, <3>2 DEF Operation
    <3> QED
      BY <2>1, <3>1, <3>2
  <2>3. PICK o \in {NoOperation, operation'} :
                Show(g, [ClosedPage EXCEPT !.pc = "open", !.saved = o])
    BY <2>1
  <2> DEFINE v == [ClosedPage EXCEPT !.pc = "open", !.saved = o]
  <2>4. v \in PageView /\ v.pc = "open" /\ v.saved = o /\ v.left = {} /\ Show(g, v)
    BY <1>1, <1>2, <2>2, <2>3
  <2> HIDE DEF v
  <2>5. Loaded(v)
    BY <1>1, <2>2, <2>4 DEF Loaded
  <2> QED
    BY <2>1, <2>2, <2>4, <2>5, QuietPage
<1>7. CASE StartUndo(g)
  <2>1. UNCHANGED Memberships /\ w.pc = "open"
    BY <1>7 DEF StartUndo
  <2>2. operation' = operation \/ operation' = [operation EXCEPT !.state = "undoing"]
    BY <1>7 DEF StartUndo
  <2>3. operation' \in Operation /\ operation'.checkpoints = operation.checkpoints
    BY <1>1, <1>3, <2>2
  <2>4. CASE Show(g, [w EXCEPT !.pc = "undoing", !.left = LiveCheckpoints(w.saved)])
    <3> DEFINE v == [w EXCEPT !.pc = "undoing", !.left = LiveCheckpoints(w.saved)]
    <3>1. LiveCheckpoints(w.saved) \subseteq DOMAIN w.saved.checkpoints
          /\ LiveCheckpoints(w.saved) \subseteq Nat
      BY <1>1 DEF LiveCheckpoints, PageView, Operation
    <3>2. v \in PageView /\ v.pc = "undoing" /\ v.saved = w.saved /\ v.left = LiveCheckpoints(w.saved)
      BY <1>1, <3>1 DEF PageView
    <3>3. Show(g, v)
      BY <2>4
    <3> HIDE DEF v
    <3>4. Loaded(v)
      BY <1>1, <3>1, <3>2 DEF Loaded
    <3> QED
      BY <2>1, <2>3, <3>2, <3>3, <3>4, QuietPage
  <2>5. CASE Show(g, [w EXCEPT !.saved = Unfinished])
    <3> DEFINE v == [w EXCEPT !.saved = Unfinished]
    <3>1. w.left = {}
      BY <2>1 DEF FolderInv, SavedInv, AtWork
    <3>2. v \in PageView /\ v.pc = "open" /\ v.saved = Unfinished /\ v.left = {}
      BY <1>1, <2>1, <3>1 DEF PageView
    <3>3. Show(g, v)
      BY <2>5
    <3> HIDE DEF v
    <3>4. Loaded(v)
      BY <1>1, <3>2, UnfinishedLoaded
    <3> QED
      BY <2>1, <2>3, <3>2, <3>3, <3>4, QuietPage
  <2> QED
    BY <1>7, <2>4, <2>5 DEF StartUndo
<1>8. CASE FinishUndo(g)
  <2> DEFINE v == [ClosedPage EXCEPT !.pc = "open"]
  <2>1. v \in PageView /\ v.pc = "open" /\ v.saved = NoOperation /\ v.left = {}
    BY ClosedTyped DEF PageView
  <2>2. /\ Show(g, v) /\ UNCHANGED Memberships /\ w.pc = "undoing"
        /\ operation' = [operation EXCEPT !.state = "undone"]
    BY <1>8 DEF FinishUndo
  <2>3. operation' \in Operation /\ operation'.checkpoints = operation.checkpoints
    BY <1>1, <1>3, <2>2
  <2> HIDE DEF v
  <2>4. Loaded(v)
    BY <1>1, <2>1, UnfinishedLoaded
  <2> QED
    BY <2>1, <2>2, <2>3, <2>4, QuietPage
<1>9. CASE UndoFails(g)
  <2> DEFINE v == [ClosedPage EXCEPT !.pc = "open", !.saved = Unfinished]
  <2>1. v \in PageView /\ v.pc = "open" /\ v.saved = Unfinished /\ v.left = {}
    BY <1>1, <1>2
  <2>2. Show(g, v) /\ UNCHANGED Memberships /\ operation' = operation
        /\ w.pc \in {"undoing", "undone"}
    BY <1>9 DEF UndoFails
  <2> HIDE DEF v
  <2>3. Loaded(v)
    BY <1>1, <2>1, UnfinishedLoaded
  <2> QED
    BY <1>1, <2>1, <2>2, <2>3, QuietPage
<1>10. CASE Keep(g)
  <2> DEFINE v == [w EXCEPT !.saved = NoOperation]
  <2>1. /\ Show(g, v) /\ UNCHANGED Memberships /\ w.pc = "open"
        /\ operation' = [operation EXCEPT !.state = "kept"]
    BY <1>10 DEF Keep
  <2>2. w.left = {}
    BY <2>1 DEF FolderInv, SavedInv, AtWork
  <2>3. operation' \in Operation /\ operation'.checkpoints = operation.checkpoints
    BY <1>1, <1>3, <2>1
  <2>4. v \in PageView /\ v.pc = "open" /\ v.saved = NoOperation /\ v.left = {}
    BY <1>1, <2>1, <2>2 DEF PageView
  <2> HIDE DEF v
  <2>5. Loaded(v)
    BY <1>1, <2>4, UnfinishedLoaded
  <2> QED
    BY <2>1, <2>3, <2>4, <2>5, QuietPage
<1>11. CASE ClosePage(g)
  <2>1. Show(g, ClosedPage) /\ UNCHANGED Memberships /\ operation' = operation
        /\ w.pc \notin {"closed", "attaching", "detaching"}
    BY <1>11 DEF ClosePage
  <2>2. ClosedPage \in PageView /\ ClosedPage.pc = "closed" /\ Loaded(ClosedPage)
    BY <1>1, ClosedTyped, UnfinishedLoaded DEF ClosedPage
  <2> QED
    BY <1>1, <2>1, <2>2, QuietPage
<1> QED
  BY <1>4, <1>5, <1>6, <1>7, <1>8, <1>9, <1>10, <1>11

LEMMA BeginGrows ==
    ASSUME MembershipInv, NEW s, NEW action, NEW items, NEW undoes, Begin(s, action, items, undoes)
    PROVE  Grows
BY DEF Begin, Grows, MembershipInv

LEMMA ChangesElsewhere ==
    ASSUME NEW s \in Page \cup Hand, NEW g \in Page, g # s, MembershipInv,
           \/ Apply(s)
           \/ \E action \in {"attach", "detach"}, items \in SUBSET Item, undoes \in Nat :
                    Begin(s, action, items, undoes)
    PROVE  change'[g] = change[g]
BY DEF Apply, Begin, MembershipInv

LEMMA NextBatchTyped ==
    ASSUME NEW w \in PageView
    PROVE  LET v == NextBatch(w) IN
           v \in PageView /\ v.pc = "batch" /\ v.saved = w.saved /\ v.left = w.left
<1>1. w.batch + 1 \in Nat \ {0} /\ Nothing \in Nat /\ {} \in SUBSET Item
  BY DEF PageView, Nothing
<1>2. PICK n \in Nat \ {0} : n = w.batch + 1
  BY <1>1
<1>3. NextBatch(w) = [w EXCEPT !.pc = "batch", !.batch = n, !.decision = Nothing, !.changed = {}]
  BY <1>2 DEF NextBatch, PageView
<1> QED
  BY <1>1, <1>3 DEF PageView

LEMMA HandSteps ==
    ASSUME FolderInv, NEW h \in Hand, BeginByHand(h) \/ ApplyByHand(h)
    PROVE  FolderInv'
<1> USE DEF FolderInv
<1>1. UNCHANGED <<operation, view>> /\ h \in Page \cup Hand
  BY DEF BeginByHand, ApplyByHand
<1>2. CASE BeginByHand(h)
  <2>1. PICK action \in {"attach", "detach"}, i \in Item : Begin(h, action, {i}, Nothing)
    BY <1>2 DEF BeginByHand
  <2>2. Nothing \in Nat /\ Nothing <= begun /\ {i} \in SUBSET Item
    BY DEF Nothing, MembershipInv
  <2> QED
    <3>1. MembershipInv' /\ Grows
      BY <1>1, <2>1, <2>2, BeginKeeps, BeginGrows
    <3>2. \A g \in Page : change'[g] = change[g]
      BY <1>1, <2>1, <2>2, ChangesElsewhere, FolderAssumption
    <3>3. operation' \in Operation /\ Extends /\ CheckpointsTrue'
      BY <1>1, <3>1, SameCheckpoints DEF SavedInv
    <3>4. \A g \in Page : AtWork(g)'
      BY <1>1, <3>1, <3>2, <3>3, OthersAtWork
    <3> QED
      BY <1>1, <3>1, <3>3, <3>4 DEF SavedInv, CheckpointsTrue
<1>3. CASE ApplyByHand(h)
  <2>1. MembershipInv' /\ Grows
    BY <1>1, <1>3, ApplyKeeps DEF ApplyByHand
  <2>2. \A g \in Page : change'[g] = change[g]
    BY <1>1, <1>3, ChangesElsewhere, FolderAssumption DEF ApplyByHand
  <2>3. operation' \in Operation /\ Extends /\ CheckpointsTrue'
    BY <1>1, <2>1, SameCheckpoints DEF SavedInv
  <2>4. \A g \in Page : AtWork(g)'
    BY <1>1, <2>1, <2>2, <2>3, OthersAtWork
  <2> QED
    BY <1>1, <2>1, <2>3, <2>4 DEF SavedInv, CheckpointsTrue
<1> QED
  BY <1>2, <1>3

LEMMA BeginBatchKeeps ==
    ASSUME FolderInv, NEW g \in Page, BeginBatch(g)
    PROVE  FolderInv'
<1> DEFINE w == view[g]
           v == [w EXCEPT !.pc = "attaching"]
           items == Batches[w.batch]
<1>1. w \in PageView /\ MembershipInv /\ SavedInv /\ Loaded(w)
  BY DEF FolderInv, SavedInv, AtWork
<1>2. v \in PageView /\ v.pc = "attaching" /\ v.saved = w.saved /\ v.left = w.left
  BY <1>1 DEF PageView
<1>3. /\ Show(g, v) /\ operation' = operation /\ Begin(g, "attach", items, Nothing)
      /\ w.batch <= Len(Batches)
  BY DEF BeginBatch
<1>4. items \in SUBSET Item /\ Nothing \in Nat /\ Nothing <= begun
  BY <1>1, <1>3, FolderAssumption DEF PageView, Nothing, MembershipInv
<1> HIDE DEF v, items
<1>5. MembershipInv' /\ Grows /\ Opened(g)' /\ change'[g].undoes = Nothing
  BY <1>1, <1>3, <1>4, BeginKeeps, BeginGrows
<1>6. operation' \in Operation /\ Extends /\ CheckpointsTrue'
  BY <1>1, <1>3, <1>5, SameCheckpoints DEF SavedInv
<1>7. \A h \in Page : h # g => change'[h] = change[h]
  BY <1>1, <1>3, <1>4, ChangesElsewhere
<1>8. ASSUME view'[g] = v PROVE AtWork(g)'
  <2>1. Loaded(view[g])'
    BY <1>1, <1>2, <1>3, <1>8 DEF Loaded
  <2> QED
    BY <1>2, <1>5, <1>8, <2>1 DEF AtWork
<1>9. SavedInv'
  BY <1>1, <1>2, <1>3, <1>5, <1>6, <1>7, <1>8, PageKeeps
<1> QED
  BY <1>5, <1>9 DEF FolderInv

\* What a batch changed has an event of its decision.
LEMMA ApplyBatchKeeps ==
    ASSUME FolderInv, NEW g \in Page, ApplyBatch(g)
    PROVE  FolderInv'
<1> DEFINE w == view[g]
           c == change[g]
           changed == ChangedItems(c)
<1>1. w \in PageView /\ MembershipInv /\ SavedInv /\ Loaded(w) /\ g \in Page \cup Hand
      /\ c \in Change /\ Opened(g)
  BY DEF FolderInv, SavedInv, AtWork, MembershipInv, ApplyBatch
<1>2. /\ Apply(g) /\ operation' = operation
      /\ Show(g, IF changed = {} THEN NextBatch(w)
                 ELSE [w EXCEPT !.pc = "checkpointing", !.decision = c.at, !.changed = changed])
  BY DEF ApplyBatch
<1>3. MembershipInv' /\ Grows /\ ~Opened(g)' /\ begun' = begun
  BY <1>1, <1>2, ApplyKeeps DEF Apply
<1>4. operation' \in Operation /\ Extends /\ CheckpointsTrue'
  BY <1>1, <1>2, <1>3, SameCheckpoints DEF SavedInv
<1>5. \A h \in Page : h # g => change'[h] = change[h]
  BY <1>1, <1>2, ChangesElsewhere
<1>6. changed \subseteq Item /\ c.at \in 1..begun
      /\ \A i \in changed : \E e \in events'[i] : e.at = c.at
  <2>1. changed \subseteq Item
    BY <1>1 DEF ChangedItems, Change
  <2>2. \A i \in changed : [at |-> c.at, action |-> c.action] \in events'[i]
    BY <1>2, <2>1 DEF Apply
  <2> QED
    BY <1>1, <2>1, <2>2 DEF MembershipInv
<1>7. CASE changed = {}
  <2> DEFINE v == NextBatch(w)
  <2>1. v \in PageView /\ v.pc = "batch" /\ v.saved = w.saved /\ v.left = w.left
    BY <1>1, NextBatchTyped
  <2> HIDE DEF v
  <2>2. ASSUME view'[g] = v PROVE AtWork(g)'
    <3>1. Loaded(view[g])'
      BY <1>1, <1>2, <2>1, <2>2 DEF Loaded
    <3> QED
      BY <1>3, <2>1, <2>2, <3>1 DEF AtWork
  <2>3. Show(g, v)
    BY <1>2, <1>7 DEF v
  <2>4. SavedInv'
    BY <1>1, <1>3, <1>4, <1>5, <2>1, <2>2, <2>3, PageKeeps
  <2> QED
    BY <1>3, <2>4 DEF FolderInv
<1>8. CASE changed # {}
  <2> DEFINE v == [w EXCEPT !.pc = "checkpointing", !.decision = c.at, !.changed = changed]
  <2>1. /\ v \in PageView /\ v.pc = "checkpointing" /\ v.saved = w.saved /\ v.left = w.left
        /\ v.decision = c.at /\ v.changed = changed
    <3>1. c.at \in Nat
      BY <1>1 DEF Change
    <3> HIDE DEF changed, c
    <3> QED
      BY <1>1, <1>6, <3>1 DEF PageView
  <2>2. Show(g, v)
    BY <1>2, <1>8
  <2> HIDE DEF v, changed
  <2>3. ASSUME view'[g] = v PROVE AtWork(g)'
    <3>1. Loaded(view[g])'
      BY <1>1, <1>2, <2>1, <2>3 DEF Loaded
    <3>2. view'[g].decision \in 1..begun' /\ \A i \in view'[g].changed : Has(i, view[g].decision)'
      BY <1>3, <1>6, <2>1, <2>3 DEF Has
    <3> QED
      BY <1>3, <2>1, <2>3, <3>1, <3>2 DEF AtWork
  <2>4. SavedInv'
    BY <1>1, <1>3, <1>4, <1>5, <2>1, <2>2, <2>3, PageKeeps
  <2> QED
    BY <1>3, <2>4 DEF FolderInv
<1> QED
  BY <1>7, <1>8

LEMMA CheckpointKeeps ==
    ASSUME FolderInv, NEW g \in Page, Checkpoint(g)
    PROVE  FolderInv'
<1> DEFINE w == view[g]
           v == NextBatch(w)
           row == [decision |-> w.decision, items |-> w.changed, state |-> "applied"]
           old == operation.checkpoints
<1>1. /\ w \in PageView /\ MembershipInv /\ SavedInv /\ Loaded(w) /\ operation \in Operation
      /\ w.decision \in 1..begun /\ \A i \in w.changed : Has(i, w.decision)
      /\ w.pc = "checkpointing" /\ ~Opened(g)
  BY DEF FolderInv, SavedInv, AtWork, Checkpoint
<1>2. v \in PageView /\ v.pc = "batch" /\ v.saved = w.saved /\ v.left = w.left
  BY <1>1, NextBatchTyped
<1>3. /\ Show(g, v) /\ UNCHANGED Memberships
      /\ operation' = [operation EXCEPT !.checkpoints = Append(old, row)]
  BY DEF Checkpoint
<1>4. MembershipInv' /\ Grows
  BY <1>1, <1>3, MembershipsStay
<1>5. row \in SavedBatch /\ old \in Seq(SavedBatch)
  <2>1. w.decision \in Nat \ {0} /\ w.changed \in SUBSET Item
    BY <1>1 DEF PageView, MembershipInv
  <2> QED
    BY <1>1, <2>1 DEF SavedBatch, Operation
<1>6. row.decision = w.decision /\ row.items = w.changed /\ row.state = "applied"
  OBVIOUS
<1> HIDE DEF row, v
<1>7. operation' \in Operation /\ operation'.checkpoints = Append(old, row)
  <2>1. PICK rows \in Seq(SavedBatch) : rows = Append(old, row)
    <3> HIDE DEF old
    <3>1. Append(old, row) \in Seq(SavedBatch)
      BY <1>5
    <3> QED
      BY <3>1
  <2>2. operation' = [operation EXCEPT !.checkpoints = rows]
    BY <1>3, <2>1
  <2> QED
    BY <1>1, <2>1, <2>2 DEF Operation
<1>8. /\ DOMAIN operation'.checkpoints = DOMAIN old \cup {Len(old) + 1}
      /\ \A k \in DOMAIN old : operation'.checkpoints[k] = old[k]
      /\ operation'.checkpoints[Len(old) + 1] = row
  BY <1>5, <1>7
<1>9. Extends
  BY <1>8 DEF Extends
<1>10. CheckpointsTrue'
  <2>1. \A k \in DOMAIN old : operation'.checkpoints[k] = old[k]
    BY <1>8
  <2>2. UNCHANGED <<events, begun>>
    BY <1>3 DEF Memberships
  <2> SUFFICES ASSUME NEW k \in DOMAIN operation'.checkpoints
               PROVE  LET saved == operation'.checkpoints[k] IN
                      /\ saved.decision <= begun /\ \A i \in saved.items : Has(i, saved.decision)
                      /\ saved.state = "undone" => \A i \in saved.items : Beaten(i, saved.decision)
    BY <2>2 DEF CheckpointsTrue, Has, Beaten
  <2>3. CASE k \in DOMAIN old
    BY <1>1, <2>1, <2>3 DEF SavedInv
  <2>4. CASE k \notin DOMAIN old
    <3>1. operation'.checkpoints[k] = row
      BY <1>8, <2>4
    <3>2. w.decision <= begun
      BY <1>1 DEF MembershipInv
    <3> QED
      BY <1>1, <1>6, <3>1, <3>2
  <2> QED
    BY <2>3, <2>4
<1>11. ASSUME view'[g] = v PROVE AtWork(g)'
  <2>1. Loaded(view[g])'
    BY <1>1, <1>2, <1>9, <1>11 DEF Loaded, Extends
  <2>2. ~Opened(g)'
    BY <1>1, <1>3 DEF Memberships, Opened
  <2> QED
    BY <1>2, <1>11, <2>1, <2>2 DEF AtWork
<1>12. SavedInv'
  BY <1>1, <1>2, <1>3, <1>4, <1>7, <1>9, <1>10, <1>11, PageKeeps DEF Memberships
<1> QED
  BY <1>4, <1>12 DEF FolderInv

\* The checkpoint a page is undoing is one of the operation.
LEMMA TargetIs ==
    ASSUME SavedInv, NEW g \in Page, view[g].left # {}
    PROVE  LET k == LastLeft(view[g]) IN
           /\ k \in DOMAIN view[g].saved.checkpoints /\ k \in DOMAIN operation.checkpoints
           /\ Target(view[g]) \in SavedBatch
           /\ Target(view[g]).decision = operation.checkpoints[k].decision
           /\ Target(view[g]).items = operation.checkpoints[k].items
           /\ Target(view[g]).decision <= begun
           /\ \A i \in Target(view[g]).items : Has(i, Target(view[g]).decision)
<1> DEFINE k == LastLeft(view[g])
<1>1. k \in view[g].left /\ Loaded(view[g]) /\ view[g] \in PageView
  BY LastLeftIs DEF SavedInv, AtWork
<1>2. k \in DOMAIN view[g].saved.checkpoints /\ k \in DOMAIN operation.checkpoints
  BY <1>1 DEF Loaded
<1>3. Target(view[g]) \in SavedBatch
  BY <1>1, <1>2 DEF Target, PageView, Operation
<1>4. /\ Target(view[g]).decision = operation.checkpoints[k].decision
      /\ Target(view[g]).items = operation.checkpoints[k].items
  BY <1>1, <1>2 DEF Target, Loaded
<1> QED
  BY <1>2, <1>3, <1>4 DEF SavedInv

LEMMA BeginUndoKeeps ==
    ASSUME FolderInv, NEW g \in Page, BeginUndo(g)
    PROVE  FolderInv'
<1> DEFINE w == view[g]
           v == [w EXCEPT !.pc = "detaching"]
           target == Target(w)
<1>1. w \in PageView /\ MembershipInv /\ SavedInv /\ Loaded(w) /\ w.left # {}
  BY DEF FolderInv, SavedInv, AtWork, BeginUndo
<1>2. v \in PageView /\ v.pc = "detaching" /\ v.saved = w.saved /\ v.left = w.left
  BY <1>1 DEF PageView
<1>3. /\ Show(g, v) /\ operation' = operation
      /\ Begin(g, "detach", target.items, target.decision)
  BY DEF BeginUndo, Target
<1>4. target.items \in SUBSET Item /\ target.decision \in Nat /\ target.decision <= begun
  BY <1>1, TargetIs DEF SavedBatch
<1> HIDE DEF v
<1>5. /\ MembershipInv' /\ Grows /\ Opened(g)'
      /\ change'[g].undoes = target.decision /\ change'[g].items = target.items
  BY <1>1, <1>3, <1>4, BeginKeeps, BeginGrows
<1>6. operation' \in Operation /\ Extends /\ CheckpointsTrue'
  BY <1>1, <1>3, <1>5, SameCheckpoints DEF SavedInv
<1>7. \A h \in Page : h # g => change'[h] = change[h]
  BY <1>1, <1>3, <1>4, ChangesElsewhere
<1>8. ASSUME view'[g] = v PROVE AtWork(g)'
  <2>1. Loaded(view[g])'
    BY <1>1, <1>2, <1>3, <1>8 DEF Loaded
  <2>2. Target(view[g])' = target
    BY <1>2, <1>8 DEF Target, LastLeft
  <2> QED
    BY <1>1, <1>2, <1>5, <1>8, <2>1, <2>2 DEF AtWork
<1>9. SavedInv'
  BY <1>1, <1>2, <1>3, <1>5, <1>6, <1>7, <1>8, PageKeeps
<1> QED
  BY <1>5, <1>9 DEF FolderInv

\* Undoing a decision leaves none of its items with the decision as the latest: those it was the
\* latest of get a later event, and the others had one.
LEMMA UndoBeats ==
    ASSUME MembershipInv, NEW g \in Page \cup Hand, Apply(g), NEW d \in Nat \ {0},
           change[g].undoes = d, NEW i \in change[g].items, Has(i, d)
    PROVE  \E e \in events'[i] : e.at > d
<1> DEFINE c == change[g]
<1>1. c \in Change /\ i \in Item /\ d < c.at
  BY DEF Apply, MembershipInv, Opened, Change, Nothing
<1>2. CASE LatestIs(i, d)
  <2>1. i \in ChangedItems(c)
    BY <1>2 DEF ChangedItems, Undoable, Nothing
  <2>2. [at |-> c.at, action |-> c.action] \in events'[i]
    BY <1>1, <2>1 DEF Apply
  <2> QED
    BY <1>1, <2>2
<1>3. CASE ~LatestIs(i, d)
  <2>1. Beaten(i, d)
    BY <1>1, <1>3, HasLatestOrBeaten
  <2> QED
    BY <1>1, <2>1, ApplyKeeps DEF Beaten, Grows
<1> QED
  BY <1>2, <1>3

LEMMA ApplyUndoKeeps ==
    ASSUME FolderInv, NEW g \in Page, ApplyUndo(g)
    PROVE  FolderInv'
<1> DEFINE w == view[g]
           v == [w EXCEPT !.pc = "undone"]
           target == Target(w)
<1>1. /\ w \in PageView /\ MembershipInv /\ SavedInv /\ Loaded(w) /\ w.left # {}
      /\ change[g].undoes = target.decision /\ change[g].items = target.items
  BY DEF FolderInv, SavedInv, AtWork, ApplyUndo
<1>2. v \in PageView /\ v.pc = "undone" /\ v.saved = w.saved /\ v.left = w.left
  BY <1>1 DEF PageView
<1>3. Show(g, v) /\ operation' = operation /\ Apply(g)
  BY DEF ApplyUndo
<1> HIDE DEF v
<1>4. MembershipInv' /\ Grows /\ ~Opened(g)'
  BY <1>1, <1>3, ApplyKeeps
<1>5. operation' \in Operation /\ Extends /\ CheckpointsTrue'
  BY <1>1, <1>3, <1>4, SameCheckpoints DEF SavedInv
<1>6. \A h \in Page : h # g => change'[h] = change[h]
  BY <1>1, <1>3, ChangesElsewhere
<1>7. \A i \in target.items : \E e \in events'[i] : e.at > target.decision
  <2>1. target.decision \in Nat \ {0} /\ \A i \in target.items : Has(i, target.decision)
    BY <1>1, TargetIs DEF SavedBatch
  <2> QED
    BY <1>1, <1>3, <2>1, UndoBeats
<1>8. ASSUME view'[g] = v PROVE AtWork(g)'
  <2>1. Loaded(view[g])'
    BY <1>1, <1>2, <1>3, <1>8 DEF Loaded
  <2>2. Target(view[g])' = target
    BY <1>2, <1>8 DEF Target, LastLeft
  <2>3. (\A i \in Target(view[g]).items : Beaten(i, Target(view[g]).decision))'
    BY <1>7, <2>2 DEF Beaten
  <2> QED
    BY <1>1, <1>2, <1>4, <1>8, <2>1, <2>3 DEF AtWork
<1>9. SavedInv'
  BY <1>1, <1>2, <1>3, <1>4, <1>5, <1>6, <1>8, PageKeeps
<1> QED
  BY <1>4, <1>9 DEF FolderInv

LEMMA UndoCheckpointKeeps ==
    ASSUME FolderInv, NEW g \in Page, UndoCheckpoint(g)
    PROVE  FolderInv'
<1> DEFINE w == view[g]
           k == LastLeft(w)
           v == [w EXCEPT !.pc = "undoing", !.left = w.left \ {k}]
           old == operation.checkpoints
           row == [old[k] EXCEPT !.state = "undone"]
<1>1. /\ w \in PageView /\ MembershipInv /\ SavedInv /\ Loaded(w) /\ operation \in Operation
      /\ w.left # {} /\ \A i \in Target(w).items : Beaten(i, Target(w).decision)
      /\ w.pc = "undone" /\ ~Opened(g)
  BY DEF FolderInv, SavedInv, AtWork, UndoCheckpoint
<1>2. v \in PageView /\ v.pc = "undoing" /\ v.saved = w.saved /\ v.left \subseteq w.left
  BY <1>1 DEF PageView
<1>3. Show(g, v) /\ UNCHANGED Memberships /\ operation' = Undone(k)
  BY DEF UndoCheckpoint
<1>4. MembershipInv' /\ Grows
  BY <1>1, <1>3, MembershipsStay
<1>5. /\ k \in DOMAIN old /\ old \in Seq(SavedBatch) /\ old[k] \in SavedBatch
      /\ \A i \in old[k].items : Beaten(i, old[k].decision)
  BY <1>1, TargetIs DEF Operation
<1>6. row \in SavedBatch /\ row.decision = old[k].decision /\ row.items = old[k].items
  BY <1>5 DEF SavedBatch
<1>7. operation' \in Operation /\ operation'.checkpoints = [old EXCEPT ![k] = row]
  <2>1. PICK rows \in Seq(SavedBatch) : rows = [old EXCEPT ![k] = row]
    <3> HIDE DEF old, row, k
    <3>1. [old EXCEPT ![k] = row] \in Seq(SavedBatch)
      BY <1>5, <1>6
    <3> QED
      BY <3>1
  <2>2. operation' = [operation EXCEPT !.checkpoints = rows]
    BY <1>3, <2>1 DEF Undone
  <2> QED
    BY <1>1, <2>1, <2>2 DEF Operation
<1> HIDE DEF v, row, k
<1>8. /\ DOMAIN operation'.checkpoints = DOMAIN old
      /\ \A j \in DOMAIN old : operation'.checkpoints[j] = IF j = k THEN row ELSE old[j]
  BY <1>5, <1>7
<1>9. Extends
  BY <1>6, <1>8 DEF Extends
<1>10. CheckpointsTrue'
  <2>1. UNCHANGED <<events, begun>>
    BY <1>3 DEF Memberships
  <2> SUFFICES ASSUME NEW j \in DOMAIN old
               PROVE  LET saved == operation'.checkpoints[j] IN
                      /\ saved.decision <= begun /\ \A i \in saved.items : Has(i, saved.decision)
                      /\ saved.state = "undone" => \A i \in saved.items : Beaten(i, saved.decision)
    BY <1>8, <2>1 DEF CheckpointsTrue, Has, Beaten
  <2> QED
    BY <1>1, <1>5, <1>6, <1>8 DEF SavedInv
<1>11. ASSUME view'[g] = v PROVE AtWork(g)'
  <2>1. Loaded(view[g])'
    BY <1>1, <1>2, <1>9, <1>11 DEF Loaded, Extends
  <2>2. ~Opened(g)'
    BY <1>1, <1>3 DEF Memberships, Opened
  <2> QED
    BY <1>2, <1>11, <2>1, <2>2 DEF AtWork
<1>12. SavedInv'
  BY <1>1, <1>2, <1>3, <1>4, <1>7, <1>9, <1>10, <1>11, PageKeeps DEF Memberships
<1> QED
  BY <1>4, <1>12 DEF FolderInv

LEMMA ClosePageEarlyKeeps ==
    ASSUME FolderInv, NEW g \in Page, ClosePageEarly(g)
    PROVE  FolderInv'
<1>1. MembershipInv /\ SavedInv /\ ClosedPage \in PageView
      /\ ClosedPage.pc = "closed" /\ ClosedPage.saved = NoOperation /\ ClosedPage.left = {}
  BY ClosedTyped DEF FolderInv, ClosedPage
<1>2. Show(g, ClosedPage) /\ operation' = operation /\ Apply(g)
  BY DEF ClosePageEarly
<1>3. MembershipInv' /\ Grows /\ ~Opened(g)'
  BY <1>1, <1>2, ApplyKeeps
<1>4. operation' \in Operation /\ Extends /\ CheckpointsTrue'
  BY <1>1, <1>2, <1>3, SameCheckpoints DEF SavedInv
<1>5. \A h \in Page : h # g => change'[h] = change[h]
  BY <1>1, <1>2, ChangesElsewhere
<1>6. ASSUME view'[g] = ClosedPage PROVE AtWork(g)'
  <2>1. Loaded(ClosedPage)
    BY <1>1, UnfinishedLoaded
  <2>2. Loaded(view[g])'
    BY <1>2, <1>6, <2>1 DEF Loaded
  <2> QED
    BY <1>1, <1>3, <1>6, <2>2 DEF AtWork
<1>7. SavedInv'
  BY <1>1, <1>2, <1>3, <1>4, <1>5, <1>6, PageKeeps
<1> QED
  BY <1>3, <1>7 DEF FolderInv

-------------------------------------------------------------------------------

LEMMA FolderInvInit == FolderInit => FolderInv
<1> SUFFICES ASSUME FolderInit PROVE FolderInv
  OBVIOUS
<1>1. NoChange \in Change
  BY DEF NoChange, Change, Nothing
<1>2. /\ change \in [Page \cup Hand -> Change] /\ \A s \in Page \cup Hand : ~Opened(s)
      /\ events \in [Item -> SUBSET Event] /\ \A i \in Item : events[i] = {}
      /\ begun = 0 /\ begun \in Nat /\ begun <= MaxBegins
  BY <1>1, FolderAssumption DEF FolderInit, Opened
<1>3. \A i \in Item : Ordered(events[i])
  BY <1>2 DEF Ordered, Distinct, Top
<1>4. MembershipInv
  BY <1>2, <1>3 DEF MembershipInv
<1>5. operation \in Operation /\ view \in [Page -> PageView] /\ DOMAIN operation.checkpoints = {}
      /\ \A g \in Page : view[g] = ClosedPage
  BY OperationsTyped, ClosedTyped DEF FolderInit
<1>6. ASSUME NEW g \in Page PROVE AtWork(g)
  <2>1. Loaded(view[g])
    BY <1>5, ClosedTyped, OperationsTyped DEF Loaded
  <2> QED
    BY <1>2, <1>5, <2>1 DEF AtWork, ClosedPage
<1>7. SavedInv
  BY <1>5, <1>6 DEF SavedInv
<1> QED
  BY <1>4, <1>7 DEF FolderInv

LEMMA FolderInvNext == FolderInv /\ [FolderNext]_folderVars => FolderInv'
<1> SUFFICES ASSUME FolderInv, [FolderNext]_folderVars PROVE FolderInv'
  OBVIOUS
<1>1. ASSUME NEW h \in Hand, BeginByHand(h) \/ ApplyByHand(h) PROVE FolderInv'
  BY <1>1, HandSteps
<1>2. ASSUME NEW g \in Page, BeginBatch(g) PROVE FolderInv'
  BY <1>2, BeginBatchKeeps
<1>3. ASSUME NEW g \in Page, ApplyBatch(g) PROVE FolderInv'
  BY <1>3, ApplyBatchKeeps
<1>4. ASSUME NEW g \in Page, Checkpoint(g) PROVE FolderInv'
  BY <1>4, CheckpointKeeps
<1>5. ASSUME NEW g \in Page, BeginUndo(g) PROVE FolderInv'
  BY <1>5, BeginUndoKeeps
<1>6. ASSUME NEW g \in Page, ApplyUndo(g) PROVE FolderInv'
  BY <1>6, ApplyUndoKeeps
<1>7. ASSUME NEW g \in Page, UndoCheckpoint(g) PROVE FolderInv'
  BY <1>7, UndoCheckpointKeeps
<1>8. ASSUME NEW g \in Page, ClosePageEarly(g) PROVE FolderInv'
  BY <1>8, ClosePageEarlyKeeps
<1>9. ASSUME NEW g \in Page,
             \/ OpenPage(g) \/ StartApply(g) \/ FinishApply(g) \/ ApplyFails(g) \/ StartUndo(g)
             \/ FinishUndo(g) \/ UndoFails(g) \/ Keep(g) \/ ClosePage(g)
      PROVE  FolderInv'
  BY <1>9, PageQuietSteps
<1>10. CASE UNCHANGED folderVars
  <2>1. UNCHANGED Memberships /\ UNCHANGED <<operation, view>>
    BY <1>10 DEF folderVars, Memberships
  <2>2. MembershipInv' /\ Grows
    BY <2>1, MembershipsStay DEF FolderInv
  <2>3. operation' \in Operation /\ Extends /\ CheckpointsTrue'
    BY <2>1, <2>2, SameCheckpoints DEF FolderInv, SavedInv
  <2>4. \A g \in Page : AtWork(g)'
    BY <2>1, <2>2, <2>3, OthersAtWork DEF FolderInv, Memberships
  <2> QED
    BY <2>1, <2>2, <2>3, <2>4 DEF FolderInv, SavedInv, CheckpointsTrue
<1> QED
  BY <1>1, <1>2, <1>3, <1>4, <1>5, <1>6, <1>7, <1>8, <1>9, <1>10 DEF FolderNext

\* The events of a collection are distinct in time, and what pages load and undo is what they saved.
THEOREM FolderInvariant == FolderSpec => []FolderInv
BY FolderInvInit, FolderInvNext, PTL DEF FolderSpec

\* The invariant gives the types.
LEMMA FolderTypes == FolderInv => FolderTypeOK
<1> SUFFICES ASSUME FolderInv PROVE FolderTypeOK
  OBVIOUS
<1>1. begun \in 0..MaxBegins /\ begun \in Nat
  BY FolderAssumption DEF FolderInv, MembershipInv
<1>2. \A i \in Item : \A e \in events[i] : e.at \in 1..begun /\ e.action \in {"attach", "detach"}
  <2> SUFFICES ASSUME NEW i \in Item, NEW e \in events[i]
               PROVE  e.at \in 1..begun /\ e.action \in {"attach", "detach"}
    OBVIOUS
  <2>1. e \in Event /\ e.at <= begun
    BY DEF FolderInv, MembershipInv
  <2> QED
    BY <1>1, <2>1 DEF Event
<1>3. operation.state \in {"none", "applying", "applied", "partial", "undoing", "undone", "kept"}
  BY DEF FolderInv, SavedInv, Operation
<1>4. \A s \in Page \cup Hand : change[s].at \in 0..begun
  <2> SUFFICES ASSUME NEW s \in Page \cup Hand PROVE change[s].at \in 0..begun
    OBVIOUS
  <2>1. CASE Opened(s)
    BY <1>1, <2>1 DEF FolderInv, MembershipInv
  <2>2. CASE ~Opened(s)
    <3>1. change[s].at = 0
      BY <2>2 DEF Opened, NoChange, Nothing
    <3> QED
      BY <1>1, <3>1
  <2> QED
    BY <2>1, <2>2
<1> QED
  BY <1>1, <1>2, <1>3, <1>4 DEF FolderTypeOK

\* Memberships, operation and changes keep their types: no event is later than the last transaction.
THEOREM FolderTyped == FolderSpec => []FolderTypeOK
<1> QED
  BY FolderTypes, FolderInvariant, PTL

\* UndoneCheckpointsDetached: no membership of an undone checkpoint is current, for any items,
\* batches, pages and sessions.
THEOREM FolderUndone == FolderSpec => []UndoneCheckpointsDetached
<1>1. ASSUME FolderInv PROVE UndoneCheckpointsDetached
  <2> SUFFICES ASSUME NEW k \in DOMAIN operation.checkpoints,
                      operation.checkpoints[k].state = "undone",
                      NEW i \in operation.checkpoints[k].items
               PROVE  ~LatestIs(i, operation.checkpoints[k].decision)
    BY DEF UndoneCheckpointsDetached
  <2>1. operation.checkpoints[k] \in SavedBatch /\ MembershipInv
    BY <1>1 DEF FolderInv, SavedInv, Operation
  <2>2. Beaten(i, operation.checkpoints[k].decision)
    BY <1>1 DEF FolderInv, SavedInv
  <2> QED
    BY <2>1, <2>2, BeatenNotLatest DEF SavedBatch
<1> QED
  BY <1>1, FolderInvariant, PTL

LEMMA UndoTakesOwn ==
    ASSUME FolderInv, [FolderNext]_folderVars, NEW g \in Page, NEW i \in Item,
           change[g].undoes # Nothing, change'[g] # change[g], Member(i), ~Member(i)'
    PROVE  LatestIs(i, change[g].undoes) /\ ~MemberBefore(i, change[g].undoes)
<1> USE DEF FolderInv
<1>1. MembershipInv /\ Opened(g) /\ g \in Page \cup Hand
  BY DEF Opened, NoChange
<1>2. ~\E s \in Page \cup Hand, action \in {"attach", "detach"}, items \in SUBSET Item, undoes \in Nat :
            Begin(s, action, items, undoes)
  <2> SUFFICES ASSUME NEW s \in Page \cup Hand, NEW action, NEW items, NEW undoes,
                      Begin(s, action, items, undoes)
               PROVE  FALSE
    OBVIOUS
  <2>1. UNCHANGED events
    BY DEF Begin
  <2> QED
    BY <2>1 DEF Member, LatestEvent
<1>3. events' # events
  BY DEF Member, LatestEvent
<1>4. PICK s \in Page \cup Hand : Apply(s)
  BY <1>3 DEF FolderNext, folderVars, BeginByHand, ApplyByHand, Begin, Memberships, OpenPage, StartApply,
              BeginBatch, ApplyBatch, Checkpoint, FinishApply, ApplyFails, StartUndo, BeginUndo,
              ApplyUndo, UndoCheckpoint, FinishUndo, UndoFails, Keep, ClosePage, ClosePageEarly
<1>5. s = g
  BY <1>1, <1>4 DEF Apply, MembershipInv
<1>6. i \in ChangedItems(change[g])
  <2>1. i \notin ChangedItems(change[g]) => events'[i] = events[i]
    BY <1>4, <1>5 DEF Apply
  <2> QED
    BY <2>1 DEF Member, LatestEvent
<1>7. LatestIs(i, change[g].undoes)
  BY <1>6 DEF ChangedItems, Undoable
<1>8. PICK l : Top(events[i], l)
  BY <1>1 DEF MembershipInv, Ordered, Member
<1>9. LatestEvent(i) = l
  BY <1>1, <1>8, TopIsLatest DEF LatestEvent, MembershipInv, Ordered
<1>10. l.action = "attach" /\ l.at = change[g].undoes
  BY <1>7, <1>9 DEF Member, LatestIs
<1>11. ~AttachedBefore(events[i], l.at)
  BY <1>1, <1>8, <1>10 DEF MembershipInv, Ordered
<1> QED
  BY <1>7, <1>10, <1>11 DEF AttachedBefore, MemberBefore

\* UndoKeepsOthers: undoing ends only memberships that the operation had made.
THEOREM FolderUndoKeeps == FolderSpec => UndoKeepsOthers
<1>1. ASSUME FolderInv, [FolderNext]_folderVars
      PROVE  [\A g \in Page, i \in Item :
                change[g].undoes # Nothing /\ change'[g] # change[g] /\ Member(i) /\ ~Member(i)'
                    => LatestIs(i, change[g].undoes) /\ ~MemberBefore(i, change[g].undoes)]_folderVars
  BY <1>1, UndoTakesOwn
<1> QED
  BY <1>1, FolderInvariant, PTL DEF FolderSpec, UndoKeepsOthers
=============================================================================
