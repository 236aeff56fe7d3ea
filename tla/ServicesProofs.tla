--------------------------- MODULE ServicesProofs ---------------------------
(***************************************************************************)
(* What is proved of SourcePacks, of the requests to rebuild them, of the  *)
(* resident recogniser, and of all the services side by side.              *)
(***************************************************************************)
EXTENDS MCServices, CommandProofs, CatalogueProofs

-----------------------------------------------------------------------------
(***************************************************************************)
(* Safety of the SourcePacks for every number of packs, faces, sessions    *)
(* and predecessors.  The locks make the rows a transaction has looked at  *)
(* its own; on top of them at most one pack is active, an open activation  *)
(* keeps its gate's verdict unless a correction crosses it or its trust    *)
(* strays, and an open correction has every other active pack with its     *)
(* face.                                                                   *)
(***************************************************************************)

\* A row is locked by one transaction at a time.
LocksExclusive ==
    /\ \A o, q \in Operator : o # q => session[o].locks \cap session[q].locks = {}
    /\ \A o \in Operator, f \in Face : session[o].locks \cap correcting[f].locks = {}
    /\ \A f, g \in Face : f # g => correcting[f].locks \cap correcting[g].locks = {}

\* A pack's predecessor is another pack, compiled before it.
PredecessorsCompiled ==
    \A p \in Pack : pack[p].predecessor # NoPack =>
        pack[p].predecessor # p /\ pack[pack[p].predecessor].state # "none"

\* A session holds the row of its pack, which is as it found it.
SessionsHold ==
    \A o \in Operator : session[o].pc # "idle" =>
        /\ session[o].pack \in session[o].locks
        /\ IF session[o].pc = "restoring"
           THEN /\ pack[session[o].pack].state = "active"
                /\ pack[session[o].pack].predecessor # NoPack
           ELSE pack[session[o].pack].state \in {"proposed", "retired"}

\* At most one pack is active; the index lets one activation through, which holds it.
OneActive ==
    /\ \A p, q \in Active : p = q
    /\ \A o \in Operator : session[o].pc = "activated" =>
        /\ Active \subseteq session[o].locks
        /\ \A q \in Operator : session[q].pc = "activated" => q = o

\* What passed the gate and was not crossed is not being corrected; if it did not stray either, it
\* is trusted as the gate found it.
GateStands ==
    \A o \in Operator :
        session[o].pc \in {"indexing", "activated"} /\ session[o].pack \notin crossed =>
            /\ session[o].pack \notin strayed => Trusted(session[o].pack)
            /\ \A f \in Evidence[session[o].pack] : correcting[f].pc = "idle"

\* An open correction is about to retire every active pack with its face that was not crossed.
CorrectionsCover ==
    \A f \in Face, p \in Active \ crossed : f \in Evidence[p] =>
        /\ correcting[f].pc = "retiring" => p \in correcting[f].targets
        /\ correcting[f].pc = "retired" => p \in correcting[f].locks

\* A rejected pack has no receipt, and no transaction is about to activate it.
RejectedUnproved ==
    \A p \in rejected :
        /\ pack[p].state = "retired" /\ ~pack[p].receipt
        /\ \A o \in Operator : session[o].pc # "idle" => session[o].pack # p

PackInv ==
    /\ PackTypeOK
    /\ LocksExclusive
    /\ PredecessorsCompiled
    /\ SessionsHold
    /\ OneActive
    /\ GateStands
    /\ CorrectionsCover
    /\ RejectedUnproved
    /\ ActiveTrusted

PackRow ==
    [state : {"none", "proposed", "active", "retired"}, status : {"untested", "passed", "failed"},
     receipt : BOOLEAN, predecessor : Pack \cup {NoPack}]

SessionRow ==
    [pc : {"idle", "candidate", "locking", "restoring", "gating", "indexing", "activated"},
     pack : Pack \cup {NoPack}, targets : SUBSET Pack, locks : SUBSET Pack]

CorrectionRow == [pc : {"idle", "retiring", "retired"}, targets : SUBSET Pack, locks : SUBSET Pack]

\* The type invariant, row by row.
LEMMA PackTypes ==
    PackTypeOK <=> /\ pack \in [Pack -> PackRow] /\ accepted \subseteq Face
                   /\ valid \subseteq Face /\ canonical \in [Face -> Face]
                   /\ session \in [Operator -> SessionRow] /\ correcting \in [Face -> CorrectionRow]
                   /\ rejected \subseteq Pack /\ crossed \subseteq Pack \cup {NoPack}
                   /\ strayed \subseteq Pack \cup {NoPack}
  BY DEF PackTypeOK, PackRow, SessionRow, CorrectionRow

LEMMA PackInitially == PackInit => PackInv
  BY PackAssumption DEF PackInit, PackInv, PackTypeOK, LocksExclusive, PredecessorsCompiled, SessionsHold,
     OneActive, GateStands, CorrectionsCover, RejectedUnproved, ActiveTrusted, Active, Trusted,
     Uncompiled, NoSession, NoCorrection

\* A command that touches one row nobody is about to activate, and that activates nothing.
LEMMA RowMoves ==
    ASSUME PackInv, NEW p \in Pack, NEW row \in PackRow, pack' = [pack EXCEPT ![p] = row],
           UNCHANGED <<faceVars, session, correcting, crossed, strayed>>,
           row.state # "none", row.state = "active" => pack[p].state = "active",
           \A o \in Operator : session[o].pc # "idle" => session[o].pack # p,
           row.predecessor # NoPack =>
               row.predecessor # p /\ pack[row.predecessor].state # "none"
    PROVE  /\ pack' \in [Pack -> PackRow]
           /\ pack'[p] = row /\ \A q \in Pack \ {p} : pack'[q] = pack[q]
           /\ LocksExclusive' /\ PredecessorsCompiled' /\ SessionsHold' /\ OneActive'
           /\ GateStands' /\ CorrectionsCover' /\ ActiveTrusted'
  <1>0. /\ pack \in [Pack -> PackRow] /\ session \in [Operator -> SessionRow]
        /\ LocksExclusive /\ PredecessorsCompiled /\ SessionsHold /\ OneActive
        /\ GateStands /\ CorrectionsCover /\ ActiveTrusted
    BY PackTypes DEF PackInv
  <1>1. /\ pack' \in [Pack -> PackRow]
        /\ pack'[p] = row /\ \A q \in Pack \ {p} : pack'[q] = pack[q]
    BY <1>0
  <1>2. Active' \subseteq Active
    BY <1>1 DEF Active
  <1>3. LocksExclusive'
    BY <1>0 DEF LocksExclusive
  <1>4. PredecessorsCompiled'
    <2> SUFFICES ASSUME NEW q \in Pack, pack'[q].predecessor # NoPack
                 PROVE  pack'[q].predecessor # q /\ pack'[pack'[q].predecessor].state # "none"
      BY DEF PredecessorsCompiled
    <2>1. pack'[q].predecessor \in Pack
      BY <1>1 DEF PackRow
    <2>2. pack'[q].predecessor # q /\ pack[pack'[q].predecessor].state # "none"
      BY <1>0, <1>1 DEF PredecessorsCompiled
    <2> QED BY <1>1, <2>1, <2>2
  <1>5. SessionsHold'
    <2> SUFFICES ASSUME NEW o \in Operator, session[o].pc # "idle"
                 PROVE  pack'[session[o].pack] = pack[session[o].pack]
      BY <1>0 DEF SessionsHold
    <2>1. session[o].pack \in Pack
      BY <1>0 DEF SessionsHold, SessionRow
    <2> QED BY <1>1, <2>1
  <1>6. OneActive'
    BY <1>0, <1>2 DEF OneActive
  <1>7. GateStands'
    BY <1>0 DEF GateStands, Trusted, faceVars
  <1>8. CorrectionsCover'
    BY <1>0, <1>2 DEF CorrectionsCover
  <1>9. ActiveTrusted'
    BY <1>0, <1>2 DEF ActiveTrusted, Trusted, faceVars
  <1> QED BY <1>1, <1>3, <1>4, <1>5, <1>6, <1>7, <1>8, <1>9

\* A step of a session that changes no row: what it must find for the invariant to hold.
LEMMA SessionMoves ==
    ASSUME PackInv, NEW o \in Operator, NEW next \in SessionRow,
           session' = [session EXCEPT ![o] = next],
           UNCHANGED <<pack, faceVars, correcting, rejected>>,
           \A l \in next.locks : l \in session[o].locks \/ ~Held(l),
           next.pc # "idle" =>
               /\ next.pack \in next.locks /\ next.pack \notin rejected
               /\ IF next.pc = "restoring"
                  THEN pack[next.pack].state = "active" /\ pack[next.pack].predecessor # NoPack
                  ELSE pack[next.pack].state \in {"proposed", "retired"},
           next.pc = "activated" =>
               /\ Active \subseteq next.locks
               /\ \A q \in Operator : session[q].pc # "activated"
    PROVE  /\ session' \in [Operator -> SessionRow]
           /\ session'[o] = next /\ \A q \in Operator \ {o} : session'[q] = session[q]
           /\ LocksExclusive' /\ PredecessorsCompiled' /\ SessionsHold' /\ OneActive'
           /\ RejectedUnproved'
  <1>0. /\ session \in [Operator -> SessionRow]
        /\ LocksExclusive /\ PredecessorsCompiled /\ SessionsHold /\ OneActive /\ RejectedUnproved
    BY PackTypes DEF PackInv
  <1>1. /\ session' \in [Operator -> SessionRow]
        /\ session'[o] = next /\ \A q \in Operator \ {o} : session'[q] = session[q]
    BY <1>0
  <1>2. LocksExclusive'
    <2>1. \A q \in Operator \ {o} : next.locks \cap session[q].locks = {}
      BY <1>0 DEF LocksExclusive, Held
    <2>2. \A f \in Face : next.locks \cap correcting[f].locks = {}
      BY <1>0 DEF LocksExclusive, Held
    <2> QED BY <1>0, <1>1, <2>1, <2>2 DEF LocksExclusive
  <1>3. PredecessorsCompiled'
    BY <1>0 DEF PredecessorsCompiled
  <1>4. SessionsHold'
    BY <1>0, <1>1 DEF SessionsHold
  <1>5. OneActive'
    BY <1>0, <1>1 DEF OneActive, Active
  <1>6. RejectedUnproved'
    BY <1>0, <1>1 DEF RejectedUnproved
  <1> QED BY <1>1, <1>2, <1>3, <1>4, <1>5, <1>6

\* Such a step that leaves the history alone and passes nothing through the gate.
LEMMA SessionMovesOn ==
    ASSUME PackInv, NEW o \in Operator, NEW next \in SessionRow,
           session' = [session EXCEPT ![o] = next],
           UNCHANGED <<pack, faceVars, correcting, rejected, crossed, strayed>>,
           \A l \in next.locks : l \in session[o].locks \/ ~Held(l),
           next.pc # "idle" =>
               /\ next.pack \in next.locks /\ next.pack \notin rejected
               /\ IF next.pc = "restoring"
                  THEN pack[next.pack].state = "active" /\ pack[next.pack].predecessor # NoPack
                  ELSE pack[next.pack].state \in {"proposed", "retired"},
           next.pc = "activated" =>
               /\ Active \subseteq next.locks
               /\ \A q \in Operator : session[q].pc # "activated",
           next.pc \in {"indexing", "activated"} =>
               session[o].pc = "indexing" /\ next.pack = session[o].pack
    PROVE  PackInv'
  <1>1. /\ session' \in [Operator -> SessionRow]
        /\ session'[o] = next /\ \A q \in Operator \ {o} : session'[q] = session[q]
        /\ LocksExclusive' /\ PredecessorsCompiled' /\ SessionsHold' /\ OneActive'
        /\ RejectedUnproved'
    BY SessionMoves
  <1>2. PackTypeOK'
    BY <1>1 DEF PackInv, PackTypeOK, PackRow, faceVars, SessionRow, CorrectionRow
  <1>3. GateStands'
    BY <1>1 DEF PackInv, GateStands, Trusted, faceVars
  <1>4. CorrectionsCover' /\ ActiveTrusted'
    BY DEF PackInv, CorrectionsCover, ActiveTrusted, Trusted, faceVars, Active
  <1> QED BY <1>1, <1>2, <1>3, <1>4 DEF PackInv

\* A step of a correction that changes no row.
LEMMA CorrectionMoves ==
    ASSUME PackInv, NEW f \in Face, NEW next \in CorrectionRow,
           correcting' = [correcting EXCEPT ![f] = next], UNCHANGED <<pack, session, rejected>>,
           \A l \in next.locks : ~Held(l)
    PROVE  /\ correcting' \in [Face -> CorrectionRow]
           /\ correcting'[f] = next /\ \A g \in Face \ {f} : correcting'[g] = correcting[g]
           /\ LocksExclusive' /\ PredecessorsCompiled' /\ SessionsHold' /\ OneActive'
           /\ RejectedUnproved'
  <1>0. /\ correcting \in [Face -> CorrectionRow]
        /\ LocksExclusive /\ PredecessorsCompiled /\ SessionsHold /\ OneActive /\ RejectedUnproved
    BY PackTypes DEF PackInv
  <1>1. /\ correcting' \in [Face -> CorrectionRow]
        /\ correcting'[f] = next /\ \A g \in Face \ {f} : correcting'[g] = correcting[g]
    BY <1>0
  <1>2. LocksExclusive'
    <2>1. \A o \in Operator : session[o].locks \cap next.locks = {}
      BY DEF Held
    <2>2. \A g \in Face : next.locks \cap correcting[g].locks = {}
      BY DEF Held
    <2> QED BY <1>0, <1>1, <2>1, <2>2 DEF LocksExclusive
  <1> QED BY <1>0, <1>1, <1>2 DEF PredecessorsCompiled, SessionsHold, OneActive, RejectedUnproved, Active

-----------------------------------------------------------------------------
(* The commands that touch one row *)

LEMMA PersistPackKeeps ==
    ASSUME PackInv, NEW p \in Pack, PersistPack(p) PROVE PackInv'
  <1>1. PICK q \in {NoPack} \cup {r \in Pack : pack[r].state \in {"active", "retired"}} :
            pack' = [pack EXCEPT ![p] = [Uncompiled EXCEPT !.state = "proposed", !.predecessor = q]]
    BY DEF PersistPack
  <1> DEFINE row == [Uncompiled EXCEPT !.state = "proposed", !.predecessor = q]
  <1>2. /\ pack[p].state = "none"
        /\ UNCHANGED <<faceVars, session, correcting, rejected, crossed, strayed>>
        /\ pack' = [pack EXCEPT ![p] = row]
    BY <1>1 DEF PersistPack
  <1>3. row \in PackRow /\ row.state = "proposed" /\ row.predecessor = q
    BY DEF PackRow, Uncompiled
  <1> HIDE DEF row
  <1>4. q # NoPack => q # p /\ pack[q].state # "none"
    BY <1>2
  <1>5. \A o \in Operator : session[o].pc # "idle" => session[o].pack # p
    BY <1>2 DEF PackInv, SessionsHold
  <1>6. /\ pack' \in [Pack -> PackRow]
        /\ pack'[p] = row /\ \A r \in Pack \ {p} : pack'[r] = pack[r]
        /\ LocksExclusive' /\ PredecessorsCompiled' /\ SessionsHold' /\ OneActive'
        /\ GateStands' /\ CorrectionsCover' /\ ActiveTrusted'
    BY <1>2, <1>3, <1>4, <1>5, RowMoves
  <1>7. RejectedUnproved'
    BY <1>2, <1>6, PackTypes DEF PackInv, RejectedUnproved
  <1>8. PackTypeOK'
    BY <1>2, <1>6 DEF PackInv, PackTypeOK, PackRow, faceVars
  <1> QED BY <1>6, <1>7, <1>8 DEF PackInv

\* What an evaluation, a gate and a rejection write: the state may only become retired.
LEMMA VerdictKeeps ==
    ASSUME PackInv, NEW p \in Pack, NEW row \in PackRow, pack' = [pack EXCEPT ![p] = row],
           ~Held(p), UNCHANGED <<faceVars, session, correcting, crossed, strayed>>,
           pack[p].state # "none", row.predecessor = pack[p].predecessor,
           \/ row.state = pack[p].state
           \/ row.state = "retired" /\ pack[p].state \in {"active", "retired"},
           rejected' \in {rejected, rejected \cup {p}},
           p \in rejected' => row.state = "retired" /\ ~row.receipt
    PROVE  PackInv'
  <1>1. \A o \in Operator : session[o].pc # "idle" => session[o].pack # p
    BY DEF PackInv, SessionsHold, Held
  <1>2. row.predecessor # NoPack => row.predecessor # p /\ pack[row.predecessor].state # "none"
    BY DEF PackInv, PredecessorsCompiled
  <1>3. /\ pack' \in [Pack -> PackRow]
        /\ pack'[p] = row /\ \A r \in Pack \ {p} : pack'[r] = pack[r]
        /\ LocksExclusive' /\ PredecessorsCompiled' /\ SessionsHold' /\ OneActive'
        /\ GateStands' /\ CorrectionsCover' /\ ActiveTrusted'
    BY <1>1, <1>2, RowMoves
  <1>4. RejectedUnproved'
    BY <1>1, <1>3, PackTypes DEF PackInv, RejectedUnproved
  <1>5. PackTypeOK'
    BY <1>3 DEF PackInv, PackTypeOK, PackRow, faceVars
  <1> QED BY <1>3, <1>4, <1>5 DEF PackInv

LEMMA PersistEvaluationKeeps ==
    ASSUME PackInv, NEW p \in Pack, NEW status \in {"passed", "failed"}, PersistEvaluation(p, status)
    PROVE  PackInv'
  <1> DEFINE old == pack[p]
             row == [old EXCEPT !.status = status, !.receipt = FALSE]
  <1>1. old \in PackRow /\ pack \in [Pack -> PackRow]
    BY PackTypes DEF PackInv
  <1>2. pack' = [pack EXCEPT ![p] = row]
    BY <1>1 DEF PersistEvaluation
  <1>3. /\ ~Held(p) /\ old.state # "none"
        /\ UNCHANGED <<faceVars, session, correcting, rejected, crossed, strayed>>
        /\ p \in rejected => old.state = "retired"
    BY DEF PersistEvaluation, PackInv, RejectedUnproved
  <1> HIDE DEF old
  <1>4. row \in PackRow /\ row.state = old.state /\ row.predecessor = old.predecessor /\ ~row.receipt
    BY <1>1 DEF PackRow
  <1> HIDE DEF row
  <1> QED BY <1>2, <1>3, <1>4, VerdictKeeps DEF old

LEMMA PersistGateReceiptKeeps ==
    ASSUME PackInv, NEW p \in Pack, NEW status \in {"passed", "failed"}, PersistGateReceipt(p, status)
    PROVE  PackInv'
  <1> DEFINE old == pack[p]
             row == [old EXCEPT !.status = status, !.receipt = TRUE]
  <1>1. old \in PackRow /\ pack \in [Pack -> PackRow]
    BY PackTypes DEF PackInv
  <1>2. pack' = [pack EXCEPT ![p] = row]
    BY <1>1 DEF PersistGateReceipt
  <1>3. /\ ~Held(p) /\ old.state = "proposed"
        /\ UNCHANGED <<faceVars, session, correcting, rejected, crossed, strayed>>
        /\ p \notin rejected
    BY DEF PersistGateReceipt, GateRecordable, PackInv, RejectedUnproved
  <1> HIDE DEF old
  <1>4. row \in PackRow /\ row.state = old.state /\ row.predecessor = old.predecessor
    BY <1>1 DEF PackRow
  <1> HIDE DEF row
  <1> QED BY <1>2, <1>3, <1>4, VerdictKeeps DEF old

LEMMA RetireRejectedKeeps ==
    ASSUME PackInv, NEW p \in Pack, RetireRejected(p) PROVE PackInv'
  <1> DEFINE old == pack[p]
             row == [old EXCEPT !.state = "retired", !.status = "failed", !.receipt = FALSE]
  <1>1. old \in PackRow /\ pack \in [Pack -> PackRow]
    BY PackTypes DEF PackInv
  <1>2. pack' = [pack EXCEPT ![p] = row]
    BY <1>1 DEF RetireRejected
  <1>3. /\ ~Held(p) /\ old.state \in {"active", "retired"} /\ rejected' = rejected \cup {p}
        /\ UNCHANGED <<faceVars, session, correcting, crossed, strayed>>
    BY DEF RetireRejected
  <1> HIDE DEF old
  <1>4. /\ row \in PackRow /\ row.state = "retired" /\ row.predecessor = old.predecessor
        /\ ~row.receipt
    BY <1>1 DEF PackRow
  <1> HIDE DEF row
  <1> QED BY <1>2, <1>3, <1>4, VerdictKeeps DEF old

-----------------------------------------------------------------------------
(* Activation and rollback *)

LEMMA NoSessionFits ==
    /\ NoSession \in SessionRow /\ NoSession.pc = "idle" /\ NoSession.locks = {}
    /\ NoCorrection \in CorrectionRow /\ NoCorrection.pc = "idle" /\ NoCorrection.locks = {}
  BY DEF NoSession, SessionRow, NoCorrection, CorrectionRow

\* A transaction that gives up gives back its locks.
LEMMA GivesUp ==
    ASSUME PackInv, NEW o \in Operator, Proceed(o, NoSession), UNCHANGED <<crossed, strayed>>
    PROVE  PackInv'
  BY NoSessionFits, SessionMovesOn DEF Proceed

LEMMA LockCandidateKeeps ==
    ASSUME PackInv, NEW o \in Operator, NEW p \in Pack, LockCandidate(o, p) PROVE PackInv'
  <1> DEFINE next == [NoSession EXCEPT !.pc = "candidate", !.pack = p, !.locks = {p}]
  <1>1. next \in SessionRow /\ next.pc = "candidate" /\ next.pack = p /\ next.locks = {p}
    BY DEF NoSession, SessionRow
  <1>2. Proceed(o, next) /\ UNCHANGED <<crossed, strayed>>
    BY DEF LockCandidate
  <1> HIDE DEF next
  <1>3. /\ session' = [session EXCEPT ![o] = next]
        /\ UNCHANGED <<pack, faceVars, correcting, rejected, crossed, strayed>>
    BY <1>2 DEF Proceed
  <1>4. ~Held(p) /\ pack[p].state \in {"proposed", "retired"} /\ p \notin rejected
    BY DEF LockCandidate, Proved, PackInv, RejectedUnproved
  <1> QED BY <1>1, <1>3, <1>4, SessionMovesOn

\* The two steps that lock what is active: the pack of the session stays as it is.
LEMMA LockingKeeps ==
    ASSUME PackInv, NEW o \in Operator, NEW next \in SessionRow, Proceed(o, next),
           UNCHANGED <<crossed, strayed>>, session[o].pc \in {"candidate", "locking"}, next.pc \in {"locking", "gating"},
           next.pack = session[o].pack, session[o].locks \subseteq next.locks,
           \A l \in next.locks : l \in session[o].locks \/ ~Held(l)
    PROVE  PackInv'
  <1>1. /\ session' = [session EXCEPT ![o] = next]
        /\ UNCHANGED <<pack, faceVars, correcting, rejected, crossed, strayed>>
    BY DEF Proceed
  <1>2. /\ next.pack \in next.locks /\ next.pack \notin rejected
        /\ pack[next.pack].state \in {"proposed", "retired"}
    BY DEF PackInv, SessionsHold, RejectedUnproved
  <1> QED BY <1>1, <1>2, SessionMovesOn

LEMMA ReadActiveKeeps ==
    ASSUME PackInv, NEW o \in Operator, ReadActive(o) PROVE PackInv'
  <1> DEFINE s == session[o]
             next == [s EXCEPT !.pc = "locking", !.targets = Active]
  <1>1. /\ s.pc = "candidate" /\ Proceed(o, next) /\ s \in SessionRow
        /\ UNCHANGED <<crossed, strayed>>
    BY PackTypes DEF ReadActive, PackInv
  <1> HIDE DEF s
  <1>2. next \in SessionRow /\ next.pc = "locking" /\ next.pack = s.pack /\ next.locks = s.locks
    BY <1>1 DEF SessionRow, Active
  <1> HIDE DEF next
  <1> QED BY <1>1, <1>2, LockingKeeps DEF s

LEMMA LockActiveKeeps ==
    ASSUME PackInv, NEW o \in Operator, LockActive(o) PROVE PackInv'
  <1> DEFINE s == session[o]
             locks == s.locks \cup (s.targets \cap Active)
             next == [s EXCEPT !.pc = "gating", !.targets = {}, !.locks = locks]
  <1>1. /\ s.pc = "locking" /\ \A p \in s.targets : ~Held(p)
        /\ Proceed(o, next) /\ UNCHANGED <<crossed, strayed>> /\ s \in SessionRow
    BY PackTypes DEF LockActive, PackInv
  <1> HIDE DEF s
  <1>2. /\ locks \in SUBSET Pack /\ s.locks \subseteq locks
        /\ \A l \in locks : l \in s.locks \/ ~Held(l)
    BY <1>1 DEF SessionRow, Active
  <1> HIDE DEF locks
  <1>3. next \in SessionRow /\ next.pc = "gating" /\ next.pack = s.pack /\ next.locks = locks
    BY <1>1, <1>2 DEF SessionRow
  <1> HIDE DEF next
  <1> QED BY <1>1, <1>2, <1>3, LockingKeeps DEF s

LEMMA LockRolledBackKeeps ==
    ASSUME PackInv, NEW o \in Operator, NEW p \in Pack, LockRolledBack(o, p) PROVE PackInv'
  <1> DEFINE next == [NoSession EXCEPT !.pc = "restoring", !.pack = p, !.locks = {p}]
  <1>1. next \in SessionRow /\ next.pc = "restoring" /\ next.pack = p /\ next.locks = {p}
    BY DEF NoSession, SessionRow
  <1>2. Proceed(o, next) /\ UNCHANGED <<crossed, strayed>>
    BY DEF LockRolledBack
  <1> HIDE DEF next
  <1>3. /\ session' = [session EXCEPT ![o] = next]
        /\ UNCHANGED <<pack, faceVars, correcting, rejected, crossed, strayed>>
    BY <1>2 DEF Proceed
  <1>4. /\ ~Held(p) /\ pack[p].state = "active" /\ pack[p].predecessor # NoPack /\ p \notin rejected
    BY DEF LockRolledBack, PackInv, RejectedUnproved
  <1> QED BY <1>1, <1>3, <1>4, SessionMovesOn

\* The predecessor is not active, as the pack that is rolled back is; it is proved, so nobody has
\* rejected it.
LEMMA LockPredecessorKeeps ==
    ASSUME PackInv, NEW o \in Operator, LockPredecessor(o) PROVE PackInv'
  <1> DEFINE s == session[o]
             q == pack[s.pack].predecessor
             locks == s.locks \cup {q}
             next == [s EXCEPT !.pc = "gating", !.pack = q, !.locks = locks]
  <1>1. /\ s.pc = "restoring" /\ ~Held(q) /\ UNCHANGED <<crossed, strayed>> /\ s \in SessionRow
        /\ Proceed(o, IF Proved(pack[q]) THEN next ELSE NoSession)
    BY PackTypes DEF LockPredecessor, PackInv
  <1>2. CASE ~Proved(pack[q])
    BY <1>1, <1>2, GivesUp
  <1>3. CASE Proved(pack[q])
    <2>1. s.pack \in Pack /\ pack[s.pack].state = "active" /\ q # NoPack
      BY <1>1 DEF PackInv, SessionsHold, SessionRow
    <2>2. pack[s.pack] \in PackRow
      BY <2>1, PackTypes DEF PackInv
    <2>3. q \in Pack /\ q # s.pack /\ pack[q].state # "none"
      BY <2>1, <2>2 DEF PackInv, PredecessorsCompiled, PackRow
    <2>4. pack[q].state # "active"
      BY <2>1, <2>3 DEF PackInv, OneActive, Active
    <2>5. pack[q].state \in {"proposed", "retired"}
      BY <2>3, <2>4, PackTypes DEF PackInv, PackRow
    <2>6. q \notin rejected
      BY <1>3 DEF Proved, PackInv, RejectedUnproved
    <2>7. session' = [session EXCEPT ![o] = next] /\ UNCHANGED <<pack, faceVars, correcting, rejected>>
      BY <1>1, <1>3 DEF Proceed
    <2> HIDE DEF s, q
    <2>8. locks \in SUBSET Pack
      BY <1>1, <2>3 DEF SessionRow
    <2>9. q \in locks /\ \A l \in locks : l \in s.locks \/ l = q
      OBVIOUS
    <2> HIDE DEF locks
    <2>10. next \in SessionRow /\ next.pc = "gating" /\ next.pack = q /\ next.locks = locks
      BY <1>1, <2>3, <2>8 DEF SessionRow
    <2> HIDE DEF next
    <2> QED BY <1>1, <2>5, <2>6, <2>7, <2>9, <2>10, SessionMovesOn DEF s
  <1> QED BY <1>2, <1>3

\* The gate looks at the faces and, if it lets the pack pass, at the corrections under way: the
\* history starts anew for a pack that is not active.
LEMMA PassGateKeeps ==
    ASSUME PackInv, NEW o \in Operator, PassGate(o) PROVE PackInv'
  <1> DEFINE s == session[o]
             passed == [s EXCEPT !.pc = "indexing"]
             next == IF Gate(s.pack) THEN passed ELSE NoSession
  <1>1. /\ s.pc = "gating" /\ Proceed(o, next) /\ s \in SessionRow
        /\ crossed' = IF \E f \in Evidence[s.pack] : correcting[f].pc # "idle"
                      THEN crossed \cup {s.pack} ELSE crossed \ {s.pack}
        /\ strayed' = strayed \ {s.pack}
    BY PackTypes DEF PassGate, PackInv
  <1>2. /\ s.pack \in s.locks /\ s.pack \in Pack /\ s.pack \notin rejected
        /\ pack[s.pack].state \in {"proposed", "retired"}
    BY <1>1 DEF PackInv, SessionsHold, RejectedUnproved, SessionRow
  <1>3. /\ session' = [session EXCEPT ![o] = next] /\ UNCHANGED <<pack, faceVars, correcting, rejected>>
    BY <1>1 DEF Proceed
  <1>4. \A q \in Operator \ {o} : session[q].pc # "idle" => session[q].pack # s.pack
    BY <1>2 DEF PackInv, SessionsHold, LocksExclusive
  <1> HIDE DEF s
  <1>5. /\ passed \in SessionRow /\ passed.pc = "indexing" /\ passed.pack = s.pack
        /\ passed.locks = s.locks
    BY <1>1 DEF SessionRow
  <1> HIDE DEF passed
  <1>6. /\ next \in SessionRow /\ next.pc \in {"idle", "indexing"} /\ next.locks \subseteq s.locks
        /\ next.pc = "indexing" => /\ next.pack = s.pack /\ next.locks = s.locks
                                   /\ Trusted(s.pack)
    BY <1>5, NoSessionFits DEF Gate
  <1> HIDE DEF next
  <1>7. /\ session' \in [Operator -> SessionRow]
        /\ session'[o] = next /\ \A q \in Operator \ {o} : session'[q] = session[q]
        /\ LocksExclusive' /\ PredecessorsCompiled' /\ SessionsHold' /\ OneActive'
        /\ RejectedUnproved'
    BY <1>2, <1>3, <1>6, SessionMoves DEF s
  <1>8. /\ crossed' \subseteq Pack \cup {NoPack} /\ crossed \ {s.pack} \subseteq crossed'
        /\ strayed' \subseteq Pack \cup {NoPack} /\ strayed \ {s.pack} \subseteq strayed'
    BY <1>1, <1>2 DEF PackInv, PackTypeOK
  <1>9. PackTypeOK'
    BY <1>3, <1>7, <1>8 DEF PackInv, PackTypeOK, SessionRow, faceVars
  <1>10. GateStands'
    <2> SUFFICES ASSUME NEW q \in Operator,
                        session'[q].pc \in {"indexing", "activated"}, session'[q].pack \notin crossed'
                 PROVE  /\ session'[q].pack \notin strayed' => Trusted(session'[q].pack)
                        /\ \A f \in Evidence[session'[q].pack] : correcting[f].pc = "idle"
      BY <1>3 DEF GateStands, Trusted, faceVars
    <2>1. CASE q = o
      BY <1>1, <1>6, <1>7, <2>1
    <2>2. CASE q # o
      <3>1. /\ session[q].pack \notin crossed
            /\ session[q].pack \notin strayed' => session[q].pack \notin strayed
        BY <1>4, <1>7, <1>8, <2>2
      <3> QED BY <1>7, <2>2, <3>1 DEF PackInv, GateStands
    <2> QED BY <2>1, <2>2
  <1>11. Active' = Active /\ s.pack \notin Active
    BY <1>2, <1>3 DEF Active
  <1>12. /\ Active' \ crossed' \subseteq Active \ crossed
         /\ Active' \ (crossed' \cup strayed') \subseteq Active \ (crossed \cup strayed)
    BY <1>8, <1>11
  <1>13. CorrectionsCover' /\ ActiveTrusted'
    BY <1>3, <1>12 DEF PackInv, CorrectionsCover, ActiveTrusted, Trusted, faceVars
  <1> QED BY <1>7, <1>9, <1>10, <1>13 DEF PackInv

LEMMA PassIndexKeeps ==
    ASSUME PackInv, NEW o \in Operator, PassIndex(o) PROVE PackInv'
  <1> DEFINE s == session[o]
             next == [s EXCEPT !.pc = "activated"]
  <1>1. /\ s.pc = "indexing" /\ \A q \in Operator : session[q].pc # "activated"
        /\ Proceed(o, IF Active \subseteq s.locks THEN next ELSE NoSession)
        /\ UNCHANGED <<crossed, strayed>> /\ s \in SessionRow
    BY PackTypes DEF PassIndex, PackInv
  <1>2. CASE ~(Active \subseteq s.locks)
    BY <1>1, <1>2, GivesUp
  <1>3. CASE Active \subseteq s.locks
    <2>1. /\ s.pack \in s.locks /\ s.pack \notin rejected
          /\ pack[s.pack].state \in {"proposed", "retired"}
      BY <1>1 DEF PackInv, SessionsHold, RejectedUnproved
    <2>2. session' = [session EXCEPT ![o] = next] /\ UNCHANGED <<pack, faceVars, correcting, rejected>>
      BY <1>1, <1>3 DEF Proceed
    <2> HIDE DEF s
    <2>3. /\ next \in SessionRow /\ next.pc = "activated" /\ next.pack = s.pack
          /\ next.locks = s.locks
      BY <1>1 DEF SessionRow
    <2> HIDE DEF next
    <2> QED BY <1>1, <1>3, <2>1, <2>2, <2>3, SessionMovesOn DEF s
  <1> QED BY <1>2, <1>3

\* Retiring rows changes nothing but their states.
LEMMA RetireFits ==
    ASSUME PackInv, NEW rows \in SUBSET Pack
    PROVE  /\ Retire(rows) \in [Pack -> PackRow]
           /\ \A p \in Pack : /\ Retire(rows)[p].predecessor = pack[p].predecessor
                              /\ Retire(rows)[p].receipt = pack[p].receipt
                              /\ p \in rows => Retire(rows)[p].state = "retired"
                              /\ p \notin rows => Retire(rows)[p] = pack[p]
  <1>1. ASSUME NEW p \in Pack
        PROVE  /\ [pack[p] EXCEPT !.state = "retired"] \in PackRow
               /\ [pack[p] EXCEPT !.state = "retired"].predecessor = pack[p].predecessor
               /\ [pack[p] EXCEPT !.state = "retired"].receipt = pack[p].receipt
               /\ [pack[p] EXCEPT !.state = "retired"].state = "retired"
               /\ pack[p] \in PackRow
    <2> DEFINE old == pack[p]
    <2>1. old \in PackRow
      BY PackTypes DEF PackInv
    <2> HIDE DEF old
    <2>2. /\ [old EXCEPT !.state = "retired"] \in PackRow
          /\ [old EXCEPT !.state = "retired"].predecessor = old.predecessor
          /\ [old EXCEPT !.state = "retired"].receipt = old.receipt
          /\ [old EXCEPT !.state = "retired"].state = "retired"
      BY <2>1 DEF PackRow
    <2> QED BY <2>1, <2>2 DEF old
  <1> QED BY <1>1 DEF Retire

\* The pack becomes active in the place of every other one; whoever it is, an open correction of
\* one of its faces has crossed it.
LEMMA CommitActivationKeeps ==
    ASSUME PackInv, NEW o \in Operator, CommitActivation(o) PROVE PackInv'
  <1> DEFINE s == session[o]
             p == s.pack
             without == Retire(s.locks \ {p})
  <1>1. /\ s.pc = "activated" /\ s \in SessionRow
        /\ pack' = [without EXCEPT ![p].state = "active"]
        /\ session' = [session EXCEPT ![o] = NoSession]
        /\ UNCHANGED <<faceVars, correcting, rejected, crossed, strayed>>
    BY PackTypes DEF CommitActivation, PackInv
  <1>2. /\ p \in s.locks /\ p \in Pack /\ s.locks \subseteq Pack /\ p \notin rejected
        /\ pack[p].state \in {"proposed", "retired"} /\ Active \subseteq s.locks
        /\ \A q \in Operator \ {o} : session[q].pc # "activated"
    BY <1>1 DEF PackInv, SessionsHold, SessionRow, OneActive, RejectedUnproved
  <1>3. /\ without \in [Pack -> PackRow]
        /\ \A r \in Pack : /\ without[r].predecessor = pack[r].predecessor
                           /\ without[r].receipt = pack[r].receipt
                           /\ r \in s.locks \ {p} => without[r].state = "retired"
                           /\ r \notin s.locks \ {p} => without[r] = pack[r]
    <2>1. s.locks \ {p} \in SUBSET Pack
      BY <1>2
    <2> QED BY <2>1, RetireFits
  <1>4. /\ \A q \in Operator \ {o} : session[q].locks \cap s.locks = {}
        /\ \A f \in Face : correcting[f].locks \cap s.locks = {}
    BY DEF PackInv, LocksExclusive
  <1>5. s.pack \notin crossed => /\ s.pack \notin strayed => Trusted(p)
                                 /\ \A f \in Evidence[p] : correcting[f].pc = "idle"
    BY <1>1 DEF PackInv, GateStands
  <1> HIDE DEF without
  <1>6. /\ session' \in [Operator -> SessionRow]
        /\ session'[o] = NoSession /\ \A q \in Operator \ {o} : session'[q] = session[q]
    BY <1>1, NoSessionFits, PackTypes DEF PackInv
  <1> HIDE DEF s
  <1> HIDE DEF p
  <1>7. /\ pack' \in [Pack -> PackRow]
        /\ pack'[p].state = "active" /\ pack'[p].receipt = pack[p].receipt
        /\ \A r \in Pack : pack'[r].predecessor = pack[r].predecessor
        /\ \A r \in Pack \ {p} : pack'[r] = without[r]
    <2> DEFINE old == without[p]
               row == [old EXCEPT !.state = "active"]
    <2>1. pack' = [without EXCEPT ![p] = row] /\ old \in PackRow
      BY <1>1, <1>2, <1>3
    <2>2. old.predecessor = pack[p].predecessor /\ old.receipt = pack[p].receipt
      BY <1>2, <1>3
    <2> HIDE DEF old
    <2>3. /\ row \in PackRow /\ row.state = "active" /\ row.predecessor = old.predecessor
          /\ row.receipt = old.receipt
      BY <2>1 DEF PackRow
    <2> HIDE DEF row
    <2> QED BY <1>2, <1>3, <2>1, <2>2, <2>3
  <1>8. \A r \in Pack : /\ r \in s.locks \ {p} => pack'[r].state = "retired"
                        /\ r \notin s.locks => pack'[r] = pack[r]
    BY <1>2, <1>3, <1>7
  <1>9. Active' = {p}
    BY <1>2, <1>7, <1>8 DEF Active
  <1>10. PackTypeOK'
    <2>1. /\ accepted \subseteq Face /\ valid \subseteq Face /\ canonical \in [Face -> Face]
          /\ correcting \in [Face -> CorrectionRow] /\ rejected \subseteq Pack
          /\ crossed \subseteq Pack \cup {NoPack} /\ strayed \subseteq Pack \cup {NoPack}
      BY PackTypes DEF PackInv
    <2> QED BY <1>1, <1>6, <1>7, <2>1 DEF PackTypeOK, PackRow, faceVars, SessionRow, CorrectionRow
  <1>11. LocksExclusive'
    BY <1>1, <1>6, NoSessionFits DEF PackInv, LocksExclusive
  <1>12. PredecessorsCompiled'
    <2> SUFFICES ASSUME NEW r \in Pack, pack[r].predecessor # NoPack
                 PROVE  pack[r].predecessor # r /\ pack'[pack[r].predecessor].state # "none"
      BY <1>7 DEF PredecessorsCompiled
    <2> DEFINE q == pack[r].predecessor
    <2>1. q # r /\ pack[q].state # "none" /\ q \in Pack
      BY PackTypes DEF PackInv, PredecessorsCompiled, PackRow
    <2> HIDE DEF q
    <2>2. pack'[q].state # "none"
      <3>1. CASE q = p
        BY <1>7, <3>1
      <3>2. CASE q \in s.locks \ {p}
        BY <1>8, <2>1, <3>2
      <3>3. CASE q \notin s.locks
        BY <1>8, <2>1, <3>3
      <3> QED BY <3>1, <3>2, <3>3
    <2> QED BY <2>1, <2>2 DEF q
  <1>13. SessionsHold'
    <2> SUFFICES ASSUME NEW q \in Operator, q # o, session[q].pc # "idle"
                 PROVE  pack'[session[q].pack] = pack[session[q].pack]
      BY <1>6, NoSessionFits DEF PackInv, SessionsHold
    <2>1. session[q].pack \in session[q].locks /\ session[q].pack \in Pack
      BY PackTypes DEF PackInv, SessionsHold, SessionRow
    <2>2. session[q].pack \notin s.locks
      BY <1>4, <2>1
    <2> QED BY <1>8, <2>1, <2>2
  <1>14. OneActive'
    BY <1>2, <1>6, <1>9, NoSessionFits DEF OneActive
  <1>15. GateStands'
    BY <1>1, <1>6, NoSessionFits DEF PackInv, GateStands, Trusted, faceVars
  <1>16. CorrectionsCover'
    BY <1>1, <1>5, <1>9 DEF CorrectionsCover, p
  <1>17. RejectedUnproved'
    <2> SUFFICES ASSUME NEW r \in rejected
                 PROVE  /\ pack'[r].state = "retired" /\ ~pack'[r].receipt
                        /\ \A q \in Operator : session'[q].pc # "idle" => session'[q].pack # r
      BY <1>1 DEF RejectedUnproved
    <2>1. /\ r \in Pack /\ r # p /\ pack[r].state = "retired" /\ ~pack[r].receipt
          /\ \A q \in Operator : session[q].pc # "idle" => session[q].pack # r
      BY <1>2, PackTypes DEF PackInv, RejectedUnproved
    <2>2. pack'[r].state = "retired" /\ ~pack'[r].receipt
      BY <1>3, <1>7, <1>8, <2>1
    <2> QED BY <1>6, <2>1, <2>2, NoSessionFits
  <1>18. ActiveTrusted'
    BY <1>1, <1>5, <1>9 DEF ActiveTrusted, Trusted, faceVars, p
  <1> QED BY <1>10, <1>11, <1>12, <1>13, <1>14, <1>15, <1>16, <1>17, <1>18 DEF PackInv

LEMMA AbortActivationKeeps ==
    ASSUME PackInv, NEW o \in Operator, AbortActivation(o) PROVE PackInv'
  BY GivesUp DEF AbortActivation

-----------------------------------------------------------------------------
(* Corrections *)

\* A correction that starts crosses the activations that have passed the gate with its face.
LEMMA StartCorrectionKeeps ==
    ASSUME PackInv, NEW f \in Face, StartCorrection(f) PROVE PackInv'
  <1> DEFINE targets == {p \in Active : f \in Evidence[p]}
             next == [NoCorrection EXCEPT !.pc = "retiring", !.targets = targets]
  <1>1. /\ correcting[f].pc = "idle"
        /\ correcting' = [correcting EXCEPT ![f] = next]
        /\ crossed' = crossed \cup {p \in Passed : f \in Evidence[p]}
        /\ UNCHANGED <<pack, faceVars, session, rejected, strayed>>
    BY DEF StartCorrection
  <1>2. targets \in SUBSET Pack
    BY DEF Active
  <1>3. \A p \in Active : f \in Evidence[p] => p \in targets
    OBVIOUS
  <1> HIDE DEF targets
  <1>4. /\ next \in CorrectionRow /\ next.pc = "retiring" /\ next.targets = targets
        /\ next.locks = {}
    BY <1>2 DEF NoCorrection, CorrectionRow
  <1> HIDE DEF next
  <1>5. /\ correcting' \in [Face -> CorrectionRow]
        /\ correcting'[f] = next /\ \A g \in Face \ {f} : correcting'[g] = correcting[g]
        /\ LocksExclusive' /\ PredecessorsCompiled' /\ SessionsHold' /\ OneActive'
        /\ RejectedUnproved'
    BY <1>1, <1>4, CorrectionMoves
  <1>6. crossed \subseteq crossed' /\ crossed' \subseteq Pack \cup {NoPack}
    BY <1>1, PackTypes DEF PackInv, SessionRow, Passed
  <1>7. PackTypeOK'
    BY <1>1, <1>5, <1>6 DEF PackInv, PackTypeOK, CorrectionRow, faceVars
  <1>8. GateStands'
    <2> SUFFICES ASSUME NEW q \in Operator, session[q].pc \in {"indexing", "activated"},
                        session[q].pack \notin crossed'
                 PROVE  /\ session[q].pack \notin strayed => Trusted(session[q].pack)
                        /\ \A g \in Evidence[session[q].pack] : correcting'[g].pc = "idle"
      BY <1>1 DEF GateStands, Trusted, faceVars
    <2>1. f \notin Evidence[session[q].pack]
      BY <1>1 DEF Passed
    <2>2. session[q].pack \in Pack
      BY PackTypes DEF PackInv, SessionsHold, SessionRow
    <2>3. Evidence[session[q].pack] \subseteq Face
      BY <2>2, PackAssumption
    <2> QED BY <1>5, <1>6, <2>1, <2>3 DEF PackInv, GateStands
  <1>9. CorrectionsCover'
    <2> SUFFICES ASSUME NEW g \in Face, NEW p \in Active \ crossed, g \in Evidence[p]
                 PROVE  /\ correcting'[g].pc = "retiring" => p \in correcting'[g].targets
                        /\ correcting'[g].pc = "retired" => p \in correcting'[g].locks
      BY <1>1, <1>6 DEF CorrectionsCover, Active
    <2>1. CASE g = f
      BY <1>3, <1>4, <1>5, <2>1
    <2>2. CASE g # f
      BY <1>5, <2>2 DEF PackInv, CorrectionsCover
    <2> QED BY <2>1, <2>2
  <1>10. ActiveTrusted'
    BY <1>1, <1>6 DEF PackInv, ActiveTrusted, Trusted, faceVars, Active
  <1> QED BY <1>5, <1>7, <1>8, <1>9, <1>10 DEF PackInv

\* A correction under way locks what is still active of its targets, or gives up.
LEMMA CorrectionAdvances ==
    ASSUME PackInv, NEW f \in Face, NEW next \in CorrectionRow,
           correcting' = [correcting EXCEPT ![f] = next],
           UNCHANGED <<pack, faceVars, session, rejected, crossed, strayed>>,
           correcting[f].pc # "idle", \A l \in next.locks : ~Held(l), next.pc # "retiring",
           next.pc = "retired" => \A p \in Active \ crossed : f \in Evidence[p] => p \in next.locks
    PROVE  PackInv'
  <1>1. /\ correcting' \in [Face -> CorrectionRow]
        /\ correcting'[f] = next /\ \A g \in Face \ {f} : correcting'[g] = correcting[g]
        /\ LocksExclusive' /\ PredecessorsCompiled' /\ SessionsHold' /\ OneActive'
        /\ RejectedUnproved'
    BY CorrectionMoves
  <1>2. PackTypeOK'
    BY <1>1 DEF PackInv, PackTypeOK, CorrectionRow, faceVars
  <1>3. GateStands'
    <2> SUFFICES ASSUME NEW q \in Operator, session[q].pc \in {"indexing", "activated"},
                        session[q].pack \notin crossed
                 PROVE  /\ session[q].pack \notin strayed => Trusted(session[q].pack)
                        /\ \A g \in Evidence[session[q].pack] : correcting'[g].pc = "idle"
      BY DEF GateStands, Trusted, faceVars
    <2>1. /\ session[q].pack \notin strayed => Trusted(session[q].pack)
          /\ \A g \in Evidence[session[q].pack] : correcting[g].pc = "idle"
      BY DEF PackInv, GateStands
    <2>2. session[q].pack \in Pack
      BY PackTypes DEF PackInv, SessionsHold, SessionRow
    <2>3. Evidence[session[q].pack] \subseteq Face
      BY <2>2, PackAssumption
    <2> QED BY <1>1, <2>1, <2>3
  <1>4. CorrectionsCover'
    <2> SUFFICES ASSUME NEW g \in Face, NEW p \in Active \ crossed, g \in Evidence[p]
                 PROVE  /\ correcting'[g].pc = "retiring" => p \in correcting'[g].targets
                        /\ correcting'[g].pc = "retired" => p \in correcting'[g].locks
      BY DEF CorrectionsCover, Active
    <2> QED BY <1>1 DEF PackInv, CorrectionsCover
  <1>5. ActiveTrusted'
    BY DEF PackInv, ActiveTrusted, Trusted, faceVars, Active
  <1> QED BY <1>1, <1>2, <1>3, <1>4, <1>5 DEF PackInv

LEMMA LockTargetsKeeps ==
    ASSUME PackInv, NEW f \in Face, LockTargets(f) PROVE PackInv'
  <1> DEFINE old == correcting[f]
             locks == old.targets \cap Active
             next == [old EXCEPT !.pc = "retired", !.targets = {}, !.locks = locks]
  <1>1. old \in CorrectionRow /\ correcting \in [Face -> CorrectionRow]
    BY PackTypes DEF PackInv
  <1>2. /\ old.pc = "retiring" /\ \A p \in old.targets : ~Held(p)
        /\ correcting' = [correcting EXCEPT ![f] = next]
        /\ UNCHANGED <<pack, faceVars, session, rejected, crossed, strayed>>
    BY <1>1 DEF LockTargets
  <1>3. \A p \in Active \ crossed : f \in Evidence[p] => p \in locks
    BY <1>2 DEF PackInv, CorrectionsCover
  <1> HIDE DEF old
  <1>4. locks \in SUBSET Pack /\ \A l \in locks : ~Held(l)
    BY <1>2 DEF Active
  <1> HIDE DEF locks
  <1>5. next \in CorrectionRow /\ next.pc = "retired" /\ next.locks = locks
    BY <1>1, <1>4 DEF CorrectionRow
  <1> HIDE DEF next
  <1> QED BY <1>2, <1>3, <1>4, <1>5, CorrectionAdvances DEF old

LEMMA AbortCorrectionKeeps ==
    ASSUME PackInv, NEW f \in Face, AbortCorrection(f) PROVE PackInv'
  BY NoSessionFits, CorrectionAdvances DEF AbortCorrection

\* The packs that lose their trust here are told by the history.
LEMMA StrayTold ==
    ASSUME NEW packs, Stray(packs), NEW p \in packs \cap (Active \cup Passed), p \notin strayed'
    PROVE  Trusted(p)'
  BY DEF Stray

LEMMA StrayFits ==
    ASSUME PackInv, NEW packs, Stray(packs)
    PROVE  strayed' \subseteq Pack \cup {NoPack} /\ strayed \subseteq strayed'
  BY PackTypes DEF PackInv, Stray, Active, Passed, SessionRow

\* The face is withdrawn with the active packs that contain it, except those the correction crossed;
\* the others are trusted still, or have strayed.
LEMMA CommitCorrectedKeeps ==
    ASSUME PackInv, NEW f \in Face, CommitCorrected(f) PROVE PackInv'
  <1> DEFINE locks == correcting[f].locks
  <1>1. /\ correcting[f].pc = "retired" /\ pack' = Retire(locks) /\ accepted' = accepted \ {f}
        /\ valid' \in {valid, valid \ {f}} /\ Stray({p \in Pack : f \notin Evidence[p]})
        /\ correcting' = [correcting EXCEPT ![f] = NoCorrection]
        /\ UNCHANGED <<canonical, session, rejected, crossed>>
    BY DEF CommitCorrected, Retirees
  <1>2. locks \in SUBSET Pack
    BY PackTypes DEF PackInv, CorrectionRow
  <1>3. /\ pack' \in [Pack -> PackRow]
        /\ \A p \in Pack : /\ pack'[p].predecessor = pack[p].predecessor
                           /\ pack'[p].receipt = pack[p].receipt
                           /\ p \in locks => pack'[p].state = "retired"
                           /\ p \notin locks => pack'[p] = pack[p]
    BY <1>1, <1>2, RetireFits
  <1>4. \A q \in Operator : session[q].locks \cap locks = {}
    BY DEF PackInv, LocksExclusive
  <1>5. \A p \in Active \ crossed : f \in Evidence[p] => p \in locks
    BY <1>1 DEF PackInv, CorrectionsCover
  <1> HIDE DEF locks
  <1>6. /\ correcting' \in [Face -> CorrectionRow]
        /\ correcting'[f] = NoCorrection /\ \A g \in Face \ {f} : correcting'[g] = correcting[g]
    BY <1>1, NoSessionFits, PackTypes DEF PackInv
  <1>7. Active' \subseteq Active \ locks
    BY <1>2, <1>3 DEF Active
  <1>8. PackTypeOK'
    BY <1>1, <1>3, <1>6, StrayFits DEF PackInv, PackTypeOK, PackRow, faceVars, CorrectionRow
  <1>9. LocksExclusive'
    BY <1>1, <1>6, NoSessionFits DEF PackInv, LocksExclusive
  <1>10. PredecessorsCompiled'
    <2> SUFFICES ASSUME NEW r \in Pack, pack[r].predecessor # NoPack
                 PROVE  pack[r].predecessor # r /\ pack'[pack[r].predecessor].state # "none"
      BY <1>3 DEF PredecessorsCompiled
    <2>1. /\ pack[r].predecessor # r /\ pack[pack[r].predecessor].state # "none"
          /\ pack[r].predecessor \in Pack
      BY PackTypes DEF PackInv, PredecessorsCompiled, PackRow
    <2> QED BY <1>3, <2>1
  <1>11. SessionsHold'
    <2> SUFFICES ASSUME NEW q \in Operator, session[q].pc # "idle"
                 PROVE  pack'[session[q].pack] = pack[session[q].pack]
      BY <1>1 DEF PackInv, SessionsHold
    <2>1. session[q].pack \in session[q].locks /\ session[q].pack \in Pack
      BY PackTypes DEF PackInv, SessionsHold, SessionRow
    <2> QED BY <1>3, <1>4, <2>1
  <1>12. OneActive'
    BY <1>1, <1>7 DEF PackInv, OneActive
  <1>13. GateStands'
    <2> SUFFICES ASSUME NEW q \in Operator, session[q].pc \in {"indexing", "activated"},
                        session[q].pack \notin crossed
                 PROVE  /\ session[q].pack \notin strayed' => Trusted(session[q].pack)'
                        /\ \A g \in Evidence[session[q].pack] : correcting'[g].pc = "idle"
      BY <1>1 DEF GateStands, Trusted
    <2>1. /\ \A g \in Evidence[session[q].pack] : correcting[g].pc = "idle"
          /\ session[q].pack \in Passed
      BY DEF PackInv, GateStands, Passed
    <2>2. session[q].pack \in Pack
      BY PackTypes DEF PackInv, SessionsHold, SessionRow
    <2>3. Evidence[session[q].pack] \subseteq Face
      BY <2>2, PackAssumption
    <2>4. f \notin Evidence[session[q].pack]
      BY <1>1, <2>1
    <2> QED BY <1>1, <1>6, <2>1, <2>2, <2>3, <2>4, StrayTold
  <1>14. CorrectionsCover'
    <2> SUFFICES ASSUME NEW g \in Face, NEW p \in Active \ crossed, g \in Evidence[p]
                 PROVE  /\ correcting'[g].pc = "retiring" => p \in correcting'[g].targets
                        /\ correcting'[g].pc = "retired" => p \in correcting'[g].locks
      BY <1>1, <1>7 DEF CorrectionsCover
    <2> QED BY <1>6, NoSessionFits DEF PackInv, CorrectionsCover
  <1>15. RejectedUnproved'
    <2> SUFFICES ASSUME NEW r \in rejected PROVE pack'[r].state = "retired" /\ ~pack'[r].receipt
      BY <1>1 DEF PackInv, RejectedUnproved
    <2>1. r \in Pack /\ pack[r].state = "retired" /\ ~pack[r].receipt
      BY PackTypes DEF PackInv, RejectedUnproved
    <2> QED BY <1>3, <2>1
  <1>16. ActiveTrusted'
    <2> SUFFICES ASSUME NEW p \in Active', p \notin crossed, p \notin strayed' PROVE Trusted(p)'
      BY <1>1 DEF ActiveTrusted
    <2>1. p \in Active \ crossed /\ p \notin locks /\ p \in Pack
      BY <1>7 DEF Active
    <2> QED BY <1>1, <1>5, <2>1, StrayTold
  <1> QED BY <1>8, <1>9, <1>10, <1>11, <1>12, <1>13, <1>14, <1>15, <1>16 DEF PackInv

\* Steps of the faces alone: what loses its trust by them has strayed.
LEMMA FacesMove ==
    ASSUME PackInv, UNCHANGED <<pack, session, correcting, rejected, crossed>>,
           accepted' \subseteq Face, valid' \subseteq Face, canonical' \in [Face -> Face],
           strayed \subseteq strayed', strayed' \subseteq Pack \cup {NoPack},
           \A p \in Active \cup Passed : p \notin strayed' /\ Trusted(p) => Trusted(p)'
    PROVE  PackInv'
  <1>1. PackTypeOK'
    BY DEF PackInv, PackTypeOK
  <1>2. GateStands'
    <2> SUFFICES ASSUME NEW q \in Operator, session[q].pc \in {"indexing", "activated"},
                        session[q].pack \notin crossed
                 PROVE  /\ session[q].pack \notin strayed' => Trusted(session[q].pack)'
                        /\ \A g \in Evidence[session[q].pack] : correcting[g].pc = "idle"
      BY DEF GateStands
    <2>1. /\ session[q].pack \notin strayed => Trusted(session[q].pack)
          /\ \A g \in Evidence[session[q].pack] : correcting[g].pc = "idle"
          /\ session[q].pack \in Passed
      BY DEF PackInv, GateStands, Passed
    <2> QED BY <2>1
  <1>3. ActiveTrusted'
    <2> SUFFICES ASSUME NEW p \in Active, p \notin crossed, p \notin strayed' PROVE Trusted(p)'
      BY DEF ActiveTrusted, Active
    <2> QED BY DEF PackInv, ActiveTrusted
  <1>4. /\ LocksExclusive' /\ PredecessorsCompiled' /\ SessionsHold' /\ OneActive'
        /\ CorrectionsCover' /\ RejectedUnproved'
    BY DEF PackInv, LocksExclusive, PredecessorsCompiled, SessionsHold, OneActive, CorrectionsCover,
       RejectedUnproved, Active
  <1> QED BY <1>1, <1>2, <1>3, <1>4 DEF PackInv

\* Faces that are accepted, or valid again, only add to the trust.
LEMMA FacesGainedKeep ==
    ASSUME PackInv, NEW f \in Face, AcceptFace(f) \/ RestoreFace(f) PROVE PackInv'
  <1>1. /\ UNCHANGED <<pack, session, correcting, rejected, crossed>> /\ strayed' = strayed
        /\ canonical' = canonical
        /\ accepted \subseteq accepted' /\ accepted' \subseteq accepted \cup {f}
        /\ valid \subseteq valid' /\ valid' \subseteq valid \cup {f}
    BY DEF AcceptFace, RestoreFace
  <1>2. /\ accepted' \subseteq Face /\ valid' \subseteq Face /\ canonical' \in [Face -> Face]
        /\ strayed' \subseteq Pack \cup {NoPack}
    BY <1>1, PackTypes DEF PackInv
  <1>3. \A p \in Active \cup Passed : Trusted(p) => Trusted(p)'
    BY <1>1 DEF Trusted
  <1> QED BY <1>1, <1>2, <1>3, FacesMove

\* Rejections and new groups take trust away where no trigger looks.
LEMMA FacesLostKeep ==
    ASSUME PackInv, RefreshPhysicalFaces \/ \E f \in Face : RejectFace(f) PROVE PackInv'
  <1>1. /\ UNCHANGED <<pack, session, correcting, rejected, crossed, accepted>> /\ Stray(Pack)
        /\ valid' \subseteq valid
        /\ canonical' = canonical \/ canonical' \in Groupings
    BY DEF RefreshPhysicalFaces, RejectFace
  <1>2. /\ accepted' \subseteq Face /\ valid' \subseteq Face /\ canonical' \in [Face -> Face]
    BY <1>1, PackTypes DEF PackInv, Groupings
  <1>3. ASSUME NEW p \in Active \cup Passed, p \notin strayed' PROVE Trusted(p)'
    <2>1. p \in Pack
      BY PackTypes DEF PackInv, Active, Passed, SessionsHold, SessionRow
    <2> QED BY <1>1, <1>3, <2>1, StrayTold
  <1> QED BY <1>1, <1>2, <1>3, StrayFits, FacesMove

-----------------------------------------------------------------------------

LEMMA PackStep == PackInv /\ [PackNext]_packVars => PackInv'
  <1> SUFFICES ASSUME PackInv, [PackNext]_packVars PROVE PackInv'
    OBVIOUS
  <1>1. ASSUME NEW p \in Pack, PersistPack(p) \/ RetireRejected(p) PROVE PackInv'
    BY <1>1, PersistPackKeeps, RetireRejectedKeeps
  <1>2. ASSUME NEW p \in Pack, NEW status \in {"passed", "failed"},
               PersistEvaluation(p, status) \/ PersistGateReceipt(p, status)
        PROVE  PackInv'
    BY <1>2, PersistEvaluationKeeps, PersistGateReceiptKeeps
  <1>3. ASSUME NEW o \in Operator, NEW p \in Pack, LockCandidate(o, p) \/ LockRolledBack(o, p)
        PROVE  PackInv'
    BY <1>3, LockCandidateKeeps, LockRolledBackKeeps
  <1>4. ASSUME NEW o \in Operator,
               \/ ReadActive(o) \/ LockActive(o) \/ LockPredecessor(o) \/ PassGate(o)
               \/ PassIndex(o) \/ CommitActivation(o) \/ AbortActivation(o)
        PROVE  PackInv'
    BY <1>4, ReadActiveKeeps, LockActiveKeeps, LockPredecessorKeeps, PassGateKeeps, PassIndexKeeps,
       CommitActivationKeeps, AbortActivationKeeps
  <1>5. ASSUME NEW f \in Face,
               \/ StartCorrection(f) \/ LockTargets(f) \/ CommitCorrected(f)
               \/ AbortCorrection(f) \/ AcceptFace(f) \/ RejectFace(f) \/ RestoreFace(f)
        PROVE  PackInv'
    BY <1>5, StartCorrectionKeeps, LockTargetsKeeps, CommitCorrectedKeeps, AbortCorrectionKeeps,
       FacesGainedKeep, FacesLostKeep
  <1>6. CASE RefreshPhysicalFaces
    BY <1>6, FacesLostKeep
  <1>7. CASE UNCHANGED packVars
    BY <1>7 DEF packVars, faceVars, PackInv, PackTypeOK, LocksExclusive, PredecessorsCompiled,
       SessionsHold, OneActive, GateStands, CorrectionsCover, RejectedUnproved, ActiveTrusted, Active,
       Trusted
  <1> QED BY <1>1, <1>2, <1>3, <1>4, <1>5, <1>6, <1>7 DEF PackNext

\* The inductive invariant of the SourcePacks, for every number of them and of sessions.
THEOREM PackInvariant == PackSpec => []PackInv
  BY PackInitially, PackStep, PTL DEF PackSpec

\* The rows and the open transactions have their types.
THEOREM PackTyped == PackSpec => []PackTypeOK
  BY PackInvariant, PTL DEF PackInv

\* Every face of an active pack is trusted, by a claim of its physical face, unless a correction
\* crossed the activation or the trust was lost where no trigger looks.
THEOREM PacksTrusted == PackSpec => []ActiveTrusted
  BY PackInvariant, PTL DEF PackInv

\* A pack whose policy was rejected stays retired.
THEOREM PacksStayRetired == PackSpec => []RejectedStaysRetired
  <1>1. PackInv => RejectedStaysRetired
    BY DEF PackInv, RejectedUnproved, RejectedStaysRetired
  <1> QED BY <1>1, PackInvariant, PTL

\* There is never more than one active pack: recognition has one model to ask.
THEOREM PacksAreOne == PackSpec => [](\A p, q \in Active : p = q)
  <1>1. PackInv => \A p, q \in Active : p = q
    BY DEF PackInv, OneActive
  <1> QED BY <1>1, PackInvariant, PTL

-----------------------------------------------------------------------------
(***************************************************************************)
(* A pack answers the corrections that were folded into its requests in    *)
(* time, for any corrections, workers and limits.  The key share of a      *)
(* folded insert keeps the request it names from being claimed, so that    *)
(* nothing timely is under way into a request that is being processed; and *)
(* a worker completes only what it still owns.                             *)
(***************************************************************************)

RequestRow == [state : {"none", "pending", "processing", "completed", "failed", "superseded"},
               into : Correction \cup {NoRequest}, owner : Rebuilder \cup {NoOwner},
               attempts : 0..MaxTries, lapsed : BOOLEAN,
               by : Rebuilder \cup {NoOwner, TheOwner}, pack : SUBSET Correction]
TransactionRow == [pc : {"idle", "enqueueing", "inserted", "committed"},
                  found : Correction \cup {NoRequest}, timely : BOOLEAN]
RebuilderRow == [pc : {"idle", "claiming", "claimed", "compiled"},
                 batch : SUBSET Correction, snapshot : SUBSET Correction]

\* A request exists once its correction has committed, folded into the one that was found.
Made ==
    \A c \in Correction :
        /\ request[c].state = "none" <=> correction[c].pc # "committed"
        /\ request[c].state = "superseded" => request[c].into = correction[c].found
        /\ request[c].state = "superseded" <=>
                correction[c].pc = "committed" /\ correction[c].found # NoRequest
        /\ request[c].by # NoOwner => request[c].state = "completed"

\* What a correction found has been made.
FoundMade ==
    \A c \in Correction :
        correction[c].pc # "idle" /\ correction[c].found # NoRequest =>
            request[correction[c].found].state # "none"

\* The rows of an open claim are open requests; no two claims and no key share hold one.
ClaimsLock ==
    \A w \in Rebuilder :
        /\ \A r \in rebuilder[w].batch : request[r].state # "none"
        /\ rebuilder[w].pc = "claiming" => \A r \in rebuilder[w].batch :
                /\ request[r].state \in {"pending", "processing"} /\ ~KeyShared(r)
                /\ \A v \in Rebuilder : rebuilder[v].pc = "claiming" /\ r \in rebuilder[v].batch => v = w

\* No timely insert is under way into a request that is processed, or that a worker completed.
TimelyInsert ==
    \A c \in Correction :
        correction[c].pc = "inserted" /\ correction[c].timely /\ correction[c].found # NoRequest =>
            /\ request[correction[c].found].state # "processing"
            /\ request[correction[c].found].by \notin Rebuilder

\* A worker has seen what is timely in the requests it still owns.
TimelySeen ==
    \A w \in Rebuilder : rebuilder[w].pc = "compiled" =>
        \A r \in Kept(w), c \in Committed :
            correction[c].timely /\ Answering(c) = r => c \in rebuilder[w].snapshot

RebuildInv ==
    /\ RebuildTypeOK /\ Made /\ FoundMade /\ ClaimsLock
    /\ TimelyInsert /\ TimelySeen /\ TimelyCorrectionPacked

-------------------------------------------------------------------------------

LEMMA Distinguished ==
    /\ NoRequest \notin Correction /\ NoOwner \notin Rebuilder /\ TheOwner \notin Rebuilder
    /\ NoOwner # TheOwner
BY RebuildAssumption DEF NoRequest, NoOwner, TheOwner

LEMMA RowsTyped ==
    ASSUME RebuildTypeOK
    PROVE  /\ request \in [Correction -> RequestRow] /\ correction \in [Correction -> TransactionRow]
           /\ rebuilder \in [Rebuilder -> RebuilderRow]
BY DEF RebuildTypeOK, RequestRow, TransactionRow, RebuilderRow

LEMMA NewRowsTyped ==
    /\ NewRequest \in RequestRow /\ Unmade \in RequestRow /\ NewCorrection \in TransactionRow
    /\ \A r \in Correction : Folded(r) \in RequestRow
    /\ IdleRebuilder \in RebuilderRow
<1>1. 0 \in 0..MaxTries
  <2>1. MaxTries \in Nat
    BY RebuildAssumption
  <2> QED
    BY <2>1
<1>2. NewRequest \in RequestRow
  BY <1>1 DEF NewRequest, RequestRow
<1> QED
  BY <1>2 DEF Unmade, NewCorrection, Folded, IdleRebuilder, RequestRow, TransactionRow, RebuilderRow

\* Who answers a committed correction.
LEMMA AnsweringIs ==
    ASSUME RebuildTypeOK, Made, FoundMade, NEW c \in Committed
    PROVE  /\ c \in Correction /\ Answering(c) \in Correction
           /\ Answering(c) = IF correction[c].found = NoRequest THEN c ELSE correction[c].found
           /\ request[Answering(c)].state # "none"
<1>1. c \in Correction /\ correction[c].pc = "committed" /\ request[c].state # "none"
  BY DEF Committed, Made
<1>2. correction[c].found \in Correction \cup {NoRequest}
  BY <1>1 DEF RebuildTypeOK
<1> QED
  BY <1>1, <1>2 DEF Answering, Made, FoundMade

-------------------------------------------------------------------------------
(* Steps that change no request *)

\* Requests and corrections stay; workers drop batches, or compile.
LEMMA WorkersOnly ==
    ASSUME RebuildInv, UNCHANGED <<request, correction>>, NEW w \in Rebuilder,
           NEW row \in RebuilderRow, rebuilder' = [rebuilder EXCEPT ![w] = row],
           row.batch \subseteq rebuilder[w].batch, row.pc # "claiming",
           row.pc = "compiled" => row.snapshot = Committed
    PROVE  ClaimsLock' /\ TimelyInsert' /\ TimelySeen' /\ Made' /\ FoundMade'
           /\ TimelyCorrectionPacked' /\ rebuilder' \in [Rebuilder -> RebuilderRow]
<1> USE DEF RebuildInv
<1>1. /\ rebuilder' \in [Rebuilder -> RebuilderRow] /\ rebuilder'[w] = row
      /\ \A v \in Rebuilder : v # w => rebuilder'[v] = rebuilder[v]
  BY RowsTyped
<1>2. Made' /\ FoundMade' /\ TimelyInsert' /\ TimelyCorrectionPacked'
  BY DEF Made, FoundMade, TimelyInsert, TimelyCorrectionPacked, Committed, Answering
<1>3. \A r : KeyShared(r)' <=> KeyShared(r)
  BY DEF KeyShared
<1>4. ClaimsLock'
  BY <1>1, <1>3 DEF ClaimsLock
<1>5. TimelySeen'
  <2> SUFFICES ASSUME NEW v \in Rebuilder, rebuilder'[v].pc = "compiled", NEW r \in Kept(v)',
                      NEW c \in Committed, correction[c].timely, Answering(c) = r
               PROVE  c \in rebuilder'[v].snapshot
    BY DEF TimelySeen, Committed, Answering
  <2>1. CASE v = w
    BY <1>1, <2>1
  <2>2. CASE v # w
    BY <1>1, <2>2 DEF TimelySeen, Kept, Owned
  <2> QED
    BY <2>1, <2>2
<1> QED
  BY <1>1, <1>2, <1>4, <1>5

-------------------------------------------------------------------------------
(* Steps that change requests, or corrections *)

\* What changes of open requests leave as it was.
LEMMA RequestsChange ==
    ASSUME RebuildInv, UNCHANGED correction,
           \A r \in Correction :
                /\ request'[r].state = "none" <=> request[r].state = "none"
                /\ request'[r].state = "superseded" <=> request[r].state = "superseded"
                /\ request'[r].into = request[r].into
                /\ request'[r].by # NoOwner => request'[r].state = "completed"
    PROVE  /\ Made' /\ FoundMade' /\ Committed' = Committed
           /\ \A c \in Correction : Answering(c)' = Answering(c)
           /\ \A r : KeyShared(r)' <=> KeyShared(r)
<1> USE DEF RebuildInv
<1>1. Made'
  BY DEF Made
<1>2. FoundMade'
  BY DEF FoundMade, RebuildTypeOK
<1>3. \A c \in Correction : Answering(c)' = Answering(c)
  BY DEF Answering
<1> QED
  BY <1>1, <1>2, <1>3 DEF Committed, KeyShared

LEMMA ReadPendingKeeps ==
    ASSUME RebuildInv, NEW c \in Correction, ReadPending(c)
    PROVE  RebuildInv'
<1> USE DEF RebuildInv
<1>1. PICK found \in Correction \cup {NoRequest} :
            /\ found # NoRequest => request[found].state = "pending"
            /\ correction' = [correction EXCEPT ![c].pc = "enqueueing", ![c].found = found]
  BY DEF ReadPending, InState
<1>2. UNCHANGED <<request, rebuilder, compiler, faults>> /\ enqueueLock' = c /\ correction[c].pc = "idle"
  BY DEF ReadPending
<1>3. /\ correction' \in [Correction -> TransactionRow]
      /\ correction'[c].pc = "enqueueing" /\ correction'[c].found = found
      /\ \A d \in Correction : d # c => correction'[d] = correction[d]
  BY <1>1, RowsTyped DEF TransactionRow
<1>4. RebuildTypeOK'
  BY <1>2, <1>3 DEF RebuildTypeOK, TransactionRow
<1>5. Committed' = Committed /\ \A r : KeyShared(r)' <=> KeyShared(r)
  BY <1>2, <1>3 DEF Committed, KeyShared
<1>6. Made' /\ FoundMade'
  BY <1>1, <1>2, <1>3 DEF Made, FoundMade
<1>7. ClaimsLock'
  BY <1>2, <1>5 DEF ClaimsLock
<1>8. TimelyInsert'
  BY <1>2, <1>3 DEF TimelyInsert
<1>9. TimelySeen' /\ TimelyCorrectionPacked'
  BY <1>2, <1>3, <1>5 DEF TimelySeen, TimelyCorrectionPacked, Kept, Owned, Answering, Committed
<1> QED
  BY <1>4, <1>6, <1>7, <1>8, <1>9

LEMMA InsertRequestKeeps ==
    ASSUME RebuildInv, NEW c \in Correction, InsertRequest(c)
    PROVE  RebuildInv'
<1> USE DEF RebuildInv
<1> DEFINE found == correction[c].found
<1>1. PICK timely \in BOOLEAN :
            /\ timely => found = NoRequest \/ request[found].state = "pending"
            /\ correction' = [correction EXCEPT ![c].pc = "inserted", ![c].timely = timely]
  BY DEF InsertRequest
<1>2. UNCHANGED <<request, rebuilder, compiler, faults, enqueueLock>>
      /\ correction[c].pc = "enqueueing" /\ (found = NoRequest \/ ~Locked(found))
  BY DEF InsertRequest
<1>3. /\ correction' \in [Correction -> TransactionRow] /\ found \in Correction \cup {NoRequest}
      /\ correction'[c].pc = "inserted" /\ correction'[c].found = found
      /\ correction'[c].timely = timely
      /\ \A d \in Correction : d # c => correction'[d] = correction[d]
  BY <1>1, RowsTyped DEF TransactionRow
<1>4. RebuildTypeOK'
  BY <1>2, <1>3 DEF RebuildTypeOK, TransactionRow
<1>5. Committed' = Committed /\ \A r : KeyShared(r)' => KeyShared(r) \/ r = found
  BY <1>2, <1>3 DEF Committed, KeyShared
<1>6. Made' /\ FoundMade'
  BY <1>2, <1>3 DEF Made, FoundMade
<1>7. ClaimsLock'
  <2>1. \A w \in Rebuilder : \A r \in rebuilder[w].batch : r # NoRequest
    BY Distinguished DEF RebuildTypeOK
  <2>2. \A w \in Rebuilder : rebuilder[w].pc = "claiming" => found \notin rebuilder[w].batch
    BY <1>2, <2>1 DEF Locked
  <2> QED
    BY <1>2, <1>5, <2>2 DEF ClaimsLock
<1>8. TimelyInsert'
  <2>1. found # NoRequest /\ timely => /\ request[found].state = "pending"
                                       /\ request[found].by \notin Rebuilder
    BY <1>1, <1>3, Distinguished DEF Made
  <2> QED
    BY <1>2, <1>3, <2>1 DEF TimelyInsert
<1>9. TimelySeen' /\ TimelyCorrectionPacked'
  <2>1. \A d \in Committed : correction'[d] = correction[d]
    BY <1>2, <1>3 DEF Committed
  <2> QED
    BY <1>2, <1>5, <2>1 DEF TimelySeen, TimelyCorrectionPacked, Kept, Owned, Answering
<1> QED
  BY <1>4, <1>6, <1>7, <1>8, <1>9

LEMMA RollBackKeeps ==
    ASSUME RebuildInv, NEW c \in Correction, RollBackCorrection(c)
    PROVE  RebuildInv'
<1> USE DEF RebuildInv
<1>1. UNCHANGED <<request, rebuilder, compiler>> /\ enqueueLock' = NoRequest /\ Fault
      /\ correction' = [correction EXCEPT ![c] = NewCorrection]
      /\ correction[c].pc \in {"enqueueing", "inserted"}
  BY DEF RollBackCorrection
<1>2. /\ correction' \in [Correction -> TransactionRow] /\ correction'[c].pc = "idle"
      /\ \A d \in Correction : d # c => correction'[d] = correction[d]
  BY <1>1, RowsTyped, NewRowsTyped DEF NewCorrection
<1>3. faults' \in 0..MaxFaults
  <2>1. MaxFaults \in Nat /\ faults \in 0..MaxFaults
    BY RebuildAssumption DEF RebuildTypeOK
  <2> QED
    BY <1>1, <2>1 DEF Fault
<1>4. RebuildTypeOK'
  BY <1>1, <1>2, <1>3 DEF RebuildTypeOK, TransactionRow
<1>5. Committed' = Committed /\ \A r : KeyShared(r)' => KeyShared(r)
  BY <1>1, <1>2 DEF Committed, KeyShared
<1>6. Made' /\ FoundMade' /\ ClaimsLock' /\ TimelyInsert'
  BY <1>1, <1>2, <1>5 DEF Made, FoundMade, ClaimsLock, TimelyInsert
<1>7. TimelySeen' /\ TimelyCorrectionPacked'
  <2>1. \A d \in Committed : correction'[d] = correction[d]
    BY <1>1, <1>2 DEF Committed
  <2> QED
    BY <1>1, <1>5, <2>1 DEF TimelySeen, TimelyCorrectionPacked, Kept, Owned, Answering
<1> QED
  BY <1>4, <1>6, <1>7

\* The request of a correction appears, and is not one that anybody works on.
LEMMA CommitCorrectionKeeps ==
    ASSUME RebuildInv, NEW c \in Correction, CommitCorrection(c)
    PROVE  RebuildInv'
<1> USE DEF RebuildInv
<1> DEFINE found == correction[c].found
<1>1. /\ UNCHANGED <<rebuilder, compiler, faults>> /\ enqueueLock' = NoRequest
      /\ correction' = [correction EXCEPT ![c].pc = "committed"] /\ correction[c].pc = "inserted"
      /\ request' = [request EXCEPT ![c] = IF found = NoRequest THEN NewRequest ELSE Folded(found)]
  BY DEF CommitCorrection
<1>2. /\ correction' \in [Correction -> TransactionRow] /\ found \in Correction \cup {NoRequest}
      /\ correction'[c].pc = "committed" /\ correction'[c].found = found
      /\ correction'[c].timely = correction[c].timely
      /\ \A d \in Correction : d # c => correction'[d] = correction[d]
  BY <1>1, RowsTyped DEF TransactionRow
<1>3. /\ request' \in [Correction -> RequestRow]
      /\ request'[c].state = IF found = NoRequest THEN "pending" ELSE "superseded"
      /\ found # NoRequest => request'[c].into = found
      /\ request'[c].by = NoOwner
      /\ \A d \in Correction : d # c => request'[d] = request[d]
  BY <1>1, <1>2, RowsTyped, NewRowsTyped DEF NewRequest, Folded
<1>4. request[c].state = "none" /\ (found # NoRequest => found # c /\ request[found].state # "none")
  BY <1>1 DEF Made, FoundMade
<1>5. RebuildTypeOK'
  BY <1>1, <1>2, <1>3 DEF RebuildTypeOK, TransactionRow, RequestRow
<1>6. Committed' = Committed \cup {c} /\ c \notin Committed /\ \A r : KeyShared(r)' => KeyShared(r)
  BY <1>1, <1>2 DEF Committed, KeyShared
<1>7. Made'
  BY <1>1, <1>2, <1>3 DEF Made
<1>8. FoundMade'
  <2> SUFFICES ASSUME NEW d \in Correction, correction'[d].pc # "idle", correction'[d].found # NoRequest
               PROVE  request'[correction'[d].found].state # "none"
    BY DEF FoundMade
  <2>1. correction[d].pc # "idle" /\ correction'[d].found = correction[d].found
    BY <1>1, <1>2
  <2>2. correction[d].found \in Correction /\ request[correction[d].found].state # "none"
    BY <2>1 DEF FoundMade, RebuildTypeOK
  <2> QED
    BY <1>3, <1>4, <2>1, <2>2
<1>9. \A w \in Rebuilder : c \notin rebuilder[w].batch /\ rebuilder[w].batch \subseteq Correction
  BY <1>4 DEF ClaimsLock, RebuildTypeOK
<1>10. ClaimsLock'
  BY <1>1, <1>3, <1>6, <1>9 DEF ClaimsLock
<1>11. TimelyInsert'
  <2> SUFFICES ASSUME NEW d \in Correction, correction'[d].pc = "inserted", correction'[d].timely,
                      correction'[d].found # NoRequest
               PROVE  /\ request'[correction'[d].found].state # "processing"
                      /\ request'[correction'[d].found].by \notin Rebuilder
    BY DEF TimelyInsert
  <2>1. d # c /\ correction'[d] = correction[d]
    BY <1>2
  <2>2. correction[d].found \in Correction /\ correction[d].found # c
    BY <1>4, <2>1 DEF FoundMade, RebuildTypeOK
  <2> QED
    BY <1>3, <2>1, <2>2 DEF TimelyInsert
<1>12. \A d \in Committed : /\ d \in Correction /\ Answering(d)' = Answering(d)
                            /\ Answering(d) \in Correction /\ Answering(d) # c
                            /\ correction'[d] = correction[d]
  <2> SUFFICES ASSUME NEW d \in Committed
               PROVE  /\ d \in Correction /\ Answering(d)' = Answering(d)
                      /\ Answering(d) \in Correction /\ Answering(d) # c
                      /\ correction'[d] = correction[d]
    OBVIOUS
  <2>1. d # c /\ d \in Correction
    BY <1>6 DEF Committed
  <2>2. Answering(d)' = Answering(d)
    BY <1>3, <2>1 DEF Answering
  <2> QED
    BY <1>2, <1>4, <2>1, <2>2, AnsweringIs
<1>13. Answering(c)' = IF found = NoRequest THEN c ELSE found
  BY <1>3 DEF Answering
<1>14. TimelySeen'
  <2> SUFFICES ASSUME NEW w \in Rebuilder, rebuilder[w].pc = "compiled", NEW r \in Kept(w)',
                      NEW d \in Committed', correction'[d].timely, Answering(d)' = r
               PROVE  d \in rebuilder[w].snapshot
    BY <1>1 DEF TimelySeen
  <2>1. r \in Kept(w) /\ r # c /\ request[r].state = "processing" /\ r \in Correction
    BY <1>1, <1>3, <1>9 DEF Kept, Owned
  <2>2. CASE d = c
    BY <1>1, <1>2, <1>13, <2>1, <2>2 DEF TimelyInsert
  <2>3. CASE d # c
    BY <1>6, <1>12, <2>1, <2>3 DEF TimelySeen
  <2> QED
    BY <2>2, <2>3
<1>15. TimelyCorrectionPacked'
  <2> SUFFICES ASSUME NEW d \in Committed', correction'[d].timely,
                      request'[Answering(d)'].by \in Rebuilder
               PROVE  d \in request'[Answering(d)'].pack
    BY DEF TimelyCorrectionPacked
  <2>1. CASE d = c
    <3>1. found # NoRequest
      BY <1>3, <1>13, <2>1, Distinguished
    <3>2. request[found].by \in Rebuilder
      BY <1>2, <1>3, <1>4, <1>13, <2>1, <3>1
    <3> QED
      BY <1>1, <1>2, <2>1, <3>1, <3>2 DEF TimelyInsert
  <2>2. CASE d # c
    BY <1>3, <1>6, <1>12, <2>2 DEF TimelyCorrectionPacked
  <2> QED
    BY <2>1, <2>2
<1> QED
  BY <1>5, <1>7, <1>8, <1>10, <1>11, <1>14, <1>15

-------------------------------------------------------------------------------
(* Workers *)

LEMMA OpenClaimKeeps ==
    ASSUME RebuildInv, NEW w \in Rebuilder, OpenClaim(w)
    PROVE  RebuildInv'
<1> USE DEF RebuildInv
<1> DEFINE batch == {r \in InState("pending") \cup Recovered : ~Locked(r) /\ ~KeyShared(r)}
<1>1. /\ UNCHANGED <<request, correction, enqueueLock, compiler, faults>>
      /\ rebuilder' = [rebuilder EXCEPT ![w] = [IdleRebuilder EXCEPT !.pc = "claiming", !.batch = batch]]
      /\ rebuilder[w].pc = "idle"
  BY DEF OpenClaim
<1>2. \A r \in batch : /\ r \in Correction /\ request[r].state \in {"pending", "processing"}
                       /\ ~KeyShared(r) /\ ~Locked(r)
  BY DEF InState, Recovered
<1> HIDE DEF batch
<1>3. /\ rebuilder' \in [Rebuilder -> RebuilderRow]
      /\ rebuilder'[w].pc = "claiming" /\ rebuilder'[w].batch = batch
      /\ \A v \in Rebuilder : v # w => rebuilder'[v] = rebuilder[v]
  <2>1. batch \in SUBSET Correction
    BY <1>2
  <2> QED
    BY <1>1, <2>1, RowsTyped DEF IdleRebuilder, RebuilderRow
<1>4. RebuildTypeOK'
  BY <1>1, <1>3 DEF RebuildTypeOK, RebuilderRow
<1>5. Committed' = Committed /\ \A r : KeyShared(r)' <=> KeyShared(r)
  BY <1>1 DEF Committed, KeyShared
<1>6. Made' /\ FoundMade' /\ TimelyInsert' /\ TimelyCorrectionPacked'
  BY <1>1, <1>5 DEF Made, FoundMade, TimelyInsert, TimelyCorrectionPacked, Answering
<1>7. ClaimsLock'
  BY <1>1, <1>2, <1>3, <1>5 DEF ClaimsLock, Locked
<1>8. TimelySeen'
  BY <1>1, <1>3, <1>5 DEF TimelySeen, Kept, Owned, Answering
<1> QED
  BY <1>4, <1>6, <1>7, <1>8

LEMMA LeasedTyped ==
    ASSUME NEW row \in RequestRow, NEW w \in Rebuilder
    PROVE  /\ Leased(row, w) \in RequestRow
           /\ Leased(row, w).state = "processing" /\ Leased(row, w).owner = w
           /\ Leased(row, w).by = row.by /\ Leased(row, w).into = row.into
           /\ Leased(row, w).pack = row.pack
<1> DEFINE n == IF row.attempts < MaxTries THEN row.attempts + 1 ELSE row.attempts
<1>1. n \in 0..MaxTries
  <2>1. MaxTries \in Nat
    BY RebuildAssumption
  <2>2. row.attempts \in 0..MaxTries
    BY DEF RequestRow
  <2> QED
    BY <2>1, <2>2
<1>2. Leased(row, w) = [row EXCEPT !.state = "processing", !.owner = w, !.lapsed = FALSE, !.attempts = n]
  BY DEF Leased, RequestRow
<1> HIDE DEF n
<1> QED
  BY <1>1, <1>2 DEF RequestRow

LEMMA CommitClaimKeeps ==
    ASSUME RebuildInv, NEW w \in Rebuilder, CommitClaim(w)
    PROVE  RebuildInv'
<1> USE DEF RebuildInv
<1> DEFINE batch == rebuilder[w].batch
<1>1. /\ UNCHANGED <<correction, enqueueLock, compiler, faults>>
      /\ rebuilder' = [rebuilder EXCEPT ![w].pc = "claimed"] /\ rebuilder[w].pc = "claiming"
      /\ request' = [r \in Correction |-> IF r \in batch THEN Leased(request[r], w) ELSE request[r]]
  BY DEF CommitClaim
<1>2. /\ rebuilder' \in [Rebuilder -> RebuilderRow]
      /\ rebuilder'[w].pc = "claimed" /\ rebuilder'[w].batch = batch
      /\ \A v \in Rebuilder : v # w => rebuilder'[v] = rebuilder[v]
  BY <1>1, RowsTyped DEF RebuilderRow
<1>3. /\ request' \in [Correction -> RequestRow]
      /\ \A r \in Correction :
            /\ request'[r].by = request[r].by /\ request'[r].into = request[r].into
            /\ request'[r].pack = request[r].pack
            /\ IF r \in batch THEN request'[r].state = "processing" /\ request'[r].owner = w
                              ELSE request'[r] = request[r]
  BY <1>1, RowsTyped, LeasedTyped
<1>4. /\ batch \subseteq Correction
      /\ \A r \in batch :
            /\ request[r].state \in {"pending", "processing"} /\ ~KeyShared(r)
            /\ \A v \in Rebuilder : rebuilder[v].pc = "claiming" /\ r \in rebuilder[v].batch => v = w
  BY <1>1 DEF ClaimsLock, RebuildTypeOK
<1> HIDE DEF batch
<1>5. RebuildTypeOK'
  BY <1>1, <1>2, <1>3 DEF RebuildTypeOK, RebuilderRow, RequestRow
<1>6. /\ Made' /\ FoundMade' /\ Committed' = Committed
      /\ \A c \in Correction : Answering(c)' = Answering(c)
      /\ \A r : KeyShared(r)' <=> KeyShared(r)
  <2>1. \A r \in Correction :
            /\ request'[r].state = "none" <=> request[r].state = "none"
            /\ request'[r].state = "superseded" <=> request[r].state = "superseded"
            /\ request'[r].into = request[r].into
            /\ request'[r].by # NoOwner => request'[r].state = "completed"
    BY <1>3, <1>4 DEF Made
  <2> QED
    BY <1>1, <2>1, RequestsChange
<1>7. ClaimsLock'
  <2> SUFFICES ASSUME NEW v \in Rebuilder, NEW r \in rebuilder'[v].batch
               PROVE  /\ request'[r].state # "none"
                      /\ rebuilder'[v].pc = "claiming" =>
                            /\ request'[r].state \in {"pending", "processing"} /\ ~KeyShared(r)'
                            /\ \A u \in Rebuilder :
                                    rebuilder'[u].pc = "claiming" /\ r \in rebuilder'[u].batch => u = v
    BY DEF ClaimsLock
  <2>1. r \in rebuilder[v].batch /\ r \in Correction
    BY <1>2 DEF RebuildTypeOK, batch
  <2> QED
    BY <1>2, <1>3, <1>4, <1>6, <2>1 DEF ClaimsLock
<1>8. TimelyInsert'
  <2> SUFFICES ASSUME NEW c \in Correction, correction[c].pc = "inserted", correction[c].timely,
                      correction[c].found # NoRequest
               PROVE  /\ request'[correction[c].found].state # "processing"
                      /\ request'[correction[c].found].by \notin Rebuilder
    BY <1>1 DEF TimelyInsert
  <2>1. correction[c].found \in Correction /\ KeyShared(correction[c].found)
    BY DEF KeyShared, RebuildTypeOK
  <2>2. correction[c].found \notin batch
    BY <1>4, <2>1
  <2> QED
    BY <1>3, <2>1, <2>2 DEF TimelyInsert
<1>9. TimelySeen'
  <2> SUFFICES ASSUME NEW v \in Rebuilder, rebuilder'[v].pc = "compiled", NEW r \in Kept(v)',
                      NEW c \in Committed, correction[c].timely, Answering(c)' = r
               PROVE  c \in rebuilder'[v].snapshot
    BY <1>1, <1>6 DEF TimelySeen
  <2>1. v # w /\ rebuilder'[v] = rebuilder[v]
    BY <1>2
  <2>2. r \in rebuilder[v].batch /\ r \in Correction /\ request'[r].owner = v
        /\ request'[r].state = "processing"
    BY <2>1 DEF Kept, Owned, RebuildTypeOK
  <2>3. request'[r] = request[r]
    BY <1>3, <2>1, <2>2
  <2>4. r \in Kept(v)
    BY <2>2, <2>3 DEF Kept, Owned
  <2>5. Answering(c) = r
    BY <1>6 DEF Committed
  <2> QED
    BY <2>1, <2>4, <2>5 DEF TimelySeen
<1>10. TimelyCorrectionPacked'
  <2>1. \A c \in Committed : Answering(c) \in Correction /\ c \in Correction
    BY AnsweringIs
  <2> QED
    BY <1>1, <1>3, <1>6, <2>1 DEF TimelyCorrectionPacked
<1> QED
  BY <1>5, <1>6, <1>7, <1>8, <1>9, <1>10

\* A worker's last write touches the rows it still owns, and none that a claim holds.
LEMMA EndBatchKeeps ==
    ASSUME RebuildInv, NEW w \in Rebuilder, Writable(w),
           UNCHANGED <<correction, enqueueLock, compiler, faults>>,
           rebuilder' = [rebuilder EXCEPT ![w] = IdleRebuilder],
           request' \in [Correction -> RequestRow],
           \A r \in Correction :
                IF r \in Kept(w)
                THEN /\ request'[r].state \in {"completed", "failed", "pending"}
                     /\ request'[r].into = request[r].into
                     /\ request'[r].by = NoOwner \/ /\ rebuilder[w].pc = "compiled"
                                                    /\ request'[r].state = "completed"
                                                    /\ request'[r].pack = rebuilder[w].snapshot
                ELSE request'[r] = request[r]
    PROVE  RebuildInv'
<1> USE DEF RebuildInv
<1>1. /\ rebuilder' \in [Rebuilder -> RebuilderRow]
      /\ rebuilder'[w].pc = "idle" /\ rebuilder'[w].batch = {}
      /\ \A v \in Rebuilder : v # w => rebuilder'[v] = rebuilder[v]
  BY RowsTyped, NewRowsTyped DEF IdleRebuilder
<1>2. RebuildTypeOK'
  BY <1>1 DEF RebuildTypeOK, RebuilderRow, RequestRow
<1>3. \A r \in Kept(w) : r \in Correction /\ request[r].state = "processing"
  BY DEF Kept, Owned, RebuildTypeOK
<1>4. /\ Made' /\ FoundMade' /\ Committed' = Committed
      /\ \A c \in Correction : Answering(c)' = Answering(c)
      /\ \A r : KeyShared(r)' <=> KeyShared(r)
  <2>1. \A r \in Correction :
            /\ request'[r].state = "none" <=> request[r].state = "none"
            /\ request'[r].state = "superseded" <=> request[r].state = "superseded"
            /\ request'[r].into = request[r].into
            /\ request'[r].by # NoOwner => request'[r].state = "completed"
    BY <1>3 DEF Made
  <2> QED
    BY <2>1, RequestsChange
<1>5. ClaimsLock'
  <2> SUFFICES ASSUME NEW v \in Rebuilder, NEW r \in rebuilder'[v].batch
               PROVE  /\ request'[r].state # "none"
                      /\ rebuilder'[v].pc = "claiming" =>
                            /\ request'[r].state \in {"pending", "processing"} /\ ~KeyShared(r)'
                            /\ \A u \in Rebuilder :
                                    rebuilder'[u].pc = "claiming" /\ r \in rebuilder'[u].batch => u = v
    BY DEF ClaimsLock
  <2>1. v # w /\ r \in rebuilder[v].batch /\ r \in Correction /\ rebuilder'[v] = rebuilder[v]
    BY <1>1 DEF RebuildTypeOK
  <2>2. request[r].state # "none" /\ request'[r].state # "none"
    BY <1>3, <2>1 DEF ClaimsLock
  <2>3. rebuilder[v].pc = "claiming" => request'[r] = request[r]
    BY <2>1 DEF Writable, Locked
  <2> QED
    BY <1>1, <1>4, <2>1, <2>2, <2>3 DEF ClaimsLock
<1>6. TimelyInsert'
  <2> SUFFICES ASSUME NEW c \in Correction, correction[c].pc = "inserted", correction[c].timely,
                      correction[c].found # NoRequest
               PROVE  /\ request'[correction[c].found].state # "processing"
                      /\ request'[correction[c].found].by \notin Rebuilder
    BY DEF TimelyInsert
  <2>1. correction[c].found \in Correction /\ correction[c].found \notin Kept(w)
    BY <1>3 DEF TimelyInsert, RebuildTypeOK
  <2> QED
    BY <2>1 DEF TimelyInsert
<1>7. TimelySeen'
  <2> SUFFICES ASSUME NEW v \in Rebuilder, rebuilder'[v].pc = "compiled", NEW r \in Kept(v)',
                      NEW c \in Committed, correction[c].timely, Answering(c)' = r
               PROVE  c \in rebuilder'[v].snapshot
    BY <1>4 DEF TimelySeen
  <2>1. v # w /\ rebuilder'[v] = rebuilder[v]
    BY <1>1
  <2>2. r \in rebuilder[v].batch /\ r \in Correction /\ request'[r].state = "processing"
        /\ request'[r].owner = v
    BY <2>1 DEF Kept, Owned, RebuildTypeOK
  <2>3. request'[r] = request[r]
    BY <2>2
  <2>4. r \in Kept(v) /\ Answering(c) = r
    BY <1>4, <2>2, <2>3 DEF Kept, Owned, Committed
  <2> QED
    BY <2>1, <2>4 DEF TimelySeen
<1>8. TimelyCorrectionPacked'
  <2> SUFFICES ASSUME NEW c \in Committed, correction[c].timely,
                      request'[Answering(c)].by \in Rebuilder
               PROVE  c \in request'[Answering(c)].pack
    BY <1>4 DEF TimelyCorrectionPacked, Committed
  <2>1. Answering(c) \in Correction
    BY AnsweringIs
  <2>2. CASE Answering(c) \in Kept(w)
    BY <2>1, <2>2, Distinguished DEF TimelySeen
  <2>3. CASE Answering(c) \notin Kept(w)
    BY <2>1, <2>3 DEF TimelyCorrectionPacked
  <2> QED
    BY <2>2, <2>3
<1> QED
  BY <1>2, <1>4, <1>5, <1>6, <1>7, <1>8

LEMMA CompleteBatchKeeps ==
    ASSUME RebuildInv, NEW w \in Rebuilder, CompleteBatch(w)
    PROVE  RebuildInv'
<1>1. request \in [Correction -> RequestRow] /\ rebuilder[w].snapshot \in SUBSET Correction
  BY RowsTyped DEF RebuildInv, RebuilderRow
<1>2. \A row \in RequestRow :
        LET new == [row EXCEPT !.state = "completed", !.owner = NoOwner, !.lapsed = FALSE, !.by = w,
                               !.pack = rebuilder[w].snapshot]
        IN /\ new \in RequestRow /\ new.state = "completed" /\ new.into = row.into
           /\ new.pack = rebuilder[w].snapshot
  BY <1>1 DEF RequestRow
<1>3. /\ request' \in [Correction -> RequestRow]
      /\ \A r \in Correction :
            IF r \in Kept(w)
            THEN /\ request'[r].state = "completed" /\ request'[r].into = request[r].into
                 /\ request'[r].pack = rebuilder[w].snapshot
            ELSE request'[r] = request[r]
  BY <1>1, <1>2 DEF CompleteBatch
<1> QED
  BY <1>3, EndBatchKeeps DEF CompleteBatch

LEMMA ReleaseKeeps ==
    ASSUME RebuildInv, NEW w \in Rebuilder, ReleaseFailedBatch(w)
    PROVE  RebuildInv'
<1>1. request \in [Correction -> RequestRow]
  BY RowsTyped DEF RebuildInv
<1>2. \A r \in Kept(w) : request[r].by = NoOwner
  BY DEF Kept, Owned, RebuildInv, Made, RebuildTypeOK
<1> DEFINE state(r) == IF request[r].attempts >= MaxTries THEN "failed" ELSE "pending"
           new(r) == IF r \in Kept(w)
                     THEN [request[r] EXCEPT !.owner = NoOwner, !.lapsed = FALSE, !.state = state(r)]
                     ELSE request[r]
<1>3. request' = [r \in Correction |-> new(r)]
  BY DEF ReleaseFailedBatch
<1>4. \A r \in Correction : state(r) \in {"failed", "pending"}
  OBVIOUS
<1> HIDE DEF state
<1>5. \A r \in Kept(w) : r \in Correction
  BY DEF Kept, RebuildInv, RebuildTypeOK
<1>6. \A r \in Correction :
            /\ new(r) \in RequestRow
            /\ IF r \in Kept(w)
               THEN /\ new(r).state \in {"failed", "pending"} /\ new(r).into = request[r].into
                    /\ new(r).by = NoOwner
               ELSE new(r) = request[r]
  <2> SUFFICES ASSUME NEW r \in Correction
               PROVE  /\ new(r) \in RequestRow
                      /\ IF r \in Kept(w)
                         THEN /\ new(r).state \in {"failed", "pending"} /\ new(r).into = request[r].into
                              /\ new(r).by = NoOwner
                         ELSE new(r) = request[r]
    OBVIOUS
  <2>1. request[r] \in RequestRow
    BY <1>1
  <2>2. CASE r \in Kept(w)
    <3>1. new(r) = [request[r] EXCEPT !.owner = NoOwner, !.lapsed = FALSE, !.state = state(r)]
      BY <2>2
    <3> HIDE DEF new
    <3>2. PICK s \in {"failed", "pending"} : s = state(r)
      BY <1>4
    <3>3. new(r) = [request[r] EXCEPT !.owner = NoOwner, !.lapsed = FALSE, !.state = s]
      BY <3>1, <3>2
    <3>4. /\ new(r) \in RequestRow /\ new(r).state = s /\ new(r).into = request[r].into
          /\ new(r).by = request[r].by
      BY <2>1, <3>3 DEF RequestRow
    <3> QED
      BY <1>2, <2>2, <3>4
  <2>3. CASE r \notin Kept(w)
    BY <2>1, <2>3
  <2> QED
    BY <2>2, <2>3
<1> HIDE DEF new
<1>7. /\ request' \in [Correction -> RequestRow]
      /\ \A r \in Correction : request'[r] = new(r)
  BY <1>3, <1>6
<1>8. \A r \in Correction :
            IF r \in Kept(w)
            THEN /\ request'[r].state \in {"failed", "pending"} /\ request'[r].into = request[r].into
                 /\ request'[r].by = NoOwner
            ELSE request'[r] = request[r]
  BY <1>6, <1>7
<1> QED
  BY <1>7, <1>8, EndBatchKeeps DEF ReleaseFailedBatch

LEMMA FaultBounded ==
    ASSUME RebuildTypeOK, Fault
    PROVE  faults' \in 0..MaxFaults
<1>1. MaxFaults \in Nat /\ faults \in 0..MaxFaults
  BY RebuildAssumption DEF RebuildTypeOK
<1> QED
  BY <1>1 DEF Fault

\* A worker sees every correction that has committed when it loads the faces.
LEMMA CompileKeeps ==
    ASSUME RebuildInv, NEW w \in Rebuilder, Compile(w)
    PROVE  RebuildInv'
<1> DEFINE row == [rebuilder[w] EXCEPT !.pc = "compiled", !.snapshot = Committed]
<1>1. /\ UNCHANGED <<request, correction, enqueueLock, compiler, faults>>
      /\ rebuilder' = [rebuilder EXCEPT ![w] = row]
  BY DEF Compile
<1>2. row \in RebuilderRow /\ row.batch = rebuilder[w].batch /\ row.pc = "compiled"
      /\ row.snapshot = Committed
  BY RowsTyped DEF RebuildInv, RebuilderRow, Committed
<1> HIDE DEF row
<1>3. ClaimsLock' /\ TimelyInsert' /\ TimelySeen' /\ Made' /\ FoundMade'
      /\ TimelyCorrectionPacked' /\ rebuilder' \in [Rebuilder -> RebuilderRow]
  BY <1>1, <1>2, WorkersOnly
<1>4. RebuildTypeOK'
  BY <1>1, <1>3 DEF RebuildInv, RebuildTypeOK, RebuilderRow
<1> QED
  BY <1>3, <1>4 DEF RebuildInv

LEMMA CrashKeeps ==
    ASSUME RebuildInv, NEW w \in Rebuilder, CrashRebuilder(w)
    PROVE  RebuildInv'
<1>1. /\ UNCHANGED <<request, correction, enqueueLock, compiler>> /\ Fault
      /\ rebuilder' = [rebuilder EXCEPT ![w] = IdleRebuilder]
  BY DEF CrashRebuilder
<1>2. IdleRebuilder \in RebuilderRow /\ IdleRebuilder.batch = {} /\ IdleRebuilder.pc = "idle"
  BY NewRowsTyped DEF IdleRebuilder
<1>3. ClaimsLock' /\ TimelyInsert' /\ TimelySeen' /\ Made' /\ FoundMade'
      /\ TimelyCorrectionPacked' /\ rebuilder' \in [Rebuilder -> RebuilderRow]
  BY <1>1, <1>2, WorkersOnly
<1>4. RebuildTypeOK'
  BY <1>1, <1>3, FaultBounded DEF RebuildInv, RebuildTypeOK, RebuilderRow
<1> QED
  BY <1>3, <1>4 DEF RebuildInv

\* A lease that lapses does not change whose request it is.
LEMMA LeaseLapsesKeeps ==
    ASSUME RebuildInv, NEW l \in Correction, LeaseLapses(l)
    PROVE  RebuildInv'
<1> USE DEF RebuildInv
<1>1. /\ request' = [request EXCEPT ![l].lapsed = TRUE]
      /\ UNCHANGED <<correction, enqueueLock, rebuilder, compiler>>
      /\ faults' = faults \/ Fault
  BY DEF LeaseLapses
<1>2. /\ request' \in [Correction -> RequestRow]
      /\ \A r \in Correction :
            /\ request'[r].state = request[r].state /\ request'[r].into = request[r].into
            /\ request'[r].owner = request[r].owner /\ request'[r].by = request[r].by
            /\ request'[r].pack = request[r].pack
  <2>1. \A row \in RequestRow :
            LET new == [row EXCEPT !.lapsed = TRUE]
            IN /\ new \in RequestRow /\ new.state = row.state /\ new.into = row.into
               /\ new.owner = row.owner /\ new.by = row.by /\ new.pack = row.pack
    BY DEF RequestRow
  <2>2. request \in [Correction -> RequestRow]
    BY RowsTyped
  <2> DEFINE new == [request[l] EXCEPT !.lapsed = TRUE]
  <2>3. request' = [request EXCEPT ![l] = new]
    BY <1>1
  <2>4. /\ new \in RequestRow /\ new.state = request[l].state /\ new.into = request[l].into
        /\ new.owner = request[l].owner /\ new.by = request[l].by /\ new.pack = request[l].pack
    BY <2>1, <2>2
  <2> HIDE DEF new
  <2> QED
    BY <2>2, <2>3, <2>4
<1>3. faults' \in 0..MaxFaults
  BY <1>1, FaultBounded DEF RebuildTypeOK
<1>4. RebuildTypeOK'
  BY <1>1, <1>2, <1>3 DEF RebuildTypeOK, RequestRow
<1>5. /\ Made' /\ FoundMade' /\ Committed' = Committed
      /\ \A c \in Correction : Answering(c)' = Answering(c)
      /\ \A r : KeyShared(r)' <=> KeyShared(r)
  <2>1. \A r \in Correction :
            /\ request'[r].state = "none" <=> request[r].state = "none"
            /\ request'[r].state = "superseded" <=> request[r].state = "superseded"
            /\ request'[r].into = request[r].into
            /\ request'[r].by # NoOwner => request'[r].state = "completed"
    BY <1>2 DEF Made
  <2> QED
    BY <1>1, <2>1, RequestsChange
<1>6. ClaimsLock'
  BY <1>1, <1>2, <1>5 DEF ClaimsLock, RebuildTypeOK
<1>7. TimelyInsert'
  BY <1>1, <1>2 DEF TimelyInsert, RebuildTypeOK
<1>8. \A v \in Rebuilder : Kept(v)' = Kept(v)
  BY <1>1, <1>2 DEF Kept, Owned, RebuildTypeOK
<1>9. TimelySeen'
  <2> SUFFICES ASSUME NEW v \in Rebuilder, rebuilder[v].pc = "compiled", NEW r \in Kept(v),
                      NEW c \in Committed, correction[c].timely, Answering(c)' = r
               PROVE  c \in rebuilder[v].snapshot
    BY <1>1, <1>5, <1>8 DEF TimelySeen
  <2>1. Answering(c) = r
    BY <1>5 DEF Committed
  <2> QED
    BY <2>1 DEF TimelySeen
<1>10. TimelyCorrectionPacked'
  <2> SUFFICES ASSUME NEW c \in Committed, correction[c].timely,
                      request'[Answering(c)'].by \in Rebuilder
               PROVE  c \in request'[Answering(c)'].pack
    BY <1>1, <1>5 DEF TimelyCorrectionPacked
  <2>1. Answering(c)' = Answering(c) /\ Answering(c) \in Correction
    BY <1>5, AnsweringIs
  <2> QED
    BY <1>2, <2>1 DEF TimelyCorrectionPacked
<1> QED
  BY <1>4, <1>5, <1>6, <1>7, <1>9, <1>10

-------------------------------------------------------------------------------
(* The compile command *)

LEMMA CompilerKeeps ==
    ASSUME RebuildInv, BeginCompile \/ LoadFaces \/ CompileFails
    PROVE  RebuildInv'
<1> USE DEF RebuildInv
<1>1. UNCHANGED <<request, correction, enqueueLock, rebuilder>>
  BY DEF BeginCompile, LoadFaces, CompileFails
<1>2. faults' \in 0..MaxFaults
  BY FaultBounded DEF BeginCompile, LoadFaces, CompileFails, RebuildTypeOK
<1>3. compiler' \in [pc : {"idle", "begun", "loaded"}, older : SUBSET Correction,
                     snapshot : SUBSET Correction]
  <2>1. compiler \in [pc : {"idle", "begun", "loaded"}, older : SUBSET Correction,
                      snapshot : SUBSET Correction]
    BY DEF RebuildTypeOK
  <2>2. CASE BeginCompile
    <3>1. {c \in Correction : correction[c].pc # "idle"} \in SUBSET Correction
      OBVIOUS
    <3> QED
      BY <2>2, <3>1 DEF BeginCompile, IdleCompiler
  <2>3. CASE LoadFaces
    BY <2>1, <2>3 DEF LoadFaces, Committed
  <2>4. CASE CompileFails
    BY <2>4 DEF CompileFails, IdleCompiler
  <2> QED
    BY <2>2, <2>3, <2>4
<1>4. RebuildTypeOK'
  BY <1>1, <1>2, <1>3 DEF RebuildTypeOK
<1>5. Made' /\ FoundMade' /\ ClaimsLock' /\ TimelyInsert' /\ TimelySeen' /\ TimelyCorrectionPacked'
  BY <1>1 DEF Made, FoundMade, ClaimsLock, TimelyInsert, TimelySeen, TimelyCorrectionPacked,
              Committed, Answering, Kept, Owned, KeyShared
<1> QED
  BY <1>4, <1>5

\* What the owner completes is not a worker's: the pack promises nothing of what it folds.
LEMMA CompletePendingKeeps ==
    ASSUME RebuildInv, CompletePendingRebuilds
    PROVE  RebuildInv'
<1> USE DEF RebuildInv
<1> DEFINE new(r) == IF r \in Outdated
                     THEN [request[r] EXCEPT !.state = "completed", !.by = TheOwner,
                                             !.pack = compiler.snapshot]
                     ELSE request[r]
<1>1. /\ request' = [r \in Correction |-> new(r)] /\ compiler' = IdleCompiler
      /\ UNCHANGED <<correction, enqueueLock, rebuilder, faults>>
      /\ \A r \in Outdated : ~Locked(r)
  BY DEF CompletePendingRebuilds
<1>2. \A row \in RequestRow :
        LET done == [row EXCEPT !.state = "completed", !.by = TheOwner, !.pack = compiler.snapshot]
        IN done \in RequestRow /\ done.state = "completed" /\ done.into = row.into /\ done.by = TheOwner
  BY DEF RequestRow, RebuildTypeOK
<1>3. /\ request' \in [Correction -> RequestRow]
      /\ \A r \in Correction :
            IF r \in Outdated
            THEN /\ request'[r].state = "completed" /\ request'[r].into = request[r].into
                 /\ request'[r].by = TheOwner
            ELSE request'[r] = request[r]
  BY <1>1, <1>2, RowsTyped
<1> HIDE DEF new
<1>4. \A r \in Outdated : r \in Correction /\ request[r].state = "pending"
  BY DEF Outdated, InState
<1>5. RebuildTypeOK'
  BY <1>1, <1>3 DEF RebuildTypeOK, RequestRow, IdleCompiler
<1>6. /\ Made' /\ FoundMade' /\ Committed' = Committed
      /\ \A c \in Correction : Answering(c)' = Answering(c)
      /\ \A r : KeyShared(r)' <=> KeyShared(r)
  <2>1. \A r \in Correction :
            /\ request'[r].state = "none" <=> request[r].state = "none"
            /\ request'[r].state = "superseded" <=> request[r].state = "superseded"
            /\ request'[r].into = request[r].into
            /\ request'[r].by # NoOwner => request'[r].state = "completed"
    BY <1>3, <1>4 DEF Made
  <2> QED
    BY <1>1, <2>1, RequestsChange
<1>7. ClaimsLock'
  <2>1. \A v \in Rebuilder : \A r \in rebuilder[v].batch :
            /\ r \in Correction /\ request'[r].state # "none"
            /\ rebuilder[v].pc = "claiming" => request'[r] = request[r]
    BY <1>1, <1>3 DEF ClaimsLock, RebuildTypeOK, Locked
  <2> QED
    BY <1>1, <1>6, <2>1 DEF ClaimsLock
<1>8. TimelyInsert'
  <2> SUFFICES ASSUME NEW c \in Correction, correction[c].pc = "inserted", correction[c].timely,
                      correction[c].found # NoRequest
               PROVE  /\ request'[correction[c].found].state # "processing"
                      /\ request'[correction[c].found].by \notin Rebuilder
    BY <1>1 DEF TimelyInsert
  <2>1. correction[c].found \in Correction
    BY DEF RebuildTypeOK
  <2> QED
    BY <1>3, <2>1, Distinguished DEF TimelyInsert
<1>9. TimelySeen'
  <2> SUFFICES ASSUME NEW v \in Rebuilder, rebuilder[v].pc = "compiled", NEW r \in Kept(v)',
                      NEW c \in Committed, correction[c].timely, Answering(c)' = r
               PROVE  c \in rebuilder[v].snapshot
    BY <1>1, <1>6 DEF TimelySeen
  <2>1. r \in rebuilder[v].batch /\ r \in Correction /\ request'[r].state = "processing"
        /\ request'[r].owner = v
    BY <1>1 DEF Kept, Owned, RebuildTypeOK
  <2>2. request'[r] = request[r] /\ Answering(c) = r
    BY <1>3, <1>6, <2>1 DEF Committed
  <2> QED
    BY <2>1, <2>2 DEF TimelySeen, Kept, Owned
<1>10. TimelyCorrectionPacked'
  <2> SUFFICES ASSUME NEW c \in Committed, correction[c].timely,
                      request'[Answering(c)'].by \in Rebuilder
               PROVE  c \in request'[Answering(c)'].pack
    BY <1>1, <1>6 DEF TimelyCorrectionPacked
  <2>1. Answering(c)' = Answering(c) /\ Answering(c) \in Correction
    BY <1>6, AnsweringIs
  <2>2. request'[Answering(c)] = request[Answering(c)]
    BY <1>3, <2>1, Distinguished
  <2> QED
    BY <2>1, <2>2 DEF TimelyCorrectionPacked
<1> QED
  BY <1>5, <1>6, <1>7, <1>8, <1>9, <1>10

-------------------------------------------------------------------------------

LEMMA RebuildInitInv == RebuildInit => RebuildInv
<1> SUFFICES ASSUME RebuildInit PROVE RebuildInv
  OBVIOUS
<1>1. /\ request \in [Correction -> RequestRow] /\ correction \in [Correction -> TransactionRow]
      /\ rebuilder \in [Rebuilder -> RebuilderRow]
  BY NewRowsTyped DEF RebuildInit
<1>2. /\ \A c \in Correction : /\ request[c].state = "none" /\ request[c].by = NoOwner
                               /\ correction[c].pc = "idle"
      /\ \A w \in Rebuilder : rebuilder[w].pc = "idle" /\ rebuilder[w].batch = {}
  BY DEF RebuildInit, Unmade, NewRequest, NewCorrection, IdleRebuilder
<1>3. compiler \in [pc : {"idle", "begun", "loaded"}, older : SUBSET Correction,
                    snapshot : SUBSET Correction]
  BY DEF RebuildInit, IdleCompiler
<1>4. faults \in 0..MaxFaults
  <2>1. MaxFaults \in Nat
    BY RebuildAssumption
  <2> QED
    BY <2>1 DEF RebuildInit
<1>5. RebuildTypeOK
  BY <1>1, <1>3, <1>4 DEF RebuildTypeOK, RebuildInit, RequestRow, TransactionRow, RebuilderRow
<1>6. Made /\ FoundMade /\ ClaimsLock /\ TimelyInsert /\ TimelySeen /\ TimelyCorrectionPacked
  BY <1>2 DEF Made, FoundMade, ClaimsLock, TimelyInsert, TimelySeen, TimelyCorrectionPacked, Committed
<1> QED
  BY <1>5, <1>6 DEF RebuildInv

LEMMA RebuildStep == RebuildInv /\ [RebuildNext]_rebuildVars => RebuildInv'
<1> SUFFICES ASSUME RebuildInv, [RebuildNext]_rebuildVars PROVE RebuildInv'
  OBVIOUS
<1>1. ASSUME NEW c \in Correction, Enqueues(c) \/ RollBackCorrection(c) \/ LeaseLapses(c)
      PROVE  RebuildInv'
  BY <1>1, ReadPendingKeeps, InsertRequestKeeps, CommitCorrectionKeeps, RollBackKeeps,
     LeaseLapsesKeeps DEF Enqueues
<1>2. ASSUME NEW w \in Rebuilder, Rebuilds(w) \/ CrashRebuilder(w)
      PROVE  RebuildInv'
  BY <1>2, OpenClaimKeeps, CommitClaimKeeps, CompileKeeps, CompleteBatchKeeps, ReleaseKeeps,
     CrashKeeps DEF Rebuilds
<1>3. CASE BeginCompile \/ LoadFaces \/ CompletePendingRebuilds \/ CompileFails
  BY <1>3, CompilerKeeps, CompletePendingKeeps
<1>4. CASE UNCHANGED rebuildVars
  BY <1>4 DEF rebuildVars, RebuildInv, RebuildTypeOK, Made, FoundMade, ClaimsLock, TimelyInsert,
              TimelySeen, TimelyCorrectionPacked, Committed, Answering, Kept, Owned, KeyShared
<1> QED
  BY <1>1, <1>2, <1>3, <1>4 DEF RebuildNext

\* Locks, leases and folded inserts keep, together, what the completed packs promise.
THEOREM RebuildInvariant == RebuildSpec => []RebuildInv
BY RebuildInitInv, RebuildStep, PTL DEF RebuildSpec

\* Requests, corrections and workers have the states the queue gives them, within the bounds.
THEOREM RebuildTyped == RebuildSpec => []RebuildTypeOK
<1>1. RebuildInv => RebuildTypeOK
  BY DEF RebuildInv
<1> QED
  BY <1>1, RebuildInvariant, PTL

\* A pack with which a worker completes a request contains every correction that was folded into
\* the request in time, whatever leases lapse and whoever takes over.
THEOREM RebuildPacksTimely == RebuildSpec => []TimelyCorrectionPacked
<1>1. RebuildInv => TimelyCorrectionPacked
  BY DEF RebuildInv
<1> QED
  BY <1>1, RebuildInvariant, PTL

-----------------------------------------------------------------------------
(***************************************************************************)
(* Safety of the recogniser's pipe for every number of calls.  A call is   *)
(* told its own answer because a process that is still used holds exactly  *)
(* the request somebody waits for, in one of its two pipes, and nothing    *)
(* else: whoever gives up on a request gives up the process with it.       *)
(***************************************************************************)

\* What is waited for is the only request in the pipes of its process.
WaitedIsInPipe ==
    \A k \in Call : child[k].pending # Nobody =>
        \/ child[k].stdin = <<child[k].pending>> /\ child[k].stdout = <<>>
        \/ child[k].stdin = <<>> /\ child[k].stdout = <<child[k].pending>>

\* A process that would be used again has nothing left to say.
UsableIsEmpty ==
    \A k \in Call : resident = k /\ ~child[k].killed /\ child[k].pending = Nobody =>
        child[k].stdin = <<>> /\ child[k].stdout = <<>>

\* A process that was never spawned.
NeverUsed(row) ==
    /\ row.life = "unspawned" /\ ~row.killed /\ row.pending = Nobody
    /\ row.stdin = <<>> /\ row.stdout = <<>> /\ row.writing = <<>>

\* A call that has not started has started no process.
QueuedIsUnspawned ==
    \A r \in Call : outcome[r].state = "queued" => NeverUsed(child[r]) /\ resident # r

RecognizerInv ==
    /\ RecognizerTypeOK
    /\ WaitedIsInPipe
    /\ UsableIsEmpty
    /\ QueuedIsUnspawned
    /\ AnswersOwnCall
    /\ OneRecognizer

LEMMA CallNotNobody == Nobody \notin Call /\ NoChild \notin Call
  BY DEF Call, Nobody, NoChild

LEMMA RecognizerInitially == RecognizerInit => RecognizerInv
  BY CallNotNobody DEF RecognizerInit, RecognizerInv, RecognizerTypeOK, OutcomeRow, ChildRow,
     WaitedIsInPipe, UsableIsEmpty, QueuedIsUnspawned, AnswersOwnCall, OneRecognizer, Unspawned,
     NeverUsed

\* One process changes: the others are left as they are.
LEMMA OneChildChanges ==
    ASSUME NEW f \in [Call -> ChildRow], NEW k \in Call, NEW row \in ChildRow
    PROVE  /\ [f EXCEPT ![k] = row] \in [Call -> ChildRow]
           /\ [f EXCEPT ![k] = row][k] = row
           /\ \A l \in Call \ {k} : [f EXCEPT ![k] = row][l] = f[l]
  OBVIOUS

\* Being told to end changes nothing else of a process.
LEMMA Killed ==
    ASSUME NEW row \in ChildRow, NEW next, next = [row EXCEPT !.killed = TRUE]
    PROVE  /\ next \in ChildRow /\ next.killed
           /\ next.life = row.life /\ next.pending = row.pending
           /\ next.stdin = row.stdin /\ next.stdout = row.stdout
  BY DEF ChildRow

\* Settling a call keeps the outcomes in type, starts no call and answers none but the one it is
\* about.
LEMMA SettleKeeps ==
    ASSUME RecognizerTypeOK, NEW r \in {Nobody} \cup Call, NEW state \in {"answered", "failed"},
           NEW answer \in {Nobody} \cup Call, Settle(r, state, answer)
    PROVE  /\ outcome' \in [Call -> OutcomeRow]
           /\ \A q \in Call : outcome'[q].state = "queued" => outcome[q].state = "queued"
           /\ (state = "answered" => answer = r) /\ AnswersOwnCall => AnswersOwnCall'
  BY DEF Settle, Settled, RecognizerTypeOK, OutcomeRow, AnswersOwnCall

\* Stopping the resident process keeps the invariant, if the processes as they are left have
\* the other parts of it.
LEMMA StopKeeps ==
    ASSUME RecognizerTypeOK, NEW kids \in [Call -> ChildRow], StopResident(kids),
           QueuedIsUnspawned, OneRecognizer,
           \A k \in Call : NeverUsed(child[k]) => NeverUsed(kids[k]),
           \A k \in Call : kids[k].life = child[k].life /\ kids[k].killed = child[k].killed,
           \A q \in Call : outcome'[q].state = "queued" => outcome[q].state = "queued"
    PROVE  /\ resident' = NoChild
           /\ child' \in [Call -> ChildRow]
           /\ \A k \in Call : /\ child'[k].pending = kids[k].pending
                              /\ child'[k].stdin = kids[k].stdin
                              /\ child'[k].stdout = kids[k].stdout
           /\ UsableIsEmpty'
           /\ QueuedIsUnspawned'
           /\ OneRecognizer'
  <1> USE CallNotNobody DEF RecognizerTypeOK
  <1>1. resident' = NoChild
    BY DEF StopResident
  <1>2. CASE resident = NoChild
    <2>1. child' = kids
      BY <1>2 DEF StopResident
    <2> QED BY <1>1, <1>2, <2>1 DEF UsableIsEmpty, QueuedIsUnspawned, OneRecognizer
  <1>3. CASE resident # NoChild
    <2> DEFINE row == [kids[resident] EXCEPT !.killed = TRUE]
    <2>0. resident \in Call
      BY <1>3
    <2>1. child' = [kids EXCEPT ![resident] = row]
      BY <1>3, <2>0 DEF StopResident
    <2>2. /\ row \in ChildRow /\ row.killed
          /\ row.pending = kids[resident].pending /\ row.stdin = kids[resident].stdin
          /\ row.stdout = kids[resident].stdout /\ row.life = kids[resident].life
      BY <2>0, Killed
    <2> HIDE DEF row
    <2>3. /\ child' \in [Call -> ChildRow] /\ child'[resident] = row
          /\ \A l \in Call \ {resident} : child'[l] = kids[l]
      BY <2>0, <2>1, <2>2, OneChildChanges
    <2>4. UsableIsEmpty'
      BY <1>1 DEF UsableIsEmpty
    <2>5. QueuedIsUnspawned'
      BY <1>1, <2>3 DEF QueuedIsUnspawned
    <2>6. OneRecognizer'
      BY <2>2, <2>3 DEF OneRecognizer
    <2> QED BY <1>1, <2>2, <2>3, <2>4, <2>5, <2>6
  <1> QED BY <1>2, <1>3

LEMMA RecognizerStep == RecognizerInv /\ [RecognizerNext]_recognizerVars => RecognizerInv'
  <1> SUFFICES ASSUME RecognizerInv, [RecognizerNext]_recognizerVars PROVE RecognizerInv'
    OBVIOUS
  <1> USE CallNotNobody
  <1>0. /\ RecognizerTypeOK /\ WaitedIsInPipe /\ UsableIsEmpty
        /\ QueuedIsUnspawned /\ AnswersOwnCall /\ OneRecognizer
    BY DEF RecognizerInv
  <1>a. \A k \in Call : child[k] \in ChildRow /\ outcome[k] \in OutcomeRow
    BY <1>0 DEF RecognizerTypeOK
  <1>1. ASSUME NEW r \in Call, Recognize(r) PROVE RecognizerInv'
    <2> DEFINE fresh == resident = NoChild \/ child[resident].killed
               k == IF fresh THEN r ELSE resident
    <2>1. CASE ~fresh /\ child[k].pending # Nobody
      <3>1. Settle(r, "failed", Nobody) /\ UNCHANGED <<armed, resident, child>>
        BY <1>1, <2>1 DEF Recognize
      <3>2. /\ outcome' \in [Call -> OutcomeRow] /\ AnswersOwnCall'
            /\ \A q \in Call : outcome'[q].state = "queued" => outcome[q].state = "queued"
        BY <1>0, <3>1, SettleKeeps
      <3> QED BY <1>0, <3>1, <3>2 DEF RecognizerInv, RecognizerTypeOK, WaitedIsInPipe,
                 UsableIsEmpty, QueuedIsUnspawned, OneRecognizer
    <2>2. CASE ~(~fresh /\ child[k].pending # Nobody)
      <3>1. /\ outcome[r].state = "queued"
            /\ outcome' = [outcome EXCEPT ![r].state = "sent"]
            /\ armed' = armed \cup {r}
            /\ resident' = k
            /\ child' = [child EXCEPT ![k].life = IF fresh THEN "alive" ELSE @, ![k].pending = r,
                                      ![k].stdin = Append(@, r),
                                      ![k].writing = Append(@, r)]
        BY <1>1, <2>2 DEF Recognize
      <3>2. k \in Call /\ child[k].stdin = <<>> /\ child[k].stdout = <<>> /\ child[k].pending = Nobody
        BY <1>0, <2>2, <3>1 DEF QueuedIsUnspawned, UsableIsEmpty, RecognizerTypeOK, NeverUsed
      <3>3. /\ child'[k].pending = r /\ child'[k].stdin = <<r>> /\ child'[k].stdout = <<>>
            /\ child'[k].life = (IF fresh THEN "alive" ELSE child[k].life)
            /\ child'[k].killed = child[k].killed
            /\ child'[k] \in ChildRow
            /\ child' \in [Call -> ChildRow]
            /\ \A l \in Call \ {k} : child'[l] = child[l]
        <4> DEFINE old == child[k]
                   life == IF fresh THEN "alive" ELSE old.life
                   writing == Append(old.writing, r)
                   row == [old EXCEPT !.life = life, !.pending = r, !.stdin = <<r>>,
                                      !.writing = writing]
        <4> HIDE DEF fresh, k
        <4>1. child \in [Call -> ChildRow] /\ old \in ChildRow /\ old.stdout = <<>>
          BY <1>0, <1>a, <3>2 DEF RecognizerTypeOK
        <4>2. Append(old.stdin, r) = <<r>>
          BY <3>2
        <4>3. child' = [child EXCEPT ![k] = row]
          BY <3>1, <3>2, <4>1, <4>2
        <4>6. writing \in Seq(Call)
          BY <4>1 DEF ChildRow
        <4> HIDE DEF old, writing
        <4>4. /\ row \in ChildRow /\ row.pending = r /\ row.stdin = <<r>> /\ row.stdout = <<>>
              /\ row.life = life /\ row.killed = old.killed
          <5>1. life \in {"unspawned", "alive", "dead", "closed"} /\ <<r>> \in Seq(Call)
            BY <4>1 DEF ChildRow
          <5> HIDE DEF life
          <5> QED BY <4>1, <4>6, <5>1 DEF ChildRow
        <4> HIDE DEF row
        <4>5. /\ child' \in [Call -> ChildRow] /\ child'[k] = row
              /\ \A l \in Call \ {k} : child'[l] = child[l]
          BY <3>2, <4>1, <4>3, <4>4, OneChildChanges
        <4> QED BY <4>4, <4>5 DEF old
      <3>4. RecognizerTypeOK'
        <4>1. outcome' \in [Call -> OutcomeRow]
          BY <1>0, <1>a, <3>1 DEF RecognizerTypeOK, OutcomeRow
        <4>2. armed' \subseteq Call /\ resident' \in Call
          BY <1>0, <3>1, <3>2 DEF RecognizerTypeOK
        <4> QED BY <3>3, <4>1, <4>2 DEF RecognizerTypeOK
      <3>5. WaitedIsInPipe'
        BY <1>0, <3>2, <3>3 DEF WaitedIsInPipe
      <3>6. UsableIsEmpty'
        BY <3>1, <3>2, <3>3 DEF UsableIsEmpty
      <3>7. AnswersOwnCall'
        BY <1>0, <1>a, <3>1 DEF AnswersOwnCall, RecognizerTypeOK, OutcomeRow
      <3>8. \A q \in Call : outcome'[q].state = "queued" => q # r /\ outcome[q].state = "queued"
        BY <1>0, <1>a, <3>1 DEF RecognizerTypeOK, OutcomeRow
      <3>9. QueuedIsUnspawned'
        BY <1>0, <3>1, <3>3, <3>8 DEF QueuedIsUnspawned
      <3>10. OneRecognizer'
        <4> SUFFICES ASSUME NEW l \in Call, child'[l].life = "alive", l # k
                     PROVE  child'[l].killed
          BY <3>1 DEF OneRecognizer
        <4>1. child'[l] = child[l]
          BY <3>3
        <4>2. l # resident \/ child[l].killed
          BY <3>2
        <4> QED BY <1>0, <4>1, <4>2 DEF OneRecognizer
      <3> QED BY <3>4, <3>5, <3>6, <3>7, <3>9, <3>10 DEF RecognizerInv
    <2> QED BY <2>1, <2>2
  <1>2. ASSUME NEW r \in Call, Timeout(r) PROVE RecognizerInv'
    <2> DEFINE kids == [child EXCEPT ![ChildOf(r)].pending = Nobody]
    <2>1. Settle(r, "failed", Nobody) /\ StopResident(kids) /\ armed' \subseteq armed
      BY <1>2 DEF Timeout
    <2>2. /\ outcome' \in [Call -> OutcomeRow] /\ AnswersOwnCall'
          /\ \A q \in Call : outcome'[q].state = "queued" => outcome[q].state = "queued"
      BY <1>0, <2>1, SettleKeeps
    <2>3. /\ kids \in [Call -> ChildRow]
          /\ \A k \in Call : /\ kids[k].life = child[k].life /\ kids[k].killed = child[k].killed
                             /\ kids[k].stdin = child[k].stdin /\ kids[k].stdout = child[k].stdout
                             /\ kids[k].pending \in {child[k].pending, Nobody}
                             /\ NeverUsed(child[k]) => NeverUsed(kids[k])
      <3>1. child \in [Call -> ChildRow]
        BY <1>0 DEF RecognizerTypeOK
      <3>2. CASE ChildOf(r) \notin Call
        <4>1. kids = child
          BY <3>1, <3>2
        <4> QED BY <3>1, <4>1
      <3>3. CASE ChildOf(r) \in Call
        <4> DEFINE c == ChildOf(r)
                   old == child[c]
                   row == [old EXCEPT !.pending = Nobody]
        <4>1. c \in Call
          BY <3>3
        <4> HIDE DEF c
        <4>2. kids = [child EXCEPT ![c] = row]
          BY <3>1, <4>1 DEF c
        <4>3. /\ row \in ChildRow /\ row.life = child[c].life /\ row.killed = child[c].killed
              /\ row.stdin = child[c].stdin /\ row.stdout = child[c].stdout
              /\ row.pending = Nobody
              /\ NeverUsed(child[c]) => NeverUsed(row)
          <5>1. old \in ChildRow
            BY <1>a, <4>1
          <5> HIDE DEF old
          <5>2. /\ row \in ChildRow /\ row.life = old.life /\ row.killed = old.killed
                /\ row.stdin = old.stdin /\ row.stdout = old.stdout
                /\ row.pending = Nobody /\ row.writing = old.writing
            BY <5>1 DEF ChildRow
          <5> HIDE DEF row
          <5> QED BY <5>2 DEF old, NeverUsed
        <4> HIDE DEF row, kids
        <4> QED BY <3>1, <4>1, <4>2, <4>3, OneChildChanges
      <3> QED BY <3>2, <3>3
    <2> HIDE DEF kids
    <2>4. /\ resident' = NoChild /\ child' \in [Call -> ChildRow]
          /\ \A k \in Call : /\ child'[k].pending = kids[k].pending
                             /\ child'[k].stdin = kids[k].stdin
                             /\ child'[k].stdout = kids[k].stdout
          /\ UsableIsEmpty' /\ QueuedIsUnspawned' /\ OneRecognizer'
      BY <1>0, <2>1, <2>2, <2>3, StopKeeps
    <2>5. WaitedIsInPipe'
      BY <1>0, <2>3, <2>4 DEF WaitedIsInPipe
    <2> QED BY <1>0, <2>1, <2>2, <2>4, <2>5 DEF RecognizerInv, RecognizerTypeOK
  <1>3. ASSUME NEW k \in Call, Answer(k) PROVE RecognizerInv'
    <2> DEFINE in == Tail(child[k].stdin)
               out == Append(child[k].stdout, Head(child[k].stdin))
    <2>1. /\ child[k].stdin # <<>> /\ child[k].life = "alive"
          /\ child' = [child EXCEPT ![k].stdin = Tail(@), ![k].stdout = Append(@, Head(child[k].stdin))]
          /\ UNCHANGED <<outcome, armed, resident>>
      BY <1>3 DEF Answer
    <2>2. in \in Seq(Call) /\ out \in Seq(Call)
      BY <1>a, <2>1 DEF ChildRow
    <2>3. /\ child' \in [Call -> ChildRow]
          /\ child'[k].stdin = in /\ child'[k].stdout = out
          /\ child'[k].pending = child[k].pending /\ child'[k].life = child[k].life
          /\ child'[k].killed = child[k].killed
          /\ \A l \in Call \ {k} : child'[l] = child[l]
      <3> DEFINE old == child[k]
                 row == [old EXCEPT !.stdin = in, !.stdout = out]
      <3>1. child \in [Call -> ChildRow]
        BY <1>0 DEF RecognizerTypeOK
      <3>2. child' = [child EXCEPT ![k] = row]
        BY <2>1, <3>1
      <3>3. old \in ChildRow
        BY <1>a
      <3> HIDE DEF in, out, old
      <3>4. /\ row \in ChildRow /\ row.stdin = in /\ row.stdout = out
            /\ row.pending = old.pending /\ row.life = old.life /\ row.killed = old.killed
        BY <2>2, <3>3 DEF ChildRow
      <3> HIDE DEF row
      <3>5. /\ child' \in [Call -> ChildRow] /\ child'[k] = row
            /\ \A l \in Call \ {k} : child'[l] = child[l]
        BY <3>1, <3>2, <3>4, OneChildChanges
      <3> QED BY <3>4, <3>5 DEF old
    <2>4. child[k].pending # Nobody => in = <<>> /\ out = <<child[k].pending>>
      <3> SUFFICES ASSUME child[k].pending # Nobody PROVE in = <<>> /\ out = <<child[k].pending>>
        OBVIOUS
      <3>1. child[k].stdin = <<child[k].pending>> /\ child[k].stdout = <<>>
        BY <1>0, <2>1 DEF WaitedIsInPipe
      <3> QED BY <3>1
    <2>5. WaitedIsInPipe'
      BY <1>0, <2>3, <2>4 DEF WaitedIsInPipe
    <2>6. UsableIsEmpty'
      BY <1>0, <2>1, <2>3 DEF UsableIsEmpty
    <2>7. QueuedIsUnspawned'
      BY <1>0, <2>1, <2>3 DEF QueuedIsUnspawned, NeverUsed
    <2> QED BY <1>0, <2>1, <2>3, <2>5, <2>6, <2>7
            DEF RecognizerInv, RecognizerTypeOK, AnswersOwnCall, OneRecognizer
  <1>4. ASSUME NEW k \in Call, Die(k) \/ Written(k) PROVE RecognizerInv'
    <2> PICK row \in ChildRow :
            /\ child' = [child EXCEPT ![k] = row]
            /\ row.pending = child[k].pending /\ row.killed = child[k].killed
            /\ row.stdin = child[k].stdin /\ row.stdout = child[k].stdout
            /\ row.life = "alive" => child[k].life = "alive"
      <3>0. child \in [Call -> ChildRow]
        BY <1>0 DEF RecognizerTypeOK
      <3>1. CASE Die(k)
        <4> DEFINE old == child[k]
                   row == [old EXCEPT !.life = "dead"]
        <4>1. old \in ChildRow
          BY <1>a
        <4>2. child' = [child EXCEPT ![k] = row]
          BY <3>0, <3>1 DEF Die
        <4> HIDE DEF old
        <4>3. /\ row \in ChildRow
              /\ row.pending = old.pending /\ row.killed = old.killed
              /\ row.stdin = old.stdin /\ row.stdout = old.stdout
              /\ row.life = "dead"
          BY <4>1 DEF ChildRow
        <4> HIDE DEF row
        <4> QED BY <4>2, <4>3 DEF old
      <3>2. CASE Written(k)
        <4> DEFINE old == child[k]
                   writing == Tail(old.writing)
                   row == [old EXCEPT !.writing = writing]
        <4>1. old \in ChildRow /\ writing \in Seq(Call)
          BY <1>a, <3>2 DEF ChildRow, Written
        <4>2. child' = [child EXCEPT ![k] = row]
          BY <3>0, <3>2 DEF Written
        <4> HIDE DEF old, writing
        <4>3. /\ row \in ChildRow
              /\ row.pending = old.pending /\ row.killed = old.killed
              /\ row.stdin = old.stdin /\ row.stdout = old.stdout
              /\ row.life = old.life
          BY <4>1 DEF ChildRow
        <4> HIDE DEF row
        <4> QED BY <4>2, <4>3 DEF old
      <3> QED BY <1>4, <3>1, <3>2
    <2>1. /\ child' \in [Call -> ChildRow] /\ child'[k] = row
          /\ \A l \in Call \ {k} : child'[l] = child[l]
      BY <1>0, OneChildChanges DEF RecognizerTypeOK
    <2>2. UNCHANGED <<outcome, armed, resident>> /\ ~NeverUsed(child[k])
      BY <1>4 DEF Die, Written, NeverUsed
    <2> QED BY <1>0, <2>1, <2>2 DEF RecognizerInv, RecognizerTypeOK, WaitedIsInPipe, UsableIsEmpty,
               QueuedIsUnspawned, AnswersOwnCall, OneRecognizer
  <1>5. ASSUME NEW k \in Call, Data(k) PROVE RecognizerInv'
    <2> DEFINE r == child[k].pending
               read == [child EXCEPT ![k].stdout = Tail(@), ![k].pending = Nobody]
    <2>1. child[k].stdout # <<>> /\ r \in {Nobody} \cup Call
      BY <1>5, <1>a DEF Data, ChildRow
    <2>2. /\ read \in [Call -> ChildRow]
          /\ read[k].stdout = Tail(child[k].stdout) /\ read[k].pending = Nobody
          /\ read[k].stdin = child[k].stdin
          /\ \A l \in Call : /\ read[l].life = child[l].life /\ read[l].killed = child[l].killed
                             /\ l # k => read[l] = child[l]
      <3>1. Tail(child[k].stdout) \in Seq(Call)
        BY <1>a, <2>1 DEF ChildRow
      <3> DEFINE old == child[k]
                 rest == Tail(old.stdout)
                 row == [old EXCEPT !.stdout = rest, !.pending = Nobody]
      <3>2. child \in [Call -> ChildRow] /\ old \in ChildRow
        BY <1>0, <1>a DEF RecognizerTypeOK
      <3>3. read = [child EXCEPT ![k] = row]
        BY <3>2
      <3> HIDE DEF old, rest, read
      <3>4. rest \in Seq(Call)
        BY <3>1 DEF old, rest
      <3>5. /\ row \in ChildRow /\ row.stdout = rest /\ row.pending = Nobody
            /\ row.stdin = old.stdin /\ row.life = old.life /\ row.killed = old.killed
        BY <3>2, <3>4 DEF ChildRow
      <3> HIDE DEF row
      <3>6. /\ read \in [Call -> ChildRow] /\ read[k] = row
            /\ \A l \in Call \ {k} : read[l] = child[l]
        BY <3>2, <3>3, <3>5, OneChildChanges
      <3> QED BY <3>5, <3>6 DEF old, rest
    <2>3. \A l \in Call : NeverUsed(child[l]) => NeverUsed(read[l])
      <3> HIDE DEF read
      <3> QED BY <2>1, <2>2 DEF NeverUsed
    <2>4. r # Nobody => /\ Head(child[k].stdout) = r /\ Tail(child[k].stdout) = <<>>
                        /\ child[k].stdin = <<>>
      <3> SUFFICES ASSUME r # Nobody
                   PROVE  /\ Head(child[k].stdout) = r /\ Tail(child[k].stdout) = <<>>
                          /\ child[k].stdin = <<>>
        OBVIOUS
      <3>1. child[k].stdout = <<r>> /\ child[k].stdin = <<>>
        BY <1>0, <2>1 DEF WaitedIsInPipe
      <3> QED BY <3>1
    <2>5. CASE StopResident(read) /\ armed' \subseteq armed
               /\ (UNCHANGED outcome \/ Settle(r, "failed", Nobody))
      <3>1. /\ outcome' \in [Call -> OutcomeRow] /\ AnswersOwnCall'
            /\ \A q \in Call : outcome'[q].state = "queued" => outcome[q].state = "queued"
        <4>1. CASE UNCHANGED outcome
          BY <1>0, <4>1 DEF RecognizerTypeOK, AnswersOwnCall
        <4>2. CASE Settle(r, "failed", Nobody)
          BY <1>0, <2>1, <4>2, SettleKeeps
        <4> QED BY <2>5, <4>1, <4>2
      <3> HIDE DEF read
      <3>2. /\ resident' = NoChild /\ child' \in [Call -> ChildRow]
            /\ \A l \in Call : /\ child'[l].pending = read[l].pending
                               /\ child'[l].stdin = read[l].stdin
                               /\ child'[l].stdout = read[l].stdout
            /\ UsableIsEmpty' /\ QueuedIsUnspawned' /\ OneRecognizer'
        BY <1>0, <2>2, <2>3, <2>5, <3>1, StopKeeps
      <3>3. WaitedIsInPipe'
        BY <1>0, <2>2, <3>2 DEF WaitedIsInPipe
      <3> QED BY <1>0, <2>5, <3>1, <3>2, <3>3 DEF RecognizerInv, RecognizerTypeOK
    <2>6. CASE /\ r # Nobody /\ Settle(r, "answered", Head(child[k].stdout))
               /\ armed' = armed \ {r} /\ child' = read /\ UNCHANGED resident
      <3>1. /\ outcome' \in [Call -> OutcomeRow] /\ AnswersOwnCall'
            /\ \A q \in Call : outcome'[q].state = "queued" => outcome[q].state = "queued"
        BY <1>0, <2>1, <2>4, <2>6, SettleKeeps
      <3>2. WaitedIsInPipe'
        BY <1>0, <2>2, <2>6 DEF WaitedIsInPipe
      <3>3. UsableIsEmpty'
        BY <1>0, <2>2, <2>4, <2>6 DEF UsableIsEmpty
      <3>4. QueuedIsUnspawned'
        BY <1>0, <2>3, <2>6, <3>1 DEF QueuedIsUnspawned
      <3>5. OneRecognizer'
        BY <1>0, <2>2, <2>6 DEF OneRecognizer
      <3> QED BY <1>0, <2>2, <2>6, <3>1, <3>2, <3>3, <3>4, <3>5 DEF RecognizerInv, RecognizerTypeOK
    <2> QED BY <1>5, <2>5, <2>6 DEF Data
  <1>6. ASSUME NEW k \in Call, Close(k) PROVE RecognizerInv'
    <2>1. /\ child[k].life = "dead" /\ Settle(child[k].pending, "failed", Nobody)
          /\ armed' \subseteq armed
          /\ child' = [child EXCEPT ![k].life = "closed", ![k].pending = Nobody]
          /\ resident' = IF resident = k THEN NoChild ELSE resident
      BY <1>6 DEF Close
    <2>2. /\ outcome' \in [Call -> OutcomeRow] /\ AnswersOwnCall'
          /\ \A q \in Call : outcome'[q].state = "queued" => outcome[q].state = "queued"
      <3>1. child[k].pending \in {Nobody} \cup Call
        BY <1>a DEF ChildRow
      <3> QED BY <1>0, <2>1, <3>1, SettleKeeps
    <2>3. /\ child' \in [Call -> ChildRow]
          /\ child'[k].life = "closed" /\ child'[k].pending = Nobody
          /\ \A l \in Call \ {k} : child'[l] = child[l]
      <3> DEFINE old == child[k]
                 row == [old EXCEPT !.life = "closed", !.pending = Nobody]
      <3>1. child \in [Call -> ChildRow]
        BY <1>0 DEF RecognizerTypeOK
      <3>2. child' = [child EXCEPT ![k] = row]
        BY <2>1, <3>1
      <3>3. row \in ChildRow /\ row.life = "closed" /\ row.pending = Nobody
        <4>1. old \in ChildRow
          BY <1>a
        <4> HIDE DEF old
        <4> QED BY <4>1 DEF ChildRow
      <3> HIDE DEF row
      <3> QED BY <3>1, <3>2, <3>3, OneChildChanges
    <2>4. WaitedIsInPipe' /\ UsableIsEmpty'
      BY <1>0, <2>1, <2>3 DEF WaitedIsInPipe, UsableIsEmpty
    <2>5. QueuedIsUnspawned'
      BY <1>0, <2>1, <2>2, <2>3 DEF QueuedIsUnspawned, NeverUsed
    <2>6. OneRecognizer'
      BY <1>0, <2>1, <2>3 DEF OneRecognizer
    <2> QED BY <1>0, <2>1, <2>2, <2>3, <2>4, <2>5, <2>6 DEF RecognizerInv, RecognizerTypeOK
  <1>7. ASSUME NEW k \in Call, WriteFails(k) PROVE RecognizerInv'
    <2> DEFINE w == Head(child[k].writing)
               kids == [child EXCEPT ![k].writing = Tail(@), ![k].pending = Nobody]
    <2>1. /\ child[k].writing # <<>> /\ StopResident(kids)
          /\ \/ UNCHANGED <<outcome, armed>>
             \/ Settle(w, "failed", Nobody) /\ armed' = armed \ {w}
      BY <1>7 DEF WriteFails
    <2>a. w \in Call
      BY <1>a, <2>1 DEF ChildRow
    <2> HIDE DEF w
    <2>2. /\ outcome' \in [Call -> OutcomeRow] /\ AnswersOwnCall'
          /\ \A q \in Call : outcome'[q].state = "queued" => outcome[q].state = "queued"
      <3>1. CASE UNCHANGED outcome
        BY <1>0, <3>1 DEF RecognizerTypeOK, AnswersOwnCall
      <3>2. CASE Settle(w, "failed", Nobody)
        BY <1>0, <2>a, <3>2, SettleKeeps
      <3> QED BY <2>1, <3>1, <3>2
    <2>3. /\ kids \in [Call -> ChildRow]
          /\ \A l \in Call : /\ kids[l].life = child[l].life /\ kids[l].killed = child[l].killed
                             /\ kids[l].stdin = child[l].stdin /\ kids[l].stdout = child[l].stdout
                             /\ kids[l].pending \in {child[l].pending, Nobody}
                             /\ NeverUsed(child[l]) => NeverUsed(kids[l])
      <3> DEFINE old == child[k]
                 writing == Tail(old.writing)
                 row == [old EXCEPT !.writing = writing, !.pending = Nobody]
      <3>1. child \in [Call -> ChildRow]
        BY <1>0 DEF RecognizerTypeOK
      <3>2. kids = [child EXCEPT ![k] = row]
        BY <3>1
      <3> HIDE DEF kids
      <3>3. /\ row \in ChildRow /\ row.life = child[k].life /\ row.killed = child[k].killed
            /\ row.stdin = child[k].stdin /\ row.stdout = child[k].stdout
            /\ row.pending = Nobody
            /\ NeverUsed(child[k]) => NeverUsed(row)
        <4>1. old \in ChildRow /\ writing \in Seq(Call)
          BY <1>a, <2>1 DEF ChildRow
        <4> HIDE DEF old, writing
        <4>2. /\ row \in ChildRow /\ row.life = old.life /\ row.killed = old.killed
              /\ row.stdin = old.stdin /\ row.stdout = old.stdout
              /\ row.pending = Nobody /\ row.writing = writing
          BY <4>1 DEF ChildRow
        <4>3. ~NeverUsed(child[k])
          BY <2>1 DEF NeverUsed
        <4> HIDE DEF row
        <4> QED BY <4>2, <4>3 DEF old
      <3> HIDE DEF row
      <3> QED BY <3>1, <3>2, <3>3, OneChildChanges
    <2> HIDE DEF kids
    <2>4. /\ resident' = NoChild /\ child' \in [Call -> ChildRow]
          /\ \A l \in Call : /\ child'[l].pending = kids[l].pending
                             /\ child'[l].stdin = kids[l].stdin
                             /\ child'[l].stdout = kids[l].stdout
          /\ UsableIsEmpty' /\ QueuedIsUnspawned' /\ OneRecognizer'
      BY <1>0, <2>1, <2>2, <2>3, StopKeeps
    <2>5. WaitedIsInPipe'
      BY <1>0, <2>3, <2>4 DEF WaitedIsInPipe
    <2> QED BY <1>0, <2>1, <2>2, <2>4, <2>5 DEF RecognizerInv, RecognizerTypeOK
  <1>8. CASE UNCHANGED recognizerVars
    BY <1>0, <1>8 DEF recognizerVars, RecognizerInv, RecognizerTypeOK, WaitedIsInPipe,
       UsableIsEmpty, QueuedIsUnspawned, AnswersOwnCall, OneRecognizer
  <1> QED BY <1>1, <1>2, <1>3, <1>4, <1>5, <1>6, <1>7, <1>8 DEF RecognizerNext

\* The inductive invariant holds of the recogniser, whatever its processes do and in whatever
\* order their events come.
THEOREM RecognizerInvariant == RecognizerSpec => []RecognizerInv
  BY RecognizerInitially, RecognizerStep, PTL DEF RecognizerSpec

\* The recogniser's state has its types, the pipes included.
THEOREM RecognizerTyped == RecognizerSpec => []RecognizerTypeOK
  BY RecognizerInvariant, PTL DEF RecognizerInv

\* A call is answered with the answer to its own request: no answer of a slow or replaced process
\* reaches another call.
THEOREM RecognizerAnswersOwn == RecognizerSpec => []AnswersOwnCall
  BY RecognizerInvariant, PTL DEF RecognizerInv

\* Replacing a recogniser leaves no process behind that nobody has told to end.
THEOREM RecognizerIsOne == RecognizerSpec => []OneRecognizer
  BY RecognizerInvariant, PTL DEF RecognizerInv

\* Replacing a process confuses neither answers nor processes.
THEOREM RecognizerIsSafe == RecognizerSpec => []RecognizerSafe
  BY RecognizerAnswersOwn, RecognizerIsOne, PTL DEF RecognizerSafe

-----------------------------------------------------------------------------
(***************************************************************************)
(* The services side by side.  A behaviour of ServicesSpec takes the steps *)
(* of one of them, so each keeps its own invariant, and the others too.    *)
(***************************************************************************)

\* The invariants of all services.
ServicesInv ==
    /\ ConnectionInv /\ RebuildInv /\ RemovalInv /\ PackInv /\ FolderInv /\ ImportInv
    /\ RecognizerInv

LEMMA ServicesInitFits == ServicesInit => ServicesInv
  BY ConnectionInitInv, RebuildInitInv, RemovalInit, PackInitially, FolderInvInit, ImportInitInv,
     RecognizerInitially
  DEF ServicesInit, ServicesInv

\* What one service does is a step of its own, and none of the others.
LEMMA ServicesStepApart ==
    ASSUME [ServicesNext]_serviceVars
    PROVE  /\ [ConnectionNext]_connectionVars /\ [RebuildNext]_rebuildVars
           /\ [InventoryNext]_inventoryVars /\ [PackNext]_packVars /\ [FolderNext]_folderVars
           /\ [ImportNext]_importVars /\ [RecognizerNext]_recognizerVars
  BY DEF ServicesNext, In, serviceVars, connectionRest, rebuildRest, inventoryRest, packRest,
     folderRest, importRest, recognizerRest

LEMMA ServicesStepKeeps == ServicesInv /\ [ServicesNext]_serviceVars => ServicesInv'
  BY ServicesStepApart, ConnectionNextInv, RebuildStep, RemovalNext, PackStep, FolderInvNext,
     ImportNextInv, RecognizerStep
  DEF ServicesInv

\* Side by side the services keep what each of them keeps, for any number of calls, requests,
\* photos, packs, items, imports and processes.
THEOREM ServicesInvariant == ServicesSpec => []ServicesInv
  BY ServicesInitFits, ServicesStepKeeps, PTL DEF ServicesSpec

\* The state of each service keeps its type.
THEOREM ServicesTyped == ServicesSpec => []ServicesTypeOK
  <1>1. ServicesInv => ServicesTypeOK
    BY ConnectionTypes, FolderTypes
    DEF ServicesInv, ServicesTypeOK, RebuildInv, RemovalInv, Typed, PackInv, ImportInv, RecognizerInv
  <1> QED BY <1>1, ServicesInvariant, PTL
=============================================================================
