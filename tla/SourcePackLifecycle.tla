------------------------ MODULE SourcePackLifecycle ------------------------
(***************************************************************************)
(* The SourcePacks of one model and configuration, from compilation to     *)
(* retirement.  A pack becomes active for recognition only with a passed   *)
(* gate receipt and when every face it contains is trusted: a trigger      *)
(* tests that, and a correction of a claim retires, in its own             *)
(* transaction, the active packs that contain the claim's face.            *)
(*                                                                         *)
(* A pack contains canonical faces.  Observations of one physical face are *)
(* grouped under one of them, and the trigger trusts a face for an         *)
(* accepted claim of any observation in its group.  Groups are what the    *)
(* last refresh has made of them.                                          *)
(*                                                                         *)
(* Activation, rollback and correction are transactions of several steps;  *)
(* a statement reads what is committed, waits for the rows it locks and    *)
(* then looks at them again.  The other commands touch one row: a step.    *)
(*                                                                         *)
(* Left out: the contents of evaluations; the packs that only serve to     *)
(* evaluate others (their state shadow has the guards of proposed); the    *)
(* persons of claims (a pack is about one) and their origins; the life of  *)
(* drawn faces; moves of regions, which retire the packs that contain the  *)
(* face by a statement of their own.                                       *)
(***************************************************************************)
EXTENDS FiniteSets

CONSTANTS
    Pack,           \* SourcePacks
    Face,           \* face observations
    Evidence,       \* [Pack -> the faces the pack contains]
    Operator        \* sessions that activate and roll back

ASSUME PackAssumption == Evidence \in [Pack -> SUBSET Face]

VARIABLES
    pack,           \* [Pack -> its committed row]
    accepted,       \* the faces with an accepted claim
    valid,          \* the faces that are not rejected
    canonical,      \* [Face -> the face its physical face goes by]
    session,        \* [Operator -> the state of its transaction]
    correcting,     \* [Face -> the state of a transaction that corrects it]
    rejected,       \* packs whose policy was rejected (history)
    crossed,        \* packs whose last activation overlapped a correction of them (history)
    strayed         \* packs that lost trust where no trigger looks, after the gate (history)

faceVars == <<accepted, valid, canonical>>
packVars == <<pack, faceVars, session, correcting, rejected, crossed, strayed>>

-----------------------------------------------------------------------------

NoPack == "no pack"
Uncompiled == [state |-> "none", status |-> "untested", receipt |-> FALSE, predecessor |-> NoPack]
NoSession == [pc |-> "idle", pack |-> NoPack, targets |-> {}, locks |-> {}]
NoCorrection == [pc |-> "idle", targets |-> {}, locks |-> {}]

PackInit ==
    /\ pack = [p \in Pack |-> Uncompiled]
    /\ accepted = Face /\ valid = Face
    /\ canonical = [f \in Face |-> f]
    /\ session = [o \in Operator |-> NoSession]
    /\ correcting = [f \in Face |-> NoCorrection]
    /\ rejected = {}
    /\ crossed = {} /\ strayed = {}

Active == {p \in Pack : pack[p].state = "active"}
Held(p) == \/ \E o \in Operator : p \in session[o].locks
           \/ \E f \in Face : p \in correcting[f].locks

\* Every face of the pack is valid, and some observation of its physical face is accepted.
Trusted(p) ==
    \A r \in Evidence[p] :
        r \in valid /\ \E f \in accepted \cap valid : canonical[f] = canonical[r]

Retire(rows) == [p \in Pack |-> IF p \in rows THEN [pack[p] EXCEPT !.state = "retired"] ELSE pack[p]]

-----------------------------------------------------------------------------
(* Compilation, evaluation and review *)

\* The pack that was active when the compiler looked may be retired by now.
PersistPack(p) ==
    /\ pack[p].state = "none"
    /\ \E q \in {NoPack} \cup {r \in Pack : pack[r].state \in {"active", "retired"}} :
        pack' = [pack EXCEPT ![p] = [Uncompiled EXCEPT !.state = "proposed", !.predecessor = q]]
    /\ UNCHANGED <<faceVars, session, correcting, rejected, crossed, strayed>>

\* Evaluators do not look at the state; the trigger keeps an active pack passed and trusted.
\* The summary they leave is no gate receipt.
PersistEvaluation(p, status) ==
    /\ pack[p].state # "none" /\ ~Held(p)
    /\ pack[p].state = "active" => status = "passed" /\ Trusted(p)
    /\ pack' = [pack EXCEPT ![p].status = status, ![p].receipt = FALSE]
    /\ UNCHANGED <<faceVars, session, correcting, rejected, crossed, strayed>>

GateRecordableRetired(row) == row.state \in {"proposed", "retired"}
GateRecordable(row) == row.state = "proposed"

PersistGateReceipt(p, status) ==
    /\ GateRecordable(pack[p]) /\ ~Held(p)
    /\ pack' = [pack EXCEPT ![p].status = status, ![p].receipt = TRUE]
    /\ UNCHANGED <<faceVars, session, correcting, rejected, crossed, strayed>>

RetireRejected(p) ==
    /\ pack[p].state \in {"active", "retired"} /\ ~Held(p)
    /\ pack' = [pack EXCEPT ![p].state = "retired", ![p].status = "failed", ![p].receipt = FALSE]
    /\ rejected' = rejected \cup {p}
    /\ UNCHANGED <<faceVars, session, correcting, crossed, strayed>>

-----------------------------------------------------------------------------
(* Activation and rollback *)

Proceed(o, next) ==
    /\ session' = [session EXCEPT ![o] = next]
    /\ UNCHANGED <<pack, faceVars, correcting, rejected>>

Proved(row) == row.status = "passed" /\ row.receipt

LockCandidate(o, p) ==
    /\ session[o].pc = "idle" /\ ~Held(p)
    /\ pack[p].state \in {"proposed", "retired"} /\ Proved(pack[p])
    /\ Proceed(o, [NoSession EXCEPT !.pc = "candidate", !.pack = p, !.locks = {p}])
    /\ UNCHANGED <<crossed, strayed>>

\* SELECT ... FOR UPDATE of the active pack: read, waited for, and looked at again.
ReadActive(o) ==
    /\ session[o].pc = "candidate"
    /\ Proceed(o, [session[o] EXCEPT !.pc = "locking", !.targets = Active])
    /\ UNCHANGED <<crossed, strayed>>

LockActive(o) ==
    LET s == session[o] IN
    /\ s.pc = "locking"
    /\ \A p \in s.targets : ~Held(p)
    /\ Proceed(o, [s EXCEPT !.pc = "gating", !.targets = {},
                            !.locks = @ \cup (s.targets \cap Active)])
    /\ UNCHANGED <<crossed, strayed>>

LockRolledBack(o, p) ==
    /\ session[o].pc = "idle" /\ ~Held(p)
    /\ pack[p].state = "active" /\ pack[p].predecessor # NoPack
    /\ Proceed(o, [NoSession EXCEPT !.pc = "restoring", !.pack = p, !.locks = {p}])
    /\ UNCHANGED <<crossed, strayed>>

LockPredecessor(o) ==
    LET s == session[o]
        q == pack[s.pack].predecessor
    IN
    /\ s.pc = "restoring" /\ ~Held(q)
    /\ Proceed(o, IF Proved(pack[q])
                  THEN [s EXCEPT !.pc = "gating", !.pack = q, !.locks = @ \cup {q}]
                  ELSE NoSession)
    /\ UNCHANGED <<crossed, strayed>>

Gate(p) == Trusted(p)

\* The trigger looks at the evidence of the pack as it is committed.
PassGate(o) ==
    LET s == session[o] IN
    /\ s.pc = "gating"
    /\ Proceed(o, IF Gate(s.pack) THEN [s EXCEPT !.pc = "indexing"] ELSE NoSession)
    /\ crossed' = IF \E f \in Evidence[s.pack] : correcting[f].pc # "idle"
                  THEN crossed \cup {s.pack} ELSE crossed \ {s.pack}
    /\ strayed' = strayed \ {s.pack}

\* One active pack: the unique index waits for an open activation, and for a correction that
\* retires the active pack, and refuses what is then a second one.
PassIndex(o) ==
    LET s == session[o] IN
    /\ s.pc = "indexing"
    /\ \A q \in Operator : session[q].pc # "activated"
    /\ \A f \in Face : correcting[f].locks = {}
    /\ Proceed(o, IF Active \subseteq s.locks THEN [s EXCEPT !.pc = "activated"] ELSE NoSession)
    /\ UNCHANGED <<crossed, strayed>>

CommitActivation(o) ==
    LET s == session[o] IN
    /\ s.pc = "activated"
    /\ pack' = [Retire(s.locks \ {s.pack}) EXCEPT ![s.pack].state = "active"]
    /\ session' = [session EXCEPT ![o] = NoSession]
    /\ UNCHANGED <<faceVars, correcting, rejected, crossed, strayed>>

\* The connection ends, or the transaction is the victim of a deadlock.
AbortActivation(o) ==
    /\ session[o].pc # "idle"
    /\ Proceed(o, NoSession)
    /\ UNCHANGED <<crossed, strayed>>

-----------------------------------------------------------------------------
(* Corrections *)

\* The packs the gate has let through for the activations under way.
Passed == {session[o].pack : o \in {q \in Operator : session[q].pc \in {"indexing", "activated"}}}

\* What no trigger looks at: claims of faces a pack does not contain, and physical faces.
Stray(packs) == strayed' = strayed \cup {p \in packs \cap (Active \cup Passed) : ~Trusted(p)'}

\* The trigger's update finds the active packs with the face itself...
StartCorrection(f) ==
    /\ f \in accepted /\ correcting[f].pc = "idle"
    /\ correcting' = [correcting EXCEPT ![f] =
            [NoCorrection EXCEPT !.pc = "retiring", !.targets = {p \in Active : f \in Evidence[p]}]]
    /\ crossed' = crossed \cup {p \in Passed : f \in Evidence[p]}
    /\ UNCHANGED <<pack, faceVars, session, rejected, strayed>>

\* ... waits for their rows, and retires those that are still active.
LockTargets(f) ==
    /\ correcting[f].pc = "retiring"
    /\ \A p \in correcting[f].targets : ~Held(p)
    /\ correcting' = [correcting EXCEPT ![f].pc = "retired", ![f].targets = {},
                                        ![f].locks = correcting[f].targets \cap Active]
    /\ UNCHANGED <<pack, faceVars, session, rejected, crossed, strayed>>

RetireesNone(f) == {}
Retirees(f) == correcting[f].locks

\* The claim is withdrawn, given to another person, or goes with its face ("not a face").
CommitCorrected(f) ==
    /\ correcting[f].pc = "retired"
    /\ pack' = Retire(Retirees(f))
    /\ accepted' = accepted \ {f}
    /\ valid' \in {valid, valid \ {f}}
    /\ correcting' = [correcting EXCEPT ![f] = NoCorrection]
    /\ UNCHANGED <<canonical, session, rejected, crossed>>
    /\ Stray({p \in Pack : f \notin Evidence[p]})

AbortCorrection(f) ==
    /\ correcting[f].pc # "idle"
    /\ correcting' = [correcting EXCEPT ![f] = NoCorrection]
    /\ UNCHANGED <<pack, faceVars, session, rejected, crossed, strayed>>

\* The face is accepted, again or by another command; the undo of a rejection brings back the face,
\* and the claim if it had one.
AcceptFace(f) ==
    /\ f \notin accepted
    /\ accepted' = accepted \cup {f}
    /\ valid' \in {valid, valid \cup {f}}
    /\ UNCHANGED <<pack, canonical, session, correcting, rejected, crossed, strayed>>

\* rejectObservation of a face without an accepted claim fires no trigger.
RejectFace(f) ==
    /\ f \in valid \ accepted
    /\ valid' = valid \ {f}
    /\ UNCHANGED <<pack, accepted, canonical, session, correcting, rejected, crossed>>
    /\ Stray(Pack)

RestoreFace(f) ==
    /\ f \notin valid
    /\ valid' = valid \cup {f}
    /\ UNCHANGED <<pack, accepted, canonical, session, correcting, rejected, crossed, strayed>>

\* The refresh groups the valid faces anew, by their regions and claims; the others have no group.
Groupings ==
    {g \in [Face -> Face] : \A f \in Face : g[g[f]] = g[f] /\ (f \in valid <=> g[f] \in valid)
                                            /\ (f \notin valid => g[f] = f)}

RefreshPhysicalFaces ==
    /\ canonical' \in Groupings \ {canonical}
    /\ UNCHANGED <<pack, accepted, valid, session, correcting, rejected, crossed>>
    /\ Stray(Pack)

-----------------------------------------------------------------------------

PackNext ==
    \/ \E p \in Pack : PersistPack(p) \/ RetireRejected(p)
    \/ \E p \in Pack, status \in {"passed", "failed"} :
        PersistEvaluation(p, status) \/ PersistGateReceipt(p, status)
    \/ \E o \in Operator, p \in Pack : LockCandidate(o, p) \/ LockRolledBack(o, p)
    \/ \E o \in Operator : ReadActive(o) \/ LockActive(o) \/ LockPredecessor(o) \/ PassGate(o)
                            \/ PassIndex(o) \/ CommitActivation(o) \/ AbortActivation(o)
    \/ \E f \in Face : StartCorrection(f) \/ LockTargets(f) \/ CommitCorrected(f)
                        \/ AbortCorrection(f) \/ AcceptFace(f) \/ RejectFace(f) \/ RestoreFace(f)
    \/ RefreshPhysicalFaces

PackSpec == PackInit /\ [][PackNext]_packVars

-----------------------------------------------------------------------------
(* Properties *)

PackTypeOK ==
    /\ pack \in [Pack -> [state : {"none", "proposed", "active", "retired"},
                          status : {"untested", "passed", "failed"}, receipt : BOOLEAN,
                          predecessor : Pack \cup {NoPack}]]
    /\ accepted \subseteq Face /\ valid \subseteq Face
    /\ canonical \in [Face -> Face]
    /\ session \in [Operator ->
            [pc : {"idle", "candidate", "locking", "restoring", "gating", "indexing", "activated"},
             pack : Pack \cup {NoPack}, targets : SUBSET Pack, locks : SUBSET Pack]]
    /\ correcting \in [Face -> [pc : {"idle", "retiring", "retired"},
                                targets : SUBSET Pack, locks : SUBSET Pack]]
    /\ rejected \subseteq Pack
    /\ crossed \subseteq Pack \cup {NoPack}
    /\ strayed \subseteq Pack \cup {NoPack}

\* "A passed pack is only safe while every referenced identity remains accepted"
\* (0027_source_pack_activation_performance_v1.sql:104): every face of an active pack is trusted,
\* however activations, rollbacks and corrections interleave, wait for each other and abort, with
\* two exceptions that contradict the sentence.  The activation overlapped a correction of a face
\* the pack contains: neither saw the other (crossed).  Or the trust was lost where no trigger
\* looks (strayed): the claim that vouched was of another observation of the physical face, the
\* groups were made anew, or a face without a claim of its own was rejected.
ActiveTrusted == \A p \in Active \ (crossed \cup strayed) : Trusted(p)

\* A pack whose policy was rejected is not active again, whatever is evaluated, reviewed, activated
\* or rolled back afterwards.
RejectedStaysRetired == \A p \in rejected : pack[p].state = "retired"
=============================================================================
