---------------------------- MODULE FaceCorrection ----------------------------
(***************************************************************************)
(* Corrections of one detected face: a person moves its region or says     *)
(* that it is no face at all, and takes either back.  Every correction     *)
(* names the revision and the decision it was made against, locks the      *)
(* face, keeps a snapshot of what hangs on it (identity claims and         *)
(* embeddings) and is stored under the commandId a client may repeat.      *)
(*                                                                         *)
(* Meanwhile others decide on the face's identity, and recognition stores  *)
(* embeddings; neither moves the face's revision.                          *)
(*                                                                         *)
(* Left out: bodies (the same with tags and a pose), visibility, a         *)
(* commandId reused with another payload (409, nothing written), the       *)
(* SourcePacks a correction retires (SourcePackLifecycle), and faces that  *)
(* a manual tag created and its undo withdraws.                            *)
(***************************************************************************)
EXTENDS Integers, Sequences

CONSTANTS
    Region,         \* regions a face may have
    Detected,       \* the one it was detected with
    Requests,       \* corrections and undos that are sent
    MaxClaims,      \* bound on identity claims of the face
    MaxEmbeddings,  \* bound on embeddings of the face
    MaxOtherwise    \* bound on what others do

ASSUME CorrectionAssumption ==
    /\ Requests \in Nat /\ 0 \notin Region /\ Detected \in Region
    /\ MaxClaims \in Nat \ {0} /\ MaxEmbeddings \in Nat \ {0} /\ MaxOtherwise \in Nat

Request == 1..Requests      \* numbered in the order they are sent
NoRequest == 0

VARIABLES
    face,           \* its row: region, state, revision and the decision that made it
    claims,         \* its identity_claim rows; a "not this person" names the row it denies
    embeddings,     \* its face_embedding rows
    request,        \* [Request -> how far it is, its command and what it was sent with]
    stored,         \* commands in observation_correction_command
    operation,      \* [Request -> its observation_correction_operation, with what it found]
    tombstones,     \* corrections whose rejection tombstone is active
    faceLock,       \* the transaction that holds the face's row
    operationLock,  \* the transaction that holds the row of an active operation
    otherwise       \* what others did to claims and embeddings so far (history)

evidenceVars == <<face, claims, embeddings>>
lockVars == <<faceLock, operationLock>>
recordVars == <<stored, operation, tombstones>>
correctionVars == <<evidenceVars, request, recordVars, lockVars, otherwise>>

-------------------------------------------------------------------------------

NewRequest == [pc |-> "new", command |-> NoRequest, kind |-> "none", region |-> NoRequest,
               revision |-> 0, decision |-> NoRequest, target |-> NoRequest]

Found == [face |-> face, claims |-> claims, embeddings |-> embeddings, otherwise |-> otherwise]

CorrectionInit ==
    /\ face = [region |-> Detected, state |-> "valid", revision |-> 1, decision |-> NoRequest]
    /\ embeddings = <<[state |-> "active", region |-> Detected]>>
    /\ \E rows \in {<<"accepted">>, <<"candidate", "candidate">>, <<"superseded", "rejected">>} :
        claims = [n \in DOMAIN rows |->
                    [state |-> rows[n], denies |-> IF rows[n] = "rejected" THEN 1 ELSE 0]]
    /\ request = [q \in Request |-> NewRequest]
    /\ stored = {} /\ tombstones = {}
    /\ faceLock = NoRequest /\ operationLock = NoRequest
    /\ otherwise = 0
    /\ operation = [q \in Request |-> [state |-> "none", kind |-> "none", found |-> Found]]

InState(rows, states) == {n \in DOMAIN rows : rows[n].state \in states}
SetState(rows, which, state) ==
    [n \in DOMAIN rows |-> IF n \in which THEN [rows[n] EXCEPT !.state = state] ELSE rows[n]]

\* The transaction ends, and its locks with it.
Over(q) ==
    /\ request' = [request EXCEPT ![q].pc = "over"]
    /\ faceLock' = IF faceLock = q THEN NoRequest ELSE faceLock
    /\ operationLock' = IF operationLock = q THEN NoRequest ELSE operationLock

Refused(q) == Over(q) /\ UNCHANGED <<evidenceVars, recordVars, otherwise>>

-------------------------------------------------------------------------------
(* The client *)

Sends(q, message) ==
    /\ \A p \in Request : request[p].pc = "new" <=> p >= q
    /\ request' = [request EXCEPT ![q] = message]
    /\ UNCHANGED <<evidenceVars, recordVars, lockVars, otherwise>>

\* A correction of the face as the client sees it.
Ask(q, kind, region) ==
    /\ face.state = "valid"
    /\ Sends(q, [pc |-> "sent", command |-> q, kind |-> kind, region |-> region,
                 revision |-> face.revision, decision |-> face.decision, target |-> NoRequest])

AskUndo(q, target) ==
    /\ operation[target].state = "active"
    /\ Sends(q, [NewRequest EXCEPT !.pc = "sent", !.command = q, !.kind = "undo",
                                   !.target = target])

\* No answer came: the same command again.
Repeat(q, p) ==
    /\ request[p].pc # "new" /\ request[p].command = p
    /\ Sends(q, [request[p] EXCEPT !.pc = "sent"])

\* commandReplay: read before anything is locked.
LookUp(q) ==
    /\ request[q].pc = "sent"
    /\ \/ /\ request[q].command \in stored
          /\ Refused(q)
       \/ /\ request[q].command \notin stored
          /\ request' = [request EXCEPT ![q].pc = "checked"]
          /\ UNCHANGED <<evidenceVars, recordVars, lockVars, otherwise>>

-------------------------------------------------------------------------------
(* correctGeometry and rejectObservation *)

Corrects(q) == request[q].kind \in {"geometry", "not_face"}

\* assertHead
AtHeadUnchecked(q) == face.state = "valid"
AtHead(q) ==
    /\ face.revision = request[q].revision /\ face.decision = request[q].decision
    /\ face.state = "valid"

NothingToMove(q) == request[q].kind = "geometry" /\ request[q].region = face.region

\* The face is locked and the snapshot taken, which keeps nobody from deciding on a claim.  Where
\* the region is already the one asked for, the command is stored and nothing else; a repeat that
\* comes second fails on its primary key.
LockFace(q) ==
    /\ request[q].pc = "checked" /\ Corrects(q) /\ faceLock = NoRequest
    /\ \/ /\ ~AtHead(q)
          /\ Refused(q)
       \/ /\ AtHead(q) /\ NothingToMove(q)
          /\ Over(q)
          /\ stored' = stored \cup {request[q].command}
          /\ UNCHANGED <<evidenceVars, operation, tombstones, otherwise>>
       \/ /\ AtHead(q) /\ ~NothingToMove(q)
          /\ faceLock' = q
          /\ request' = [request EXCEPT ![q].pc = "locked"]
          /\ operation' = [operation EXCEPT ![q] = [@ EXCEPT !.kind = request[q].kind,
                                                           !.found = Found]]
          /\ UNCHANGED <<evidenceVars, stored, tombstones, operationLock, otherwise>>

\* supersedePriorCorrection, and the new operation in its place.  It waits for an undo that holds
\* the prior one.
RecordedBeside(q) ==
    /\ operationLock = NoRequest
    /\ operation' = [operation EXCEPT ![q].state = "active"]
    /\ stored' = stored \cup {request[q].command}
    /\ Over(q)
Recorded(q) ==
    /\ operationLock = NoRequest
    /\ operation' = [p \in Request |->
          IF p = q THEN [operation[p] EXCEPT !.state = "active"]
          ELSE IF operation[p].state = "active" THEN [operation[p] EXCEPT !.state = "superseded"]
          ELSE operation[p]]
    /\ stored' = stored \cup {request[q].command}
    /\ Over(q)

\* The embeddings of the old crop go, the claims stay.
CorrectGeometry(q) ==
    /\ request[q].pc = "locked" /\ request[q].kind = "geometry"
    /\ Recorded(q)
    /\ face' = [face EXCEPT !.region = request[q].region, !.revision = @ + 1, !.decision = q]
    /\ embeddings' = SetState(embeddings, InState(embeddings, {"active"}), "superseded")
    /\ UNCHANGED <<claims, tombstones, otherwise>>

\* The claims go, the embeddings stay.
RejectObservation(q) ==
    /\ request[q].pc = "locked" /\ request[q].kind = "not_face"
    /\ Recorded(q)
    /\ face' = [face EXCEPT !.state = "rejected", !.revision = @ + 1, !.decision = q]
    /\ claims' = SetState(claims, InState(claims, {"accepted", "candidate"}), "superseded")
    /\ tombstones' = tombstones \cup {q}
    /\ UNCHANGED <<embeddings, otherwise>>

-------------------------------------------------------------------------------
(* undo *)

Undoes(q) == request[q].kind = "undo"
Undone(q) == operation[request[q].target]

LockOperation(q) ==
    /\ request[q].pc = "checked" /\ Undoes(q) /\ operationLock = NoRequest
    /\ \/ /\ Undone(q).state # "active"
          /\ Refused(q)
       \/ /\ Undone(q).state = "active"
          /\ operationLock' = q
          /\ request' = [request EXCEPT ![q].pc = "locked"]
          /\ UNCHANGED <<evidenceVars, recordVars, faceLock, otherwise>>

\* The claims of the snapshot, and those among them that a later act has superseded.
SnapshotClaimsAccepted(found) == InState(found.claims, {"accepted"})
SnapshotClaims(found) == InState(found.claims, {"accepted", "candidate"})
ToRestore(found) == SnapshotClaims(found) \cap InState(claims, {"superseded"})

\* Another claim was accepted where the snapshot has an accepted one.
IdentityChanged(found) ==
    \E kept \in InState(found.claims, {"accepted"}) : InState(claims, {"accepted"}) \ {kept} # {}

\* An embedding comes back unless the face has got another.
RestoredEmbeddings(found) ==
    IF InState(embeddings, {"active"}) # {} THEN embeddings
    ELSE SetState(embeddings, InState(found.embeddings, {"active"}), "active")

Undo(q) ==
    /\ request[q].pc = "locked" /\ Undoes(q) /\ faceLock = NoRequest
    /\ LET found == Undone(q).found IN
       \/ /\ face.revision # found.face.revision + 1 \/ face.decision # request[q].target
             \/ IdentityChanged(found)
          /\ Refused(q)
       \/ /\ face.revision = found.face.revision + 1 /\ face.decision = request[q].target
          /\ ~IdentityChanged(found)
          /\ tombstones' = tombstones \ {request[q].target}
          /\ face' = [region |-> found.face.region, state |-> found.face.state,
                      revision |-> face.revision + 1, decision |-> q]
          /\ claims' = [n \in DOMAIN claims |-> IF n \in ToRestore(found) THEN found.claims[n]
                                                ELSE claims[n]]
          /\ embeddings' = RestoredEmbeddings(found)
          /\ operation' = [operation EXCEPT ![request[q].target].state = "reverted"]
          /\ stored' = stored \cup {request[q].command}
          /\ Over(q)
          /\ UNCHANGED otherwise

\* A statement fails, the process dies, or the transaction is the victim of a deadlock: an undo
\* locks the operation and then the face, a correction the other way round.
Aborts(q) == request[q].pc = "locked" /\ Refused(q)

-------------------------------------------------------------------------------
(* The others *)

OthersAct ==
    /\ otherwise < MaxOtherwise
    /\ otherwise' = otherwise + 1
    /\ UNCHANGED <<face, request, recordVars, lockVars>>

NoneAccepted == InState(claims, {"accepted"}) = {}

\* decideClaim: locks the claim, not the face, and looks at neither the face's state nor revision.
AcceptClaim(c) ==
    /\ claims[c].state = "candidate" /\ NoneAccepted
    /\ claims' = SetState(SetState(claims, InState(claims, {"candidate"}), "superseded"),
                          {c}, "accepted")
    /\ OthersAct /\ UNCHANGED embeddings

RejectClaim(c) ==
    /\ claims[c].state = "candidate"
    /\ claims' = SetState(claims, {c}, "rejected")
    /\ OthersAct /\ UNCHANGED embeddings

RestoreClaim(c) ==
    /\ claims[c].state = "rejected" /\ NoneAccepted
    /\ claims' = [claims EXCEPT ![c] = [state |-> "candidate", denies |-> 0]]
    /\ OthersAct /\ UNCHANGED embeddings

\* rejectAcceptedIdentity: a "not this person" row takes the accepted one's place.
NotThisPerson(c) ==
    /\ claims[c].state = "accepted" /\ face.state = "valid" /\ faceLock = NoRequest
    /\ Len(claims) < MaxClaims
    /\ claims' = Append(SetState(claims, {c}, "superseded"), [state |-> "rejected", denies |-> c])
    /\ OthersAct /\ UNCHANGED embeddings

\* undoIdentityCorrection: a new row says what the denied one said.
UndoNotThisPerson(c) ==
    /\ claims[c].state = "rejected" /\ claims[c].denies # 0
    /\ claims[claims[c].denies].state = "superseded" /\ NoneAccepted
    /\ face.state = "valid" /\ faceLock = NoRequest
    /\ Len(claims) < MaxClaims
    /\ claims' = Append(SetState(claims, {c}, "superseded"), [state |-> "accepted", denies |-> 0])
    /\ OthersAct /\ UNCHANGED embeddings

\* Recognition of a valid face replaces its embedding by one of its current crop.
Recognize ==
    /\ face.state = "valid" /\ Len(embeddings) < MaxEmbeddings
    /\ embeddings' = Append(SetState(embeddings, InState(embeddings, {"active"}), "superseded"),
                            [state |-> "active", region |-> face.region])
    /\ OthersAct /\ UNCHANGED claims

CorrectionNext ==
    \/ \E q \in Request :
          \/ \E region \in Region : Ask(q, "geometry", region)
          \/ Ask(q, "not_face", NoRequest)
          \/ \E target \in Request : AskUndo(q, target) \/ Repeat(q, target)
          \/ LookUp(q) \/ LockFace(q) \/ CorrectGeometry(q) \/ RejectObservation(q)
          \/ LockOperation(q) \/ Undo(q) \/ Aborts(q)
    \/ \E c \in DOMAIN claims :
          \/ AcceptClaim(c) \/ RejectClaim(c) \/ RestoreClaim(c)
          \/ NotThisPerson(c) \/ UndoNotThisPerson(c)
    \/ Recognize

CorrectionSpec == CorrectionInit /\ [][CorrectionNext]_correctionVars

-------------------------------------------------------------------------------
(* Properties *)

ClaimRow == [state : {"candidate", "accepted", "rejected", "superseded"}, denies : 0..MaxClaims]
EmbeddingRow == [state : {"active", "superseded"}, region : Region]
FaceRow == [region : Region, state : {"valid", "rejected"}, revision : Nat \ {0},
            decision : Request \cup {NoRequest}]

CorrectionTypeOK ==
    /\ face \in FaceRow
    /\ claims \in Seq(ClaimRow) /\ embeddings \in Seq(EmbeddingRow)
    /\ request \in [Request ->
          [pc : {"new", "sent", "checked", "locked", "over"}, command : Request \cup {NoRequest},
           kind : {"none", "geometry", "not_face", "undo"}, region : Region \cup {NoRequest},
           revision : Nat, decision : Request \cup {NoRequest},
           target : Request \cup {NoRequest}]]
    /\ stored \subseteq Request /\ tombstones \subseteq Request
    /\ operation \in [Request -> [state : {"none", "active", "superseded", "reverted"},
                                  kind : {"none", "geometry", "not_face"},
                                  found : [face : FaceRow, claims : Seq(ClaimRow),
                                           embeddings : Seq(EmbeddingRow), otherwise : Nat]]]
    /\ faceLock \in Request \cup {NoRequest} /\ operationLock \in Request \cup {NoRequest}
    /\ otherwise \in 0..MaxOtherwise

\* The last correction can always be taken back: the active operation is the one that made the
\* face what it is, and a face is rejected, and barred by a tombstone from every other way back,
\* only while its rejection is that operation.  No race of corrections, repeats and undos leaves a
\* rejection behind that nobody can undo.
RejectionReversible ==
    /\ \A q \in Request : operation[q].state = "active" =>
          face.decision = q /\ face.revision = operation[q].found.face.revision + 1
    /\ tombstones = {q \in Request : operation[q].state = "active" /\ operation[q].kind = "not_face"}
    /\ face.state = "rejected" <=> tombstones # {}

\* An undo restores what its correction found: region and state in any case, and, if nobody else
\* has touched them since, every claim and embedding.
UndoRestores ==
    [][\A q \in Request : operation[q].state = "active" /\ operation'[q].state = "reverted" =>
          LET found == operation[q].found IN
          /\ face'.region = found.face.region /\ face'.state = found.face.state
          /\ found.otherwise = otherwise =>
                claims' = found.claims /\ embeddings' = found.embeddings]_correctionVars

\* A command takes effect once, however often and however concurrently it is sent.
CommandAppliedOnce ==
    \A q, p \in Request :
        request[q].command = request[p].command /\ operation[q].state # "none"
            /\ operation[p].state # "none" => q = p

-------------------------------------------------------------------------------
(* What the documentation says, and the code does not do *)

\* "Face geometry changes ... [preserve] accepted human identity truth": where the region moves, by
\* a correction or its undo, the face keeps the identity it has.  service/README.md:1132-1134.
IdentityPreserved ==
    [][face'.region # face.region =>
          InState(claims', {"accepted"}) = InState(claims, {"accepted"})]_correctionVars
===============================================================================
