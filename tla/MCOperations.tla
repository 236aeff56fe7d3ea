---------------------------- MODULE MCOperations ----------------------------
(***************************************************************************)
(* The ledger under arbitrary callers, the ledger under the operator, and  *)
(* three components that share no state with it, as one run: a behaviour   *)
(* picks one part and takes its steps, while the others stay in their      *)
(* initial states.  Small instances of each.                               *)
(***************************************************************************)
EXTENDS MediaOperator, MigrationRunner, BoundedBacklog, FaceCorrection

CONSTANTS
    Part,                           \* the parts that run
    j1, j2, a1, w1,                 \* two jobs of one asset, and a worker
    pause, resume, run,             \* the operator's commands
    x1, x2, x3, p1, p2,             \* three calls, and two processes
    r1, r2, r3, r4,                 \* starts of four releases
    v1, v2, v3, e2, q1              \* their migrations (two claim number 2), and a patch

MCAssetOf == [j \in Job |-> a1]
MCKindOf == [c \in Command |-> CASE c = pause -> "pause" [] c = resume -> "resume" [] c = run -> "run"]
MCProcessOf == [x \in Call |-> IF x = x1 THEN p1 ELSE p2]
MCVersions == [s \in Start |-> CASE s = r1 -> <<v1, v2>>
                                 [] s = r4 -> <<v1, e2>>
                                 [] OTHER -> <<v1, v2, v3>>]
MCPatches == [s \in Start |-> IF s \in {r2, r4} THEN <<q1>> ELSE <<>>]
MCLegacy == {<<v1>>, <<v1, v2>>}

VARIABLE part

callVars == <<command, call, applied>>
otherVars == <<migrationVars, backlogVars, correctionVars>>

operationsVars == <<part, operatorVars, otherVars>>

OperationsInit ==
    /\ part \in Part
    /\ OperatorInit /\ (part = "ledger" \/ asset = [a \in Asset |-> "active"])
    /\ MigrationInit /\ (part = "migrations" \/ schema = <<>>)
    /\ BacklogInit /\ (part = "backlog" \/ gate = "running")
    /\ CorrectionInit /\ (part = "faces" \/ Len(claims) = 1)

\* The operator's part has one of the jobs, one of the workers, jobs of one attempt, and one of the
\* errors a worker reports and of those a suspension leaves behind.  Of the two calls one process
\* serves, which are alike, one is the first.
OneOfEach ==
    /\ job'[j2] = NoRow
    /\ job'[j1].owner \in {w1, None} /\ job'[j1].limit < 2
    /\ job'[j1].error \notin {"ASSET_NOT_VISIBLE", "IMMICH_ASSET_PROJECTION_UNAVAILABLE"}
    /\ call'[x3].pc = "new" \/ call'[x2].pc # "new"

OperationsNext ==
    /\ UNCHANGED part
    /\ \/ /\ part = "ledger" /\ LedgerNext
          /\ control' = "paused"   \* jobs pause here without it; NothingStranded is the operator's
          /\ UNCHANGED <<callVars, otherVars>>
       \/ /\ part = "operator" /\ OperatorNext /\ OneOfEach
          /\ UNCHANGED otherVars
       \/ /\ part = "migrations" /\ MigrationNext
          /\ UNCHANGED <<operatorVars, backlogVars, correctionVars>>
       \/ /\ part = "backlog" /\ BacklogNext
          /\ UNCHANGED <<operatorVars, migrationVars, correctionVars>>
       \/ /\ part = "faces" /\ CorrectionNext
          /\ UNCHANGED <<operatorVars, migrationVars, backlogVars>>

\* That of LedgerFairSpec.
OperationsFairness ==
    /\ WF_ledgerVars(part = "ledger" /\ Tick)
    /\ WF_ledgerVars(part = "ledger" /\ Claim)

OperationsSpec == OperationsInit /\ [][OperationsNext]_operationsVars /\ OperationsFairness

-----------------------------------------------------------------------------

\* The state of every part keeps its type, the command rows meet their table's CHECK.
OperationsTypeOK ==
    LedgerTypeOK /\ OperatorTypeOK /\ MigrationTypeOK /\ BacklogTypeOK /\ CorrectionTypeOK

\* LeaseRecovered, where the fairness it needs is assumed, of one job: the two are alike.
LedgerLeaseRecovered == part = "ledger" => LeaseRecoveredOf(j1)
=============================================================================
