--------------------------- MODULE MigrationRunner ---------------------------
(***************************************************************************)
(* The schema migration runner, which every start of the service runs      *)
(* before it listens.  A release bundles a sequence of numbered migrations *)
(* and a sequence of patches that belong right after migration Base; two   *)
(* ledger tables record the source of each that was applied.  A session    *)
(* advisory lock lets one start at a time work; a start reads the ledgers, *)
(* compares them with its bundle, adopts a database that predates the      *)
(* ledger if it was told to, and applies what is missing, each body in one *)
(* transaction with its row.                                               *)
(*                                                                         *)
(* Starts of different releases race, die anywhere and are repeated.       *)
(* `schema' is what the database really holds: the bodies that were        *)
(* executed and committed, in order.                                       *)
(*                                                                         *)
(* Left out: execution times, the alias a renamed migration 131 is known   *)
(* by, and the checks of the bundle itself (numbers contiguous from 1,     *)
(* one outer BEGIN/COMMIT).                                                *)
(***************************************************************************)
EXTENDS Integers, Sequences, SequencesExt

CONSTANTS
    Start,          \* starts of the service
    Source,         \* migration and patch files, by checksum
    Versions,       \* [Start -> the migrations its release bundles]
    Patches,        \* [Start -> the patches its release bundles]
    Base,           \* the migration the patches follow, and the one adoption verifies up to
    Adopting,       \* the starts configured with adopt-existing
    Legacy,         \* what a database without a ledger may hold; the sentinels cannot tell more
    Nobody,         \* nobody holds the lock
    MaxFailures     \* bound on crashes and failing statements

ASSUME MigrationAssumption ==
    /\ Versions \in [Start -> Seq(Source)]
    /\ Patches \in [Start -> Seq(Source)]
    /\ Base \in Nat \ {0}
    /\ \A s \in Start : Patches[s] # <<>> => Len(Versions[s]) >= Base
    /\ Adopting \subseteq Start
    /\ \A held \in Legacy : held \in Seq(Source) /\ Len(held) \in 1..Base
    /\ \A held \in Legacy, s \in Adopting :
          Len(held) = Base /\ Len(Versions[s]) >= Base => held = SubSeq(Versions[s], 1, Base)
    /\ Nobody \notin Start
    /\ MaxFailures \in Nat

VARIABLES
    schema,         \* the bodies the database holds, in the order they were committed
    versionRows,    \* cimmich_schema_migration
    patchRows,      \* cimmich_schema_patch
    lockHolder,     \* the session that holds the advisory lock
    start,          \* [Start -> how far it has come, the ledgers as it read them, whether it wrote]
    predates,       \* the database was set up before there was a ledger (history)
    failures        \* crashes and failing statements so far

migrationVars == <<schema, versionRows, patchRows, lockHolder, start, predates, failures>>

-----------------------------------------------------------------------------

NewStart == [pc |-> "new", versions |-> <<>>, patches |-> <<>>, wrote |-> FALSE]

MigrationInit ==
    /\ schema \in Legacy \cup {<<>>}
    /\ predates = (schema # <<>>)
    /\ versionRows = <<>> /\ patchRows = <<>>
    /\ lockHolder = Nobody
    /\ start = [s \in Start |-> NewStart]
    /\ failures = 0

\* The runner returns or throws; its session unlocks either way.
Returns(s, outcome) ==
    /\ start' = [start EXCEPT ![s].pc = outcome]
    /\ lockHolder' = IF lockHolder = s THEN Nobody ELSE lockHolder

-----------------------------------------------------------------------------
(* Lock, read, adopt, compare *)

LockUnguarded(s) ==
    /\ start[s].pc = "new"
    /\ lockHolder' = s
    /\ start' = [start EXCEPT ![s].pc = "locked"]
    /\ UNCHANGED <<schema, versionRows, patchRows, predates, failures>>
Lock(s) ==
    /\ start[s].pc = "new" /\ lockHolder = Nobody
    /\ lockHolder' = s
    /\ start' = [start EXCEPT ![s].pc = "locked"]
    /\ UNCHANGED <<schema, versionRows, patchRows, predates, failures>>

ReadLedger(s) ==
    /\ start[s].pc = "locked"
    /\ start' = [start EXCEPT ![s].pc = "read", ![s].versions = versionRows]
    /\ UNCHANGED <<schema, versionRows, patchRows, lockHolder, predates, failures>>

\* Tables, but no row: the schema was not made by this runner.
Unledgered(s) == start[s].versions = <<>> /\ schema # <<>>

\* One sentinel per migration up to Base, each an object that migration created.
Verified(s) == s \in Adopting /\ Len(Versions[s]) >= Base /\ Len(schema) >= Base

\* The rows of the first Base migrations, in one transaction; the primary key refuses a second
\* writer.
Adopt(s) ==
    IF versionRows # <<>>
      THEN Returns(s, "failed") /\ UNCHANGED versionRows
      ELSE /\ versionRows' = SubSeq(Versions[s], 1, Base)
           /\ start' = [start EXCEPT ![s].pc = "judged", ![s].versions = versionRows',
                                     ![s].wrote = TRUE]
           /\ UNCHANGED lockHolder

Judge(s) ==
    /\ start[s].pc = "read"
    /\ \/ /\ ~Unledgered(s)
          /\ start' = [start EXCEPT ![s].pc = "judged"]
          /\ UNCHANGED <<versionRows, lockHolder>>
       \/ /\ Unledgered(s) /\ Verified(s)
          /\ Adopt(s)
       \/ /\ Unledgered(s) /\ ~Verified(s)
          /\ Returns(s, "refused")
          /\ UNCHANGED versionRows
    /\ UNCHANGED <<schema, patchRows, predates, failures>>

\* Every row must be the bundle's file of the same number, with the same checksum.
CompareLedgers(s) ==
    /\ start[s].pc = "judged"
    /\ IF IsPrefix(start[s].versions, Versions[s]) /\ IsPrefix(patchRows, Patches[s])
         THEN /\ start' = [start EXCEPT ![s].pc = "applying", ![s].patches = patchRows]
              /\ UNCHANGED lockHolder
         ELSE Returns(s, "refused")
    /\ UNCHANGED <<schema, versionRows, patchRows, predates, failures>>

-----------------------------------------------------------------------------
(* Apply *)

At(s) == Len(start[s].versions)
PatchesLeft(s) == Len(start[s].patches) < Len(Patches[s])

\* applyPatchesAtBase: a patch whose base the schema has reached, and not passed, comes first.
PatchDue(s) == PatchesLeft(s) /\ At(s) = Base
PatchMissed(s) == PatchesLeft(s) /\ At(s) > Base

\* One body with its row; the primary key refuses a row another start has written meanwhile.
ApplyPatch(s) ==
    /\ start[s].pc = "applying" /\ PatchDue(s)
    /\ LET next == Patches[s][Len(start[s].patches) + 1] IN
       IF Len(patchRows) > Len(start[s].patches)
         THEN Returns(s, "failed") /\ UNCHANGED <<schema, patchRows>>
         ELSE /\ schema' = Append(schema, next)
              /\ patchRows' = Append(patchRows, next)
              /\ start' = [start EXCEPT ![s].patches = patchRows', ![s].wrote = TRUE]
              /\ UNCHANGED lockHolder
    /\ UNCHANGED <<versionRows, predates, failures>>

ApplyMigration(s) ==
    /\ start[s].pc = "applying" /\ At(s) < Len(Versions[s])
    /\ ~PatchDue(s) /\ ~PatchMissed(s)
    /\ LET next == Versions[s][At(s) + 1] IN
       IF Len(versionRows) > At(s)
         THEN Returns(s, "failed") /\ UNCHANGED <<schema, versionRows>>
         ELSE /\ schema' = Append(schema, next)
              /\ versionRows' = Append(versionRows, next)
              /\ start' = [start EXCEPT ![s].versions = versionRows', ![s].wrote = TRUE]
              /\ UNCHANGED lockHolder
    /\ UNCHANGED <<patchRows, predates, failures>>

\* A patch the schema has gone past can no longer be applied.
RefusePatch(s) ==
    /\ start[s].pc = "applying" /\ PatchMissed(s)
    /\ Returns(s, "refused")
    /\ UNCHANGED <<schema, versionRows, patchRows, predates, failures>>

Done(s) ==
    /\ start[s].pc = "applying" /\ At(s) = Len(Versions[s])
    /\ ~PatchDue(s) /\ ~PatchMissed(s)
    /\ Returns(s, "done")
    /\ UNCHANGED <<schema, versionRows, patchRows, predates, failures>>

-----------------------------------------------------------------------------

Working == {"locked", "read", "judged", "applying"}

\* A statement fails, and its transaction is rolled back.
StatementFails(s) ==
    /\ start[s].pc \in Working /\ failures < MaxFailures
    /\ failures' = failures + 1
    /\ Returns(s, "failed")
    /\ UNCHANGED <<schema, versionRows, patchRows, predates>>

\* The process dies, its session and the lock with it; or it has ended without success, and the
\* container is started again.
Restart(s) ==
    /\ start[s].pc \in Working \cup {"failed"} /\ failures < MaxFailures
    /\ failures' = failures + 1
    /\ start' = [start EXCEPT ![s] = NewStart]
    /\ lockHolder' = IF lockHolder = s THEN Nobody ELSE lockHolder
    /\ UNCHANGED <<schema, versionRows, patchRows, predates>>

MigrationNext ==
    \E s \in Start :
       \/ Lock(s) \/ ReadLedger(s) \/ Judge(s) \/ CompareLedgers(s)
       \/ ApplyPatch(s) \/ ApplyMigration(s) \/ RefusePatch(s) \/ Done(s)
       \/ StatementFails(s) \/ Restart(s)

MigrationSpec == MigrationInit /\ [][MigrationNext]_migrationVars

-----------------------------------------------------------------------------
(* Properties *)

MigrationTypeOK ==
    /\ schema \in Seq(Source) /\ versionRows \in Seq(Source) /\ patchRows \in Seq(Source)
    /\ lockHolder \in Start \cup {Nobody}
    /\ start \in [Start -> [pc : {"new", "done", "refused", "failed"} \cup Working,
                            versions : Seq(Source), patches : Seq(Source), wrote : BOOLEAN]]
    /\ predates \in BOOLEAN
    /\ failures \in 0..MaxFailures

\* The migrations with the patches where they belong.
Chain(versions, patches) ==
    IF patches = <<>> THEN versions
    ELSE SubSeq(versions, 1, Base) \o patches \o SubSeq(versions, Base + 1, Len(versions))

\* The ledgers tell what the database holds: whichever releases start, die or fail on it, every
\* body was executed once, in the order of its number, the patches right after their base.  Only
\* a database that predates the ledger, and was not adopted yet, has no rows for what it holds.
LedgersTell ==
    (predates /\ versionRows = <<>>) \/ schema = Chain(versionRows, patchRows)

\* A service that came up has every migration and patch of its release under it, whatever starts
\* came before, alongside or after.
StartedIsCurrent ==
    \A s \in Start : start[s].pc = "done" =>
        IsPrefix(Versions[s], versionRows) /\ IsPrefix(Patches[s], patchRows)

\* A start is refused only by a database its release cannot run on: one that predates the ledger
\* and that it may not or cannot adopt, one with rows its bundle does not have, or one that has
\* gone past the base of a patch it never got.  Concurrent starts and crashes refuse nobody; and
\* who is refused has not touched the database.
RefusedForCause ==
    \A s \in Start : start[s].pc = "refused" =>
        /\ ~start[s].wrote
        /\ \/ predates /\ (s \notin Adopting \/ Len(Versions[s]) < Base \/ Len(schema) < Base)
           \/ ~IsPrefix(versionRows, Versions[s]) \/ ~IsPrefix(patchRows, Patches[s])
           \/ Len(versionRows) > Base /\ patchRows # Patches[s]

\* Every start ends rightly: with the schema of its release, or refused for cause.
StartsEndRightly == StartedIsCurrent /\ RefusedForCause

\* The ledgers can be relied on, and starts that rely on them end rightly.
MigrationsSound == LedgersTell /\ StartsEndRightly
=============================================================================
