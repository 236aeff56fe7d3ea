-------------------------- MODULE DocumentImports --------------------------
(***************************************************************************)
(* Imports of documents into the store of the service: a row in the        *)
(* database and a file named by the digest of its content.  Rows obey the  *)
(* transaction; files do not.  Imports of one process wait in its queue,   *)
(* those of several processes (a restarted service and the transactions of *)
(* the one before it) only for the locks of the database.                  *)
(*                                                                         *)
(* Left out: references to Immich assets, predecessors, temporary files,   *)
(* damage to stored files.  Every content has the size of one unit.        *)
(***************************************************************************)
EXTENDS Naturals, FiniteSets

CONSTANTS
    Import,         \* import requests
    Content,        \* contents, known by their digest
    ContentOf,      \* [Import -> Content]
    CommandOf,      \* [Import -> the command id of the request]
    ServiceOf,      \* [Import -> the process that serves it]
    StoreMaximum    \* maxStoreBytes

Unlocked == "unlocked"

ASSUME ImportAssumption ==
    /\ ContentOf \in [Import -> Content] /\ StoreMaximum \in Nat
    /\ Unlocked \notin Import

VARIABLES
    documents,      \* the committed rows: the imports that made them
    blobs,          \* the contents stored as files
    queued,         \* [Import -> the state of the request]
    prepared,       \* the imports that have run writeBlob (blobPrepared)
    storeLock       \* the import that holds the quota lock

importVars == <<documents, blobs, queued, prepared, storeLock>>

-----------------------------------------------------------------------------

ImportInit ==
    /\ documents = {}
    /\ blobs = {}
    /\ queued = [m \in Import |-> "new"]
    /\ prepared = {}
    /\ storeLock = Unlocked

Is(m, pc) == queued[m] = pc
Reach(m, pc) == queued' = [queued EXCEPT ![m] = pc]

\* Transactions that have begun hold the lock of their command id.
InTransaction == {"command", "checked", "written"}
Running == InTransaction \cup {"looking", "failed", "cleaning"}

Completed(m) == \E d \in documents : CommandOf[d] = CommandOf[m]

\* withImportLock
StartImport(m) ==
    /\ Is(m, "new")
    /\ \A n \in Import : ServiceOf[n] = ServiceOf[m] => queued[n] \notin Running
    /\ Reach(m, "looking")
    /\ UNCHANGED <<documents, blobs, prepared, storeLock>>

\* A command that is completed is replayed, or refused when its content differs.
ReplayImport(m) ==
    /\ Is(m, "looking") /\ Completed(m)
    /\ Reach(m, "ended")
    /\ UNCHANGED <<documents, blobs, prepared, storeLock>>

CommandFree(m) == \A n \in Import : CommandOf[n] = CommandOf[m] => queued[n] \notin InTransaction

\* The lock of the command id is waited for before the command is looked up again.
BeginImport(m) ==
    /\ Is(m, "looking") /\ CommandFree(m) /\ ~Completed(m)
    /\ Reach(m, "command")
    /\ UNCHANGED <<documents, blobs, prepared, storeLock>>

Stored == {ContentOf[d] : d \in documents}

\* The quota counts each content once, under the lock of the store.
Affordable(m) == Cardinality(Stored \cup {ContentOf[m]}) <= StoreMaximum

StoreFree(m) == storeLock = Unlocked

CheckQuota(m) ==
    /\ Is(m, "command") /\ StoreFree(m)
    /\ IF Affordable(m)
       THEN Reach(m, "checked") /\ storeLock' = m
       ELSE Reach(m, "ended") /\ UNCHANGED storeLock
    /\ UNCHANGED <<documents, blobs, prepared>>

\* A file that is there already is kept, after its content was verified.
WriteBlob(m) ==
    /\ Is(m, "checked")
    /\ blobs' = blobs \cup {ContentOf[m]}
    /\ prepared' = prepared \cup {m}
    /\ Reach(m, "written")
    /\ UNCHANGED <<documents, storeLock>>

Unlock(m) == storeLock' = IF storeLock = m THEN Unlocked ELSE storeLock

\* The answer of the commit may be lost: to the process that is a failure too.
CommitImport(m) ==
    /\ Is(m, "written")
    /\ documents' = documents \cup {m}
    /\ Unlock(m)
    /\ Reach(m, "ended") \/ Reach(m, "failed")
    /\ UNCHANGED <<blobs, prepared>>

RollBackImport(m) ==
    /\ queued[m] \in InTransaction
    /\ Unlock(m)
    /\ Reach(m, "failed")
    /\ UNCHANGED <<documents, blobs, prepared>>

\* The error handler takes the lock of the store again...
LockForCleaning(m) ==
    /\ Is(m, "failed")
    /\ IF m \in prepared THEN StoreFree(m) /\ storeLock' = m /\ Reach(m, "cleaning")
                         ELSE Reach(m, "ended") /\ UNCHANGED storeLock
    /\ UNCHANGED <<documents, blobs, prepared>>

UnreferencedByOwnRow(m) == m \notin documents
Unreferenced(m) == ContentOf[m] \notin Stored

\* ... and removes the file when no row has its content.
RemoveBlob(m) ==
    /\ Is(m, "cleaning")
    /\ blobs' = IF Unreferenced(m) THEN blobs \ {ContentOf[m]} ELSE blobs
    /\ Unlock(m)
    /\ Reach(m, "ended")
    /\ UNCHANGED <<documents, prepared>>

\* The process dies; what it had written stays.
CrashImport(m) ==
    /\ queued[m] \in Running
    /\ Unlock(m)
    /\ Reach(m, "ended")
    /\ UNCHANGED <<documents, blobs, prepared>>

-----------------------------------------------------------------------------

ImportNext ==
    \E m \in Import :
        \/ StartImport(m) \/ ReplayImport(m) \/ BeginImport(m) \/ CheckQuota(m) \/ WriteBlob(m)
        \/ CommitImport(m) \/ RollBackImport(m) \/ LockForCleaning(m) \/ RemoveBlob(m)
        \/ CrashImport(m)

ImportSpec == ImportInit /\ [][ImportNext]_importVars

-----------------------------------------------------------------------------
(* Properties *)

ImportTypeOK ==
    /\ documents \subseteq Import
    /\ blobs \subseteq Content
    /\ queued \in [Import -> {"new", "ended"} \cup Running]
    /\ prepared \subseteq Import
    /\ storeLock \in Import \cup {Unlocked}

\* Every document has its file: no failed import removes a file another import has found and
\* kept, and none removes the file of a row whose commit it did not hear of.
DocumentsStored == Stored \subseteq blobs

\* The contents of all documents fit the store, however many imports check the quota at once.
QuotaKept == Cardinality(Stored) <= StoreMaximum

\* The store is sound: no document without its file, and all within the quota.
StoreSound == DocumentsStored /\ QuotaKept
=============================================================================
