------------------------------ MODULE MCServices ------------------------------
(***************************************************************************)
(* Seven components of the service that share no state, as one run: a      *)
(* behaviour picks one of them and takes its steps, while the others stay  *)
(* in their initial states.  Small instances of each.                      *)
(***************************************************************************)
EXTENDS ConnectionCommands, RebuildQueue, ImmichInventory, SourcePackLifecycle, FolderAlbums,
        DocumentImports, ResidentRecognizer

CONSTANTS
    Part,                       \* the components that run
    m1, m2, m3, m4, x1, x2,     \* imports and their contents
    a1, i1, i2,                 \* the asset of all photos, items of two folders
    p1, o1, f1                  \* a pack, a session and a face

MCSync == 1..3
MCCatalogueSync == {1, 2}
MCPhoto == {1, 2}
MCAssetOf == [p \in Photo |-> a1]
MCEvidence == [p \in Pack |-> {f1}]
MCBatches == <<{i1}, {i2}>>
MCContentOf == [m \in Import |-> IF m = m3 THEN x2 ELSE x1]
MCCommandOf == [m \in Import |-> IF m \in {m1, m4} THEN 1 ELSE IF m = m2 THEN 2 ELSE 3]
MCServiceOf == [m \in Import |-> IF m \in {m1, m3} THEN "old" ELSE "new"]

VARIABLE part

connectionRest == <<rebuildVars, inventoryVars, packVars, folderVars, importVars, recognizerVars>>
rebuildRest == <<connectionVars, inventoryVars, packVars, folderVars, importVars, recognizerVars>>
inventoryRest == <<connectionVars, rebuildVars, packVars, folderVars, importVars, recognizerVars>>
packRest == <<connectionVars, rebuildVars, inventoryVars, folderVars, importVars, recognizerVars>>
folderRest == <<connectionVars, rebuildVars, inventoryVars, packVars, importVars, recognizerVars>>
importRest == <<connectionVars, rebuildVars, inventoryVars, packVars, folderVars, recognizerVars>>
recognizerRest == <<connectionVars, rebuildVars, inventoryVars, packVars, folderVars, importVars>>

serviceVars == <<part, connectionVars, connectionRest>>

ServicesInit ==
    /\ part \in Part
    /\ ConnectionInit /\ (part = "connections" \/ Legacy \notin {ledger[c] : c \in CommandId})
    /\ RebuildInit /\ InventoryInit /\ PackInit /\ FolderInit /\ ImportInit /\ RecognizerInit

\* A bound: one session works on one pack, or the faces are as at first, but for claims of one.
PacksFit ==
    \/ /\ \A p \in Pack \ {p1} : pack'[p].state = "none"
       /\ \A o \in Operator \ {o1} : session'[o].pc = "idle"
    \/ /\ valid' = Face /\ strayed' = {} /\ \A f \in Face : canonical'[f] = f
       /\ \A f \in Face \ {f1} : f \in accepted' /\ correcting'[f].pc = "idle"

In(p, rest) == part = p /\ UNCHANGED <<part, rest>>

ServicesNext ==
    \/ ConnectionNext /\ In("connections", connectionRest)
    \/ RebuildNext /\ In("rebuilds", rebuildRest)
    \/ InventoryNext /\ In("inventory", inventoryRest)
    \/ PackNext /\ PacksFit /\ In("packs", packRest)
    \/ FolderNext /\ In("folders", folderRest)
    \/ ImportNext /\ In("imports", importRest)
    \/ RecognizerNext /\ In("recognizer", recognizerRest)

\* RebuildFairness and RecognizerFairness; one caller of the catalogue keeps calling.
ServicesFairness ==
    /\ \A c \in Correction :
        /\ WF_rebuildVars(/\ part = "rebuilds" /\ correction[c].pc # "idle"
                          /\ InsertRequest(c) \/ CommitCorrection(c))
        /\ WF_rebuildVars(part = "rebuilds" /\ ~Working(c) /\ LeaseLapses(c))
    /\ \A w \in Rebuilder : WF_rebuildVars(part = "rebuilds" /\ Rebuilds(w))
    /\ WF_inventoryVars(part = "inventory" /\ Synchronizes(1))
    /\ \A r \in Call :
        /\ WF_recognizerVars(part = "recognizer" /\ Recognize(r))
        /\ WF_recognizerVars(part = "recognizer" /\ Timeout(r))

ServicesSpec == ServicesInit /\ [][ServicesNext]_serviceVars /\ ServicesFairness

-------------------------------------------------------------------------------

\* The state of each component keeps its type.
ServicesTypeOK ==
    /\ ConnectionTypeOK /\ RebuildTypeOK /\ InventoryTypeOK /\ PackTypeOK /\ FolderTypeOK
    /\ ImportTypeOK /\ RecognizerTypeOK
===============================================================================
