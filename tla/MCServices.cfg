SPECIFICATION ServicesSpec
CONSTANTS
    Part = {"connections", "rebuilds", "inventory", "packs", "folders", "imports", "recognizer"}
    Sender = {s1, s2, s3}
    CommandId = {c1, c2}
    FactId = {t1, t2}
    MaxSequence = 3
    Correction = {k1, k2}
    Rebuilder = {w1, w2}
    MaxTries = 3
    MaxFaults = 2
    Photo <- MCPhoto
    Lane = {1, 2}
    Asset = {a1}
    AssetOf <- MCAssetOf
    Sync <- MCSync
    CatalogueSync <- MCCatalogueSync
    PageSize = 1
    MaxUpsets = 2
    Pack = {p1, p2}
    Face = {f1, f2}
    Evidence <- MCEvidence
    Operator = {o1, o2}
    Item = {i1, i2}
    Batches <- MCBatches
    Page = {g1}
    Hand = {h1}
    MaxBegins = 4
    Import = {m1, m2, m3, m4}
    Content = {x1, x2}
    ContentOf <- MCContentOf
    CommandOf <- MCCommandOf
    ServiceOf <- MCServiceOf
    StoreMaximum = 1
    LastCall = 3
    m1 = m1
    m2 = m2
    m3 = m3
    m4 = m4
    x1 = x1
    x2 = x2
    a1 = a1
    p1 = p1
    o1 = o1
    f1 = f1
    i1 = i1
    i2 = i2
INVARIANTS
    ServicesTypeOK
    OneCurrentFact
    TimelyCorrectionPacked
    CatalogueTruth
    TombstoneSafe
    ActiveTrusted
    RejectedStaysRetired
    UndoneCheckpointsDetached
    StoreSound
    RecognizerSafe
PROPERTIES
    CommandsExactlyOnce
    RequestsSettle
    RevivedOnlyByListing
    CatalogueCompletes
    UndoKeepsOthers
    CallsEnd
CHECK_DEADLOCK FALSE
