SPECIFICATION UpkeepSpec
CONSTANTS
    Key = {k1, k2, k3}
    Priority <- MCPriority
    Concurrency = 2
    MaxRuns = 2
    Waiter = {s1}
    e1 = e1
    w1 = w1
    w2 = w2
    f1 = f1
    g1 = g1
    Asset = {1}
    Job <- MCJob
    AssetOf <- MCAssetOf
    Exec = {e1, e2}
    Worker = {w1, w2}
    WorkerName <- NamesOwn
    Receipt = {d1}
    Digest = {d1}
    AttemptLimits = {1}
    MaxAttempts = 1
    CheckpointStage = {1}
    LeaseTicks = 1
    MaxRequeues = 0
    MaxRevision = 2
    None = None
    Face = {f1}
    FaceAsset <- MCFaceAsset
    Region = {g1, g2}
    MaxUpsets = 2
    RaceUpsets = 1
INVARIANTS
    LaneSafe
    RequestCovered
    RecognitionConsistent
    EmbeddingsTrue
PROPERTIES
    IdleMeansDone
    EmbeddingKept
SYMMETRY Alike
CHECK_DEADLOCK FALSE
