SPECIFICATION ProgressSpec
CONSTANTS
    Key = {k1, k2}
    Priority <- MCPriority
    Concurrency = 1
    MaxRuns = 2
    Waiter = {}
    k1 = k1
    a1 = a1
    e1 = e1
    e2 = e2
    w1 = w1
    w2 = w2
    Asset = {a1}
    MaxRevision = 1
    Job <- MCJob
    AssetOf <- MCAssetOf
    RevisionOf <- MCRevisionOf
    Exec = {e1, e2}
    Worker = {w1, w2}
    WorkerName <- NamesOwn
    Receipt = {d1}
    Digest = {d1}
    AttemptLimits = {2}
    MaxAttempts = 2
    CheckpointStage = {1}
    LeaseTicks = 1
    MaxRequeues = 0
    MaxMoves = 1
    None = None
    Face = {f1, f2}
    FaceAsset <- MCFaceAsset
    Region = {g1}
    MaxUpsets = 1
    f1 = f1
PROPERTIES
    JobSettles
    FacesRecognized
    KeyTopServed
CHECK_DEADLOCK FALSE
