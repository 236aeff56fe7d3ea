CONSTANTS
    a1 = a1
    e1 = e1
    e2 = e2
    w1 = w1
    w2 = w2
    Asset = {a1}
    MaxRevision = 2
    Job <- MCJob
    AssetOf <- MCAssetOf
    RevisionOf <- MCRevisionOf
    Exec = {e1, e2}
    Worker = {w1, w2}
    WorkerName <- NamesOwn
    Receipt = {d1}
    Digest = {d1}
    AttemptLimits = {1}
    MaxAttempts = 1
    CheckpointStage = {1}
    LeaseTicks = 1
    MaxRequeues = 0
    MaxMoves = 2
    None = None
SPECIFICATION QueueSpec
INVARIANTS SupersededStaysPaused
CHECK_DEADLOCK FALSE
