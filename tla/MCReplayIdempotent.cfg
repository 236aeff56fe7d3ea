SPECIFICATION OperatorSpec
CONSTANTS
    j1 = j1
    a1 = a1
    pause = pause
    resume = resume
    run = run
    x1 = x1
    p1 = p1
    p2 = p2
    Job = {j1}
    Asset = {a1}
    AssetOf <- MCAssetOf
    Worker = {w1}
    Receipt = {}
    Digest = {}
    AttemptLimits = {1}
    CheckpointStage = {}
    LeaseTicks = 1
    MaxRequeues = 0
    None = None
    Command = {pause, resume, run}
    KindOf <- MCKindOf
    Call = {x1, x2, x3}
    Process = {p1, p2}
    ProcessOf <- MCProcessOf
    CommandTicks = 1
CHECK_DEADLOCK FALSE
PROPERTIES
    ReplayIdempotent
