SPECIFICATION OperationsSpec
CONSTANTS
    Part = {"ledger", "operator", "migrations", "backlog", "faces"}
    j1 = j1
    j2 = j2
    a1 = a1
    w1 = w1
    pause = pause
    resume = resume
    run = run
    x1 = x1
    x2 = x2
    x3 = x3
    p1 = p1
    p2 = p2
    r1 = r1
    r2 = r2
    r3 = r3
    r4 = r4
    v1 = v1
    v2 = v2
    v3 = v3
    e2 = e2
    q1 = q1
    Job = {j1, j2}
    Asset = {a1}
    AssetOf <- MCAssetOf
    Worker = {w1, w2}
    Receipt = {t1}
    Digest = {d1, d2}
    AttemptLimits = {1, 2}
    CheckpointStage = {1}
    LeaseTicks = 1
    MaxRequeues = 1
    None = None
    Command = {pause, resume, run}
    KindOf <- MCKindOf
    Call = {x1, x2, x3}
    Process = {p1, p2}
    ProcessOf <- MCProcessOf
    CommandTicks = 1
    Start = {r1, r2, r3, r4}
    Source = {v1, v2, v3, e2, q1}
    Versions <- MCVersions
    Patches <- MCPatches
    Base = 2
    Adopting = {r2}
    Legacy <- MCLegacy
    Nobody = Nobody
    MaxFailures = 2
    Image = {i1, i2, i3}
    Waiting = {i1}
    Loop = {l1, l2}
    Limit = 2
    Batch = 1
    Attempts = 2
    Rival = rival
    NoOne = NoOne
    MaxMeddling = 2
    Region = {g1, g2}
    Detected = g1
    Requests = 3
    MaxClaims = 3
    MaxEmbeddings = 2
    MaxOtherwise = 1
INVARIANTS
    OperationsTypeOK
    LedgerSound
    OperatorSound
    MigrationsSound
    ReportSound
    RejectionReversible
    CommandAppliedOnce
PROPERTIES
    JobsOnlyAdvance
    UndoRestores
    LedgerLeaseRecovered
CHECK_DEADLOCK FALSE
