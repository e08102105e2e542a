SPECIFICATION StatsFairSpec
CONSTANTS
    s1 = s1  s2 = s2  p1 = p1
    Jobs = {j1, j2}
    NoJob = NoJob
    Slots = {s1, s2}
    NoSlot = NoSlot
    Instances = {p1}
    Home <- OneHome
    MaxAttempts = 2
    MaxStalledCount = 1
    KeepCompleted = 1
    KeepFailed = 1
    MaxCrashes = 0
    MaxRedisErrors = 0
    MaxLockLosses = 0
    MaxBoardRetries = 0
    MaxBoardRemovals = 0
CHECK_DEADLOCK FALSE
INVARIANT RecordMatchesQueue
PROPERTIES ImplementsLifecycle OffByMovesAtMost
