SPECIFICATION FairSpec
CONSTANTS
    s1 = s1  s2 = s2  p1 = p1  p2 = p2
    Jobs = {j1}
    NoJob = NoJob
    Slots = {s1}
    NoSlot = NoSlot
    Instances = {p1}
    Home <- SoleHome
    MaxAttempts = 3
    MaxStalledCount = 1
    KeepCompleted = 1
    KeepFailed = 1
    MaxCrashes = 1
    MaxRedisErrors = 0
    MaxLockLosses = 0
    MaxBoardRetries = 0
    MaxBoardRemovals = 0
CHECK_DEADLOCK FALSE
PROPERTY PermanentFailureRecorded
