SPECIFICATION RedisFairSpec
CONSTANTS
    s1 = s1  s2 = s2  p1 = p1  p2 = p2
    Jobs = {j1}
    NoJob = NoJob
    Slots = {s1, s2}
    NoSlot = NoSlot
    Instances = {p1, p2}
    Home <- TwoHomes
    MaxAttempts = 2
    MaxStalledCount = 1
    KeepCompleted = 1
    KeepFailed = 1
    MaxCrashes = 0
    MaxRedisErrors = 0
    MaxLockLosses = 0
    MaxBoardRetries = 0
    MaxBoardRemovals = 0
    MaxRestarts = 1
CHECK_DEADLOCK FALSE
INVARIANTS RedisTypeOK OnlyTornJobsLackRecord AttemptsBounded
PROPERTIES  DecidedOnceBetweenRestarts
