SPECIFICATION Spec
CONSTANTS
    s1 = s1  s2 = s2  p1 = p1  p2 = p2
    Jobs = {j1, j2}
    NoJob = NoJob
    Slots = {s1, s2}
    NoSlot = NoSlot
    Instances = {p1, p2}
    Home <- TwoHomes
    MaxAttempts = 2
    MaxStalledCount = 1
    KeepCompleted = 1
    KeepFailed = 2
    MaxCrashes = 2
    MaxRedisErrors = 1
    MaxLockLosses = 0
    MaxBoardRetries = 0
    MaxBoardRemovals = 0
CHECK_DEADLOCK FALSE
SYMMETRY Symmetry
INVARIANTS
    TypeOK SingleWriter FreshSnapshot QueuedHasRecord WorkIsVisible
    CompletedIsRecorded OnlyPermanentFailures
PROPERTIES FailedIsFinal AttemptsNeverDecrease
