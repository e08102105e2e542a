SPECIFICATION FairSpec
CONSTANTS
    Requests = {r1, r2}
    Slots = {s1, s2}
    Signals = {g1, g2}
    JobTicks = 2
    TimeoutTicks = 6
    RequestTicks = 3
    MaxPanics = 1
CHECK_DEADLOCK FALSE
INVARIANTS TypeOK ClosedInOrder 
PROPERTY Stops
