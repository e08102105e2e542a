SPECIFICATION Spec
CONSTANTS
    Clients = {a1}
    Routes = {"jobs", "stats", "login"}
    Window <- ShortWindows
    Limit <- SmallLimits
    MaxBurst = 3
    MaxResends = 1
INVARIANTS TypeOK BurstBounded
PROPERTY PoliteNeverRefused
