SPECIFICATION Spec
CONSTANTS
    Sessions = {x1, x2}
    Files <- SmallFiles
    Nothing = Nothing
    AccessTtl = 2
    UrlTtl = 2
    RefreshTtl = 3
    MaxWait = 1
    MaxRequests = 2
    MaxRestarts = 1
SYMMETRY Symmetry
INVARIANTS TypeOK 
PROPERTIES  NamesKeepApart
