SPECIFICATION Spec
CONSTANTS
    Calls = {c1, c2, c3, c4}
    Nothing = Nothing
    Emails = {e1}
    Passwords = {w1, w2}
    MaxCrashes = 1
    MaxErrors = 1
SYMMETRY Symmetry
CHECK_DEADLOCK FALSE
INVARIANTS TypeOK AccountIsKept TokenHasUser OneTokenPerSession RevokedForGood
