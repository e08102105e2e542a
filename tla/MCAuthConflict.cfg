SPECIFICATION Spec
CONSTANTS
    Calls = {c1, c2}
    Nothing = Nothing
    Emails = {e1}
    Passwords = {w1}
    MaxCrashes = 0
    MaxErrors = 0
SYMMETRY Symmetry
CHECK_DEADLOCK FALSE
INVARIANT OneAccountPerEmail
