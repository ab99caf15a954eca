CONSTANTS
    KeyIDs = {k1, k2}
    Serials = {s1, s2}
    Messages = {TRUE}
    Expiries = {0}
    Absent = Absent
    Procs = {p1, p2}
    Type = "sqlite"
    Zone <- West
    Start = 0
    MaxTime = 1
SPECIFICATION Spec
SYMMETRY Symmetry
INVARIANT GetRevokedReturnsAll
