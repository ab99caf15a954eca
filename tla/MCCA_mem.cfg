CONSTANTS
    KeyIDs <- MCKeyIDs
    Expiries <- MCExpiries
    Owner <- MCOwner
    Posted <- MCPosted
    Serials = {s1, s2}
    Messages = {TRUE, FALSE}
    Absent = Absent
    None = None
    Procs = {p1, p2}
    Type = "mem"
    Start = 1
    MaxTime = 2
    Half = 8
    Validity = 1
    Backdate = 1
    Users = {alice}
    NoUser = NoUser
    Tokens = {t1}
    Untils = {3}
    RevokesTokens = TRUE
    ProviderFails = TRUE
    RequireReason = TRUE
    MaxRestarts = 1
SPECIFICATION Spec
SYMMETRY Symmetry
INVARIANTS
    RevocationHolds
    CAInv
PROPERTY KRLCovers
