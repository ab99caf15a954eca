CONSTANTS
    KeyIDs <- MCKeyIDs
    Expiries <- MCExpiries
    Owner <- MCOwner
    Posted <- MCPosted
    Serials = {s1, s2}
    Messages = {TRUE, FALSE}
    Absent = Absent
    None = None
    Procs = {p1, p2}
    Type = "sqlite"
    Start = 1
    MaxTime = 2
    Half = 8
    Validity = 1
    Backdate = 1
    Users = {alice}
    NoUser = NoUser
    Tokens = {t1}
    Untils <- UntilsBeforeEpoch
    RevokesTokens = FALSE
    ProviderFails = FALSE
    RequireReason = TRUE
    MaxRestarts = 1
SPECIFICATION Spec
SYMMETRY Symmetry
INVARIANTS
    CATypeOK
    RevocationHolds
    AuditTrail
    ReasonRecorded
    MaxAgeUnlessWrapped
PROPERTIES
    KRLCovers
    RevocationSticks
