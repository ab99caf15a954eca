CONSTANTS
    Requests = {r1, r2}
    Names = {"oauth_client_secret", "password", "access_key"}
    EnvNames = {"oauth_client_secret", "port"}
    Graces = {0, 1}
SPECIFICATION Spec
INVARIANTS
    ServesAsConfigured
    CompleteConfigRead
    GraceKept
    LogsKept
PROPERTY SignalEnds
