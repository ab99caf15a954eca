CONSTANTS
    Requests = {b1, b2}
    NeedReason = TRUE
    HasPrefix = TRUE
    Lifetimes = {3}
    WrappedTTL = 4
    MinLeft <- OneTickPast
SPECIFICATION Spec
INVARIANTS
    SuccessIsReal
    RespondHasRoom
    TokenUsed
PROPERTIES
    MainEnds
    AgentForgets
