CONSTANTS
    Requests = {r1}
    MaxTokens = 2
    MaxRetries = 2
    GuardEnabled = TRUE
SPECIFICATION FairSpec
INVARIANTS
    TypeOK
    OneVerdict
    DeadLetterIsLast
    AiFollowsHuman
    ResultIsRemembered
PROPERTIES
    VerdictIsFinal
    HonoursContract
    Settles
CHECK_DEADLOCK FALSE
