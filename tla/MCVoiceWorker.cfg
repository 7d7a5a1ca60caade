CONSTANTS
    Sessions = {s1}
    Tracks = {t1, t2}
    Turns = {c1}
    SilenceLimit = 1
    MaxVisits = 2
SPECIFICATION FairSpec
INVARIANTS
    TypeOK
    TurnsCanGoOn
    OutcomesAreTrue
    LeftoversAreLate
    LostOnlyByShutdown
PROPERTIES
    TurnsAreAnnounced
CHECK_DEADLOCK FALSE
