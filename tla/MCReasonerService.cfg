CONSTANTS
    Messages = {m1}
    Deliveries = {d1, d2}
    Requests = {r1}
    Calls = {d1, d2, r1}
    MAX_RETRIES = 3
    MaxTokens = 2
    MaxArrivals = 1
    MaxGivenUp = 1
SPECIFICATION FairSpec
INVARIANTS
    TypeOK
    AckedHasResult
    DuplicatesAreDoubtful
    RetriesNeverExhausted
    AnnouncedAlike
    AnsweredIsSaved
PROPERTIES
    HonoursContract
    NoMessageLost
CHECK_DEADLOCK FALSE
