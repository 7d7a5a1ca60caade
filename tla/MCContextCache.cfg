CONSTANTS
    Users = {alice, bob}
    Queries = {q1}
    Replicas = {p1, p2}
    Searches = {s1, s2}
    Saves = {v1}
    NoEntry = NoEntry
    alice = alice
    Matching <- AlicesKeys
    Faults = {"redis", "postgres", "restart"}
SPECIFICATION FairSpec
INVARIANTS
    TypeOK
    OwnCommittedRows
    StaleOnlyByRace
    StaleAnswerWasRaced
PROPERTIES
    EventuallyFresh
CHECK_DEADLOCK FALSE
