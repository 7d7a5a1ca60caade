CONSTANTS
    Deps = {nats, postgres}
    Provisioned = {nats}
    Patient = {postgres}
    Deaf = {nats}
    Resources = 1
    TripAfter = 1
    Posts = {p1, p2}
    Healths = {h1}
SPECIFICATION FairSpec
INVARIANTS
    TypeOK
    ReadyReflectsLatestRun
    ReadyMeansProvisioned
    FailuresAreOwn
PROPERTIES
    OneBootstrapAtATime
    BootstrapEnds
CHECK_DEADLOCK FALSE
