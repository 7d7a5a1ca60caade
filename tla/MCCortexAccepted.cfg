CONSTANTS
    Deps = {nats}
    Provisioned = {nats}
    Patient = {}
    Deaf = {nats}
    Resources = 1
    TripAfter = 1
    Posts = {p1, p2}
    Healths = {}
SPECIFICATION Spec
INVARIANTS
    AcceptedRunsStart
CHECK_DEADLOCK FALSE
