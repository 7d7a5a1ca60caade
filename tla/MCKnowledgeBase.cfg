CONSTANTS
    Files = {f1}
    Stores = {s1, s2}
    Attaches = {a1, a2}
    Detaches = {d1}
    Deletes = {}
    Ingests = {}
    Faults = {"postgres", "restart"}
SPECIFICATION Spec
INVARIANTS
    TypeOK
    CompletedIsSearchable
    ChunksAreListed
CHECK_DEADLOCK FALSE
