CONSTANTS
    Files = {f1}
    Stores = {s1}
    Attaches = {a1}
    Detaches = {d1}
    Deletes = {x1}
    Ingests = {i1}
    Faults = {"minio", "postgres", "restart", "timeout"}
SPECIFICATION FairSpec
INVARIANTS
    RowsHaveObjects
    JobsCanGoOn
    UnfinishedIsOwned
PROPERTIES
    IngestSettles
CHECK_DEADLOCK FALSE
