CONSTANTS
    Files = {f1}
    Stores = {s1}
    Attaches = {a1, a2}
    Detaches = {}
    Deletes = {}
    Ingests = {}
    Faults = {}
SPECIFICATION Spec
INVARIANTS
    OneIngestPerAttachment
CHECK_DEADLOCK FALSE
