CONSTANTS
    Users = {alice}
    Queries = {q1}
    Replicas = {p1}
    Searches = {s1, s2}
    Saves = {v1}
    NoEntry = NoEntry
    alice = alice
    Matching <- AlicesKeys
    Faults = {}
SPECIFICATION Spec
INVARIANTS
    SearchReflectsSaves
CHECK_DEADLOCK FALSE
