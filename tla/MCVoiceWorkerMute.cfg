CONSTANTS
    Sessions = {s1}
    Tracks = {t1, t2}
    Turns = {c1}
    SilenceLimit = 1
    MaxVisits = 2
SPECIFICATION Spec
INVARIANTS
    CompletedTurnsSpeak
CHECK_DEADLOCK FALSE
