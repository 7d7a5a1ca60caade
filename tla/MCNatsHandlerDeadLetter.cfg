CONSTANTS
    Requests = {r1}
    MaxTokens = 1
    MaxRetries = 1
    GuardEnabled = FALSE
SPECIFICATION Spec
INVARIANTS
    DeadLetterIsAnswered
CHECK_DEADLOCK FALSE
