SPECIFICATION Spec
CONSTANTS
    c1 = c1
    c2 = c2
    Owner = owner
    NoThread = none
    Callers <- OneCaller
    MaxCalls = 1
    MaxRestarts = 0
    MaxWire = 2
    Garbles <- NoGarble
    Concurrent = TRUE
INVARIANT SentAsRequested
CHECK_DEADLOCK FALSE
