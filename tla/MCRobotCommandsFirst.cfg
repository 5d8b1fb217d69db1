SPECIFICATION FairSpec
CONSTANTS
    c1 = c1
    c2 = c2
    Owner = owner
    NoThread = none
    Callers <- OneCaller
    MaxCalls = 1
    MaxRestarts = 0
    MaxWire = 2
    Garbles <- NoGarble
    Concurrent = FALSE
PROPERTY CalculationTriggered
CHECK_DEADLOCK FALSE
