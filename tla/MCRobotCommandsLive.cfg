SPECIFICATION FairSpec
CONSTANTS
    c1 = c1
    c2 = c2
    Owner = owner
    NoThread = none
    Callers <- TwoCallers
    MaxCalls = 2
    MaxRestarts = 0
    MaxWire = 3
    Garbles <- NoGarble
    Concurrent = FALSE
PROPERTY LaterCalculationsAnswered
PROPERTY SpeedReached
PROPERTY CommandEchoed
PROPERTY StopReachesScript
CHECK_DEADLOCK FALSE
