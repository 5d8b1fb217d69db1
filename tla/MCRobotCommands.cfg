SPECIFICATION Spec
CONSTANTS
    c1 = c1
    c2 = c2
    Owner = owner
    NoThread = none
    Callers <- TwoCallers
    MaxCalls = 2
    MaxRestarts = 1
    MaxWire = 3
    Garbles <- OneGarble
    Concurrent = FALSE
SYMMETRY CallerSymmetry
INVARIANT TypeOK
INVARIANT SentAsRequested
INVARIANT DistinctSeqnrs
INVARIANT ExecutedAsIssued
INVARIANT ReferenceOfSeqnr
PROPERTY MotionFollowsCommands
CHECK_DEADLOCK FALSE
