SPECIFICATION FairSpec
CONSTANTS
    c1 = c1
    c2 = c2
    Owner = owner
    Receiver = receiver
    NoThread = none
    Junk = junk
    Clients <- TwoClients
    MaxFrames = 1
    MaxPending = 1
    EofReplays = FALSE
PROPERTY StopReturns
PROPERTY NoLostWakeup
PROPERTY CallsReturn
