SPECIFICATION Spec
CONSTANTS
    c1 = c1
    c2 = c2
    Owner = owner
    Receiver = receiver
    NoThread = none
    Junk = junk
    Clients <- TwoClients
    MaxFrames = 3
    MaxPending = 2
    EofReplays = TRUE
SYMMETRY ClientSymmetry
INVARIANT TypeOK
INVARIANT NoTornState
INVARIANT ReceiverLifecycle
PROPERTY MailboxSpec
