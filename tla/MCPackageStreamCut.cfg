SPECIFICATION Spec
CONSTANTS
    FrameUnits = 3
    TextUnits = 2
    BufferUnits = 5
    MaxPackages = 4
    MaxCalls = 1
    Segments = TRUE
    EofReplays = TRUE
INVARIANT WholeFrames
