SPECIFICATION Spec
CONSTANTS
    FrameUnits = 4
    TextUnits = 2
    BufferUnits = 10
    MaxPackages = 8
    MaxCalls = 2
    Segments = FALSE
    EofReplays = TRUE
INVARIANT TypeOK
INVARIANT WholeFrames
INVARIANT Resynchronises
PROPERTY ReaderSpec
