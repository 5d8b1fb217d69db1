\* Every sequence of five calls.
SPECIFICATION Spec
CONSTANT MaxCalls = 5
INVARIANT TypeOK
INVARIANT OutputRetryable
INVARIANT FramesAccepted
INVARIANT CommandsTaken
\* The calls are bounded.
CHECK_DEADLOCK FALSE
