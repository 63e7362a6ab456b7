SPECIFICATION Spec
CONSTANTS
    N = 3
    SockBuf = 1
    MaxFrames = 2
    MaxLost = 1
INVARIANTS
    WholeFrames
    NothingDropped
    NothingLeft
PROPERTIES
    CloseReturns
CHECK_DEADLOCK FALSE
