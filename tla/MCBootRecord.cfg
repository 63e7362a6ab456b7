SPECIFICATION RecordSpec
CONSTANTS
    Nics <- MCNics
    MaxRenewals = 1
    MaxExits = 1
INVARIANTS
    NothingLost
    FileIsPast
PROPERTIES
    RecorderReturns
CHECK_DEADLOCK FALSE
