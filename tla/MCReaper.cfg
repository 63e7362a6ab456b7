SPECIFICATION ReaperSpec
CONSTANTS
    Kids <- MCKids
    Orphans <- MCOrphans
INVARIANTS
    NoLostWakeup
    WaitedFor
PROPERTIES
    ZombiesReaped
