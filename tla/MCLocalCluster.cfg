SPECIFICATION Spec
CONSTANTS
    Machines <- MCMachines
    MaxPid = 3
    MaxCommands = 3
INVARIANTS
    NoOrphanMachines
PROPERTIES
    FreshDisks
    RecordedKept
    CommandEnds
CHECK_DEADLOCK FALSE
