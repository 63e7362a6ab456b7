SPECIFICATION Spec
CONSTANTS
    Orphans <- MCOrphans
    Workloads <- MCWorkloads
    Mounts <- MCMounts
    BootMounts <- MCBootMounts
    PseudoDirs <- MCPseudoDirs
    FirstBackoff = 1
    MaxBackoff = 1
    MaxLines = 1
INVARIANTS
    KilledBeforeFs
    LeaveFirst
    PowerAsAsked
PROPERTIES
    StopsWhenAsked
    Restarted
    LifeSpec
