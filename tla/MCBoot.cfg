SPECIFICATION Spec
CONSTANTS
    Trees <- MCTrees
    NoTree <- MCNoTree
    Devices <- MCDevices
    Parent <- MCParent
    NoParent = "none"
    Names <- MCNames
    MaxDeviceRounds = 2
    IpForms <- MCIpForms
    Base <- MCBase
    EnvEq <- MCEnvEq
    Dashed <- MCDashed
    Octals = {"0600"}
    SymFlags = {"-sf"}
    Owners = {"root"}
    Cmdlines <- MCCmdlines
    BlockDevs <- MCBlockDevs
    LabelOf <- MCLabelOf
    DriverOf <- MCDriverOf
    Drives <- MCDrives
    DirOf <- MCDirOf
    LeaseDNS <- MCLeaseDNS
    RootProbeAttempts = 2
INVARIANTS
    EachOnce
    FailsForAReason
    EverythingTried
    PseudoVisible
    NothingHidden
    IdentityHonoured
PROPERTIES
    ChainSpec
