SPECIFICATION Spec
CONSTANTS
    Servers <- MCServers
    Addrs <- MCAddrs
    ServerOf <- MCServerOf
    Routers <- MCRouters
    MaxAttempts = 2
    MaxXids = 4
    Foreign = TRUE
INVARIANTS
    AddressGranted
PROPERTIES
    UsesWhatItAsked
    BootGoesOn
CHECK_DEADLOCK FALSE
