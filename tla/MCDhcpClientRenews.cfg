SPECIFICATION Spec
CONSTANTS
    Servers <- MCServers
    Addrs <- MCAddrs
    ServerOf <- MCServerOf
    Routers <- MCRouters
    MaxAttempts = 2
    MaxXids = 3
    Foreign = FALSE
INVARIANT
    RenewsWhileGranted
CHECK_DEADLOCK FALSE
