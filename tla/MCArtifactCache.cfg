SPECIFICATION Spec
CONSTANTS
    Resolvers = {r1, r2}
    MaxTag = 2
    MaxRuns = 3
INVARIANTS
    ReturnedGood
    LatestBacked
    CacheHeals
CHECK_DEADLOCK FALSE
