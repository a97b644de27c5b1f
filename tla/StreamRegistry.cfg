\* Two runs and two streams, one of which both runs use.
CONSTANTS
    Runs = {"A", "B"}
    Names = {1, 2}
    Uses <- MCUses
    Clients = {c1}
    Passes <- MCPasses
    Begun <- MCBegun
    None = None
    CacheSize = 1
    PageNames = 1
    PageRows = 2
    MaxWrites = 1
    MaxFaults = 1
SPECIFICATION FairSpec
INVARIANTS ExpiredLeavesNothing StreamsCountedOnce
PROPERTIES StreamsAreRemoved
CHECK_DEADLOCK FALSE
