CONSTANTS
    Hooks = {h1, h2}
    Waits = {w1}
    Payloads = {m1}
    Streams = 1
    PageSize = 1
    PayloadBatch = 2
    Passes = {p1}
    MaxCalls = 1
    MaxFaults = 1
SPECIFICATION FairSpec
CHECK_DEADLOCK FALSE
INVARIANTS TerminalCleanupIsComplete
PROPERTIES CleanupFinishes TerminalCleanupFinishes
