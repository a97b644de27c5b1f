CONSTANTS
    h1 = h1
    h2 = h2
    Hooks = {h1, h2}
    Setups <- Replaying
    Procs = {p1}
    MaxClaims = 2
    MaxLate = 1
    MaxIdFaults = 1
    None = None
SPECIFICATION Spec
CHECK_DEADLOCK FALSE
INVARIANTS LiveIsFindable
