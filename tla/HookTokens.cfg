CONSTANTS
    h1 = h1
    h2 = h2
    Hooks = {h1, h2}
    Setups <- ContendedAndRetaining
    Procs = {p1, p2}
    MaxClaims = 2
    MaxLate = 1
    MaxIdFaults = 1
    None = None
SPECIFICATION Spec
SYMMETRY Interchangeable
CHECK_DEADLOCK FALSE
INVARIANTS TokenExclusive FindableUntilFault VictimYieldsToCommitted RetainedIsTimed
PROPERTY ImplementsOwnership
