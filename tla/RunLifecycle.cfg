CONSTANTS
    Hooks = {h1}
    Waits = {w1, w2}
    Payloads = {m1, m2}
    Streams = 1
    PageSize = 1
    PayloadBatch = 2
    Passes = {p1, p2}
    MaxCalls = 1
    MaxFaults = 1
SPECIFICATION Spec
SYMMETRY Interchangeable
CHECK_DEADLOCK FALSE
INVARIANTS WorkIsArmed NoDerivativeForgotten TombstoneLast CountedOnce
PROPERTIES ExpiryIsPermanent PhasesAdvance
