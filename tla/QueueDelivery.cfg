CONSTANTS
    Msgs = {m1, m2}
    m1 = m1
    Setups <- ClaimsAndBodies
    Procs = {p1, p2}
    None = None
    Lease = 1
    Stale = 2
    Grace = 3
    BrokerLife = 2
    RequestLife = 1
    Delays = {1}
    MaxSuspensions = 1
    Unanswered = {"reserve", "admit", "register", "schedule", "write", "finalize", "send", "claim", "suspend", "extend", "hold", "release", "discard", "unlist", "unorphan", "complete"}
    MaxFaults = 1
    PromptAnswers = TRUE
    Horizon = 3
SPECIFICATION Spec
SYMMETRY Interchangeable
CHECK_DEADLOCK FALSE
INVARIANTS OneCallback NamedWasSent OwedIsDeliverable ClaimsAreArmed BodyIsOwned GoneRunIsNotCalled
