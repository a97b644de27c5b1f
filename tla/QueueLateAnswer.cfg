CONSTANTS
    Msgs = {m1, m2}
    m1 = m1
    Setups <- LateAnswer
    Procs = {p1, p2}
    None = None
    Lease = 1
    Stale = 2
    Grace = 3
    BrokerLife = 2
    RequestLife = 1
    Delays = {1}
    MaxSuspensions = 1
    Unanswered = {"reserve", "admit", "send", "confirm", "abandon", "chain", "claim", "admitted", "suspend"}
    MaxFaults = 1
    PromptAnswers = FALSE
    Horizon = 3
SPECIFICATION Spec
SYMMETRY Interchangeable
CHECK_DEADLOCK FALSE
INVARIANTS EarlyRetryKeepsMessage
