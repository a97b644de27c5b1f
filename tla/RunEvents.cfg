CONSTANTS
    Steps = {s1, s2}
    Hooks = {h1}
    Waits = {w1}
    Attrs = {a1}
    Resumes = {r1}
    Tokens = {t1}
    ClaimIds = {1}
    Peers = {p1}
    None = None
    DeferTerminalCleanup = TRUE
    MaxEvents = 7
    HookEvents = 5
    MixedEvents = 4
    MaxTime = 1
SPECIFICATION PartSpec
INVARIANTS LogExplainsState CreatedOnce NothingAfterEnd DeniedClaimsHoldNoHook HookDeliveryWindow
    ResumeAtMostOnce
PROPERTIES AppendOnly TerminalIsFinal
CHECK_DEADLOCK FALSE
