CONSTANTS
    Runs = {1, 2}
    Lease = 1
    Grace = 1
    CompactionBatch = 1
    SweepBatch = 2
    MaxAge = 1
    LastCall = 1
    Horizon = 3
SPECIFICATION Spec
CHECK_DEADLOCK FALSE
INVARIANTS ExpiredRunsAreUnlisted
