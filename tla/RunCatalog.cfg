CONSTANTS
    Runs = {1, 2}
    Lease = 1
    Grace = 1
    CompactionBatch = 1
    SweepBatch = 1
    MaxAge = 1
    LastCall = 1
    Horizon = 3
SPECIFICATION FairSpec
CHECK_DEADLOCK FALSE
INVARIANTS RemovedStaysOut FenceIsArmed PrefilterSound
PROPERTIES SweepAdvances
