\* A stream written, read, closed, failed and expired, with lost answers and restarts.
CONSTANTS
    Writers = {"a", "b"}
    Readers = {"r", "s"}
    Cleaner = "expiry"
    Chunks <- AllChunks
    Runs = {"run", "other"}
    None = None
    Setups <- AllSetups
    BatchChunks = 2
    BatchBytes = 3
    SegmentBytes = 2
    ReadChunks = 2
    ReadBytes = 2
    MaxIndex = 9
    ReadAttempts = 2
SPECIFICATION Spec
INVARIANTS RowsCoverLog WaitersAreIdle WritesLandInOrder
PROPERTIES ImplementsLog
CHECK_DEADLOCK FALSE
