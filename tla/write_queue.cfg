\* Three writers, three calls, a memtable of one batch, I/O errors.
SPECIFICATION FairSpec
CHECK_DEADLOCK FALSE
CONSTANTS
    w1 = w1  w2 = w2  w3 = w3
    Writers = {w1, w2, w3}
    MaxCalls = 3
    BufferSize = 1
    CompactionTrigger = 1
    SlowdownTrigger = 1
    StopTrigger = 2
    Level0AtOpen = 1
    IOMayFail = TRUE
INVARIANTS
    UnflushedIsLogged
    SyncedIsSafe
    AnswersAreTrue
PROPERTIES
    EverybodyReturns
