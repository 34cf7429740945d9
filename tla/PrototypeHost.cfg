SPECIFICATION Spec
CONSTANTS
    IntentEvery = 1
    MaxSeq = 7
    Capacity = 2
    OutCapacity = 3
    CheckpointEvery = 2
    MaxLate = 2
INVARIANTS CountsTrue NeverTwice NothingLostQuietly
CHECK_DEADLOCK FALSE
