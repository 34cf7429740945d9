SPECIFICATION FairSpec
CONSTANTS
    o1 = o1
    o2 = o2
    place1 = place1
    place2 = place2
    cancel1 = cancel1
    amend1 = amend1
    Command = {place1, cancel1}
    Order = {o1}
    OrderOf <- MCOrderOf
    OpOf <- MCOpOf
    Increasing <- MCIncreasing
    NoOrder = NoOrder
    MaxRecords = 2
    SnapshotsSurvive = FALSE
    MaxRecon = 1
    MaxRoot = 1
    LateResults = FALSE
    MaxFaults = 1
INVARIANTS TypeOK DurableProof AnswersSurvive
PROPERTIES NoSendAfterArchive Recovers ImplementsContract
CHECK_DEADLOCK FALSE
