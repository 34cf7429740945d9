SPECIFICATION Spec
CONSTANTS
    o1 = o1
    o2 = o2
    place1 = place1
    place2 = place2
    cancel1 = cancel1
    amend1 = amend1
    Command = {place1, amend1}
    Order = {o1}
    OrderOf <- MCOrderOf
    OpOf <- MCOpOf
    Increasing <- MCIncreasing
    NoOrder = NoOrder
    MaxRecords = 1
    SnapshotsSurvive = TRUE
    MaxRecon = 1
    MaxRoot = 3
    LateResults = TRUE
    MaxFaults = 2
INVARIANTS LagAtMostOne RecoverableLog AtMostOnce
CHECK_DEADLOCK FALSE
