SPECIFICATION Spec
CONSTANTS
    Modes = {"recovery"}
    MaxFacts = 4
    MaxSessions = 2
    MaxBatch = 2
    TradeBatches = 1
    MaxRequests = 1
    MaxFaults = 0
INVARIANTS ContinuousNumbering QuietUntilActivated
PROPERTIES ImplementsAuthority
CHECK_DEADLOCK FALSE
