SPECIFICATION Spec
CONSTANTS
    Modes = {"recovery"}
    MaxFacts = 4
    MaxSessions = 1
    MaxBatch = 2
    TradeBatches = 1
    MaxRequests = 1
    MaxFaults = 0
INVARIANT FirstIntentContinues
CHECK_DEADLOCK FALSE
