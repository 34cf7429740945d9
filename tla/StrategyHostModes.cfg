SPECIFICATION FairSpec
CONSTANTS
    Modes = {"normal", "crash", "hang", "hostile-capability", "trade", "recovery", "strategy-fault", "benchmark", "portable"}
    MaxFacts = 3
    MaxSessions = 1
    MaxBatch = 2
    TradeBatches = 1
    MaxRequests = 2
    MaxFaults = 1
INVARIANTS TypeOK InStep RecoveredAtBarrier
PROPERTIES HungIsReaped
CHECK_DEADLOCK FALSE
