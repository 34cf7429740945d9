SPECIFICATION Spec
CONSTANTS
    Quantity = {1, 2}
    Atoms = {1, 3}
    Operations = {"place", "amend", "cancel"}
    Policies = {"independent"}
    MaxGroup = 1
    MaxLive = 1
    MaxTerminal = 1
    MaxOrders = 1
    MaxCommands = 2
    MaxEmitted = 2
    MaxQueries = 1
    ReduceOnly = {}
    Gated = TRUE
    MayAnswerLate = TRUE
INVARIANTS TypeOK ReservationCovers EvidenceTrue TruthResolves
CHECK_DEADLOCK FALSE
