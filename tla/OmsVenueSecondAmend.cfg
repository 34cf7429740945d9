SPECIFICATION Spec
CONSTANTS
    Quantity = {1}
    Atoms = {1, 3}
    Operations = {"place", "amend"}
    Policies = {"independent"}
    MaxGroup = 1
    MaxLive = 1
    MaxTerminal = 1
    MaxOrders = 1
    MaxCommands = 4
    MaxEmitted = 4
    MaxQueries = 0
    ReduceOnly = {}
    Gated = TRUE
    MayAnswerLate = FALSE
INVARIANTS ReservationCovers
CHECK_DEADLOCK FALSE
