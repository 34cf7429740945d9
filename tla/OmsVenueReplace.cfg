SPECIFICATION Spec
CONSTANTS
    Quantity = {2}
    Atoms = {1}
    Operations = {"place", "replace", "cancel"}
    Policies = {"cancel_remaining"}
    MaxGroup = 2
    MaxLive = 2
    MaxTerminal = 2
    MaxOrders = 2
    MaxCommands = 2
    MaxEmitted = 4
    MaxQueries = 0
    ReduceOnly = {}
    Gated = FALSE
    MayAnswerLate = FALSE
PROPERTIES SendsAlone
INVARIANTS SuccessorAfterClose StopsUnsent
CHECK_DEADLOCK FALSE
