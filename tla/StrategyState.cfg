SPECIFICATION Spec
CONSTANTS
    Candidates <- MCCandidates
    Capacity <- MCCapacity
    Strategy = 1
    MaxPayload = 1
    One = 2
    Million = 1000000
    MaxCursor = 2
    MaxNext = 3
INVARIANTS TypeOK AcceptedIsSound
PROPERTIES StaysAccepted
CHECK_DEADLOCK FALSE
