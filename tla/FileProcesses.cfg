SPECIFICATION FairSpec
CONSTANTS
    Rounds = 2
    MaxEdits = 1
    MaxDefects = 2
    MaxTroubles = 1
INVARIANTS SummaryMeansRecovered FailureHasCause SummaryIsOfFrozen ResultsKept
PROPERTIES Ends
CHECK_DEADLOCK FALSE
