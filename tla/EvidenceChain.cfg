SPECIFICATION Spec
CONSTANTS
    Prefixes = {v4, v5}
    v4 = v4
    v5 = v5
    Fragile = {"app-build", "native-full-debug"}
    MaxTroubles = 2
SYMMETRY SomePrefixes
INVARIANTS AuditedRanFrozen AuditedTestedArtifacts SealedArchiveIsFrozen ReusedIsClean
PROPERTIES ResultsStay
CHECK_DEADLOCK FALSE
