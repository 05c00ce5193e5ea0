SPECIFICATION CandidateSpec
CONSTANTS
    ConsensusPriced = {}
    Preconsensus = {"VRT"}
    ActionOverride <- NoOverride
    Items <- MCItems
    Listings <- MCListings
    Mornings <- MCMornings
    Evaluations <- MCEvaluations
    Circumstances <- MCCircumstances
    Sources <- MCSources
    MaxSweeps = 3
    MaxSaves = 3
    MaxCrashes = 2
INVARIANTS
    TriggeredIsClean
    LogExplainsSnapshot
PROPERTIES
    NothingIsLoggedAhead
CHECK_DEADLOCK FALSE
