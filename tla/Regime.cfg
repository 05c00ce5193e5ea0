SPECIFICATION Spec
CONSTANTS
    MaxKeys = 3
    Worlds <- MCWorlds
    Outages <- MCOutages
    Dependencies <- MCDependencies
    Aliases <- MCAliases
    RpeWindow = 2
    PcrKept = 3
    Attempts = 3
    Days = 2
INVARIANTS
    OneBandAMorning
    StressedMorningTightens
    OutageCostsOneBand
    WorseIsNeverCalmer
PROPERTIES
    NewsIsNewOnce
CHECK_DEADLOCK FALSE
