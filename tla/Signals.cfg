SPECIFICATION Spec
CONSTANTS
    Window = 3
    PatentWindow = 2
    MinWeeks = 3
    Entities <- MCEntities
    Ticker = "MU"
    Theses <- MCTheses
    Worlds <- MCWorlds
    Faults <- MCFaults
    MaxFaults = 2
    Mondays = 3
    FirstMondays = {1, 3}
    EarningsMondays = {1, 3}
    Attempts = 2
    Kept = 4
    PatentsKept = 3
INVARIANTS
    GateSeesWhatWasFound
    GrowthIsNeverPenalised
CHECK_DEADLOCK FALSE
