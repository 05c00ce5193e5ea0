SPECIFICATION FairSpec
CONSTANTS
    FirstDecay = 2
    SecondDecay = 4
    ExitMilestone = 6
    BrokenThresholdDays = 3
    BridgeCounts = {0, 4}
INVARIANTS OneDayAtATime
PROPERTY Decays
