SPECIFICATION ReEntryFairSpec
CONSTANTS
    Navs = {81, 85, 87, 91, 94, 100, 103}
    VaresSizes = {15, 33}
    Gaps = {1, 3}
INVARIANTS KillSwitchIsImmediate RecoveryTakesTime
PROPERTIES ExitsAreHysteretic Reenters
