SPECIFICATION TaskSpec
CONSTANTS
    Scores <- MCScores
    EdrScores <- MCEdrScores
INVARIANTS
    RecoveryIsStaged
