SPECIFICATION FairSpec
CONSTANTS
    Scores <- MCScores
    EdrScores <- MCEdrScores
INVARIANTS
    RecoveryIsStaged
PROPERTIES
    RelaxIsEarned
    Governed
    Converges
