SPECIFICATION SerialSpec
CONSTANTS
    Actions = {a1, a2}
    Procs = {p1, p2}
INVARIANTS OutcomesStand
PROPERTY LifecycleKept
