SPECIFICATION CrashSpec
CONSTANTS
    Actions = {a1, a2}
    Procs = {p1, p2}
SYMMETRY Symmetry
INVARIANT Durable
