SPECIFICATION LocksSpec
CONSTANTS
    a = a
    b = b
    c = c
    d = d
    Nil = Nil
    Procs = {a, b, c, d}
    QProcs = {a, b, c}
    Users <- AllQlock
INVARIANT HandoffToWaiter
