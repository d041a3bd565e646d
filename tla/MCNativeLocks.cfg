SPECIFICATION FairLocks
CONSTANTS
    a = a
    b = b
    c = c
    d = d
    Nil = Nil
    Procs = {a, b, c, d}
    QProcs = {a, b, c}
    Users <- EqlockOrMixed
INVARIANTS OneOwner QueueIntact WriterExclusive NoPanic
PROPERTY WaiterReturns
