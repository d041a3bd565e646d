SPECIFICATION MCSpec
CONSTANTS
    v1 = v1
    v2 = v2
    v3 = v3
    k1 = k1
    g1 = g1
    g2 = g2
    Nil = Nil
    Vms = {v1, v2, v3}
    Boot = v1
    Kprocs = {k1}
    Progs = {g1, g2}
    Extra = {g2}
\* With every Prog off the run queue and every kernel process in cblock, all wait.
CHECK_DEADLOCK FALSE
INVARIANT WellFormed
INVARIANT OneOwner
INVARIANT CblockIsWoken
PROPERTY AcquirerRuns
