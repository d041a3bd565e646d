SPECIFICATION FairSpec
CONSTANTS
    p1 = p1
    p2 = p2
    p3 = p3
    p4 = p4
    k1 = k1
    Nil = Nil
    Procs = {p1, p2, p3, p4}
    Few = {p1, p2}
    Sleepers = {p1}
    Killers = {k1}
INVARIANT OneToken
INVARIANT WriterExclusive
INVARIANT IntwaitHasSignal
PROPERTY WaiterServed
PROPERTY SleeperReturns
