SPECIFICATION FairSpec
CONSTANTS
    sleeper = sleeper
    other = other
    m1 = m1
    m2 = m2
    r1 = r1
    r2 = r2
    n1 = n1
    Nil = Nil
    Procs = {sleeper, other}
    Cpus = {m1, m2}
    Rendezes = {r1, r2}
    Posters = {n1}
    SleeperOf <- SleeperOfSmall
INVARIANT OneProcessor
INVARIANT RendezConsistent
INVARIANT NoPanic
PROPERTY SleeperRuns
