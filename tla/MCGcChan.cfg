SPECIFICATION MCSpec
CONSTANTS
    Tmp = Tmp
    N = 2
    Slots = {s1, s2}
    Fields = {f1}
    MaxHalt = 0
    MaxRef = 3
    c1 = c1
    c2 = c2
    c3 = c3
    Nil = Nil
    Progs = {p1, p2}
    Kprocs = {k1}
    Chans = {c1, c2, c3}
    Buffered = {c2}
    TkChans = {c3}
    BufLen <- MCBufLen
    Alts <- MCAlts
    MaxOps = 2
INVARIANTS NoDangling RefCovers NoMissedMeeting QueuesExact ExactlyOnce InOrder
PROPERTY GarbageFreed
