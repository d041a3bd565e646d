SPECIFICATION LiveSpec
CONSTANTS
    p1 = p1
    p2 = p2
    p3 = p3
    Nil = Nil
    Procs = {p1, p2, p3}
    Noted = {p1}
    MaxChain = 3
    CrowdChain = 2
    Few = {p1, p2}
INVARIANT TagSafe
INVARIANT GateNotLost
INVARIANT ReplyHonoured
PROPERTY TransactionEnds
