SPECIFICATION MCSpec
CONSTANTS
    w1 = w1
    w2 = w2
    r1 = r1
    r2 = r2
    Irq = Irq
    Ctl = Ctl
    Nil = Nil
    Writers = {w1, w2}
    Readers = {r1, r2}
    Uses <- MCUses
    Hdrspc = 1
    Cap = 6
    N = 3
    Caller = c
    Listener = l
    Starts <- MCStarts
    Defaultwin = 2
    Maxrq = 1
    Dlen = 1
    Balloc = 2
    MaxRexmit = 1
    Fast = 0
    Nqt = 1
    MaxMsg <- MCMaxMsg
    InFlight = 2
INVARIANTS Accounting ReaderIsWoken QueueBounded InOrder
PROPERTY IsByteStream
PROPERTY Settles
