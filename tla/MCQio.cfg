SPECIFICATION LiveSpec
CONSTANTS
    w1 = w1
    w2 = w2
    r1 = r1
    r2 = r2
    Irq = Irq
    Ctl = Ctl
    Nil = Nil
    Writers = {w1, w2}
    Readers = {r1, r2}
    Uses <- TwoWriters
    Hdrspc = 1
    Cap = 6
    N = 3
PROPERTY WriterProceeds
