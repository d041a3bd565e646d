------------------------------ MODULE MCQio ---------------------------------
EXTENDS Qio, TLC
CONSTANTS w1, w2, r1, r2

Plain == [w |-> {w1}, r |-> {r1}, wops |-> {"qwrite"}, rops |-> {"qread"}, irq |-> {}, ctl |-> {},
          lens |-> {1, 3}, reads |-> {2}, limit |-> 4, limits |-> {}, msg |-> FALSE, coalesce |-> FALSE,
          maxatomic |-> 2]

\* Two readers compete.
Contending == [Plain EXCEPT !.r = {r1, r2}, !.lens = {1}, !.reads = {1}, !.limit = 3,
                            !.maxatomic = 1]

\* Two writers share a queue, and its reader.
Sharing == [Plain EXCEPT !.w = {w1, w2}, !.lens = {1}, !.reads = {1}, !.limit = 3,
                         !.maxatomic = 1]

\* The writer also calls qbwrite, and the limit changes.
Limited == [Plain EXCEPT !.wops = {"qwrite", "qbwrite"}, !.ctl = {"qsetlimit"}, !.lens = {2},
                         !.limit = 3, !.limits = {3, 5}]

\* The queue is closed, hung up and opened again.
Closing == [Plain EXCEPT !.ctl = {"qclose", "qhangup", "qreopen"}, !.lens = {2}, !.limit = 3]

\* Blocks are split by the reads.
Splitting == [Plain EXCEPT !.lens = {3}, !.reads = {1, 2}, !.limit = 6, !.maxatomic = 3]

\* A device's output queue: an interrupt handler takes the data away.
Output == [Plain EXCEPT !.r = {}, !.irq = {"qconsume", "qdiscard"}, !.lens = {0, 2},
                        !.reads = {1}, !.limit = 3]
OutputClosing == [Plain EXCEPT !.r = {}, !.irq = {"qget"}, !.lens = {2},
                               !.ctl = {"qflush", "qclose", "qreopen", "qnoblock"}]

\* Its input queue: the interrupt handler puts the data there.
Input == [Plain EXCEPT !.w = {}, !.irq = {"qproduce", "qpass", "qpassnolim", "qiwrite"},
                       !.ctl = {"qhangup", "qreopen"}, !.lens = {0, 3}, !.reads = {1, 3},
                       !.limit = 3, !.coalesce = TRUE, !.maxatomic = 3]

\* Messages.
Messages == [Plain EXCEPT !.rops = {"qread", "qbread", "qhasdata"}, !.lens = {2},
                          !.reads = {1, 2}, !.msg = TRUE]

MCUses == {Plain, Contending, Sharing, Limited, Closing, Splitting, Output, OutputClosing, Input,
           Messages}
TwoWriters == {Sharing}
=============================================================================
