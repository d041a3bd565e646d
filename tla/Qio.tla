-------------------------------- MODULE Qio ----------------------------------
(***************************************************************************)
(* The I/O queues of os/port/qio.c: flow-controlled reads and writes by    *)
(* processes, the operations of interrupt handlers, and close, hangup,     *)
(* reopen, flush, qnoblock and qsetlimit by a third party.  A queue with a *)
(* bypass queues nothing and is not modelled.                              *)
(*                                                                         *)
(* A critical section of the queue's ilock is one action; the wakeup that  *)
(* follows it is another.  sleep and wakeup are what Proc shows them to    *)
(* be: the test of the condition and r->p = up are one step.  q->rlock and *)
(* q->wlock are mutexes that a note makes eqlock give up.  A block keeps   *)
(* its bytes, numbered modulo N as they are queued, and its BALLOC.  The   *)
(* kick routines are external and change nothing here.                     *)
(***************************************************************************)
EXTENDS Naturals, FiniteSets, Sequences, SequencesExt

CONSTANTS
    Writers, Readers,  \* processes
    Irq, Ctl,          \* an interrupt handler, and the owner of the queue
    Uses,              \* the ways to open and to use a queue that are looked at
    Hdrspc,            \* what allocb adds to a block's length
    Cap,               \* a bound of the model: qbwrite, qpassnolim, qreopen and qnoblock,
                       \* by which a queue can grow for ever, are not called above it
    N,                 \* byte numbers are 0..N-1
    Nil                \* the nil pointer

\* A way to use a queue: the processes; what the writers, the readers, the interrupt
\* handler and the owner call; lengths of writes and reads; qopen's limit, and those
\* that qsetlimit sets; Qmsg and Qcoalesce; Maxatomic.
Use == [w : SUBSET Writers, r : SUBSET Readers,
        wops : SUBSET {"qwrite", "qbwrite"}, rops : SUBSET {"qread", "qbread", "qhasdata"},
        irq : SUBSET {"qproduce", "qpass", "qpassnolim", "qiwrite", "qget", "qconsume", "qdiscard"},
        ctl : SUBSET {"qclose", "qhangup", "qreopen", "qflush", "qnoblock", "qsetlimit"},
        lens : SUBSET Nat, reads : SUBSET (Nat \ {0}),
        limit : Nat, limits : SUBSET Nat, msg : BOOLEAN, coalesce : BOOLEAN, maxatomic : Nat \ {0}]

ASSUME QioAssumption ==
    /\ Uses \subseteq Use
    /\ Cap \in Nat /\ Hdrspc \in Nat \ {0} /\ N \in Nat \ {0}

VARIABLES
    q,             \* the Queue but for its locks and Rendezes
    rlock, wlock,  \* the holders of q->rlock and q->wlock
    rr, wr,        \* q->rr.p, q->wr.p
    pc,            \* where each process is
    arg,           \* what is left of a writer's qwrite; the length of a read
    op,            \* what a reader has called
    bloat,         \* a writer is in the qflow at the head of qwrite
    next, got,     \* the next byte number, what the last read returned
    use            \* the member of Uses that this is

sync == <<rlock, wlock, rr, wr>>
local == <<arg, op, bloat>>
vars == <<q, sync, pc, local, next, got>>

Procs == Writers \cup Readers \cup {Irq, Ctl}
Block == [d : Seq(0..N-1), a : Nat]

TypeOK ==
    /\ q \in [buf : Seq(Block), len : Nat, dlen : Nat, limit : Nat, closed : BOOLEAN,
              starve : BOOLEAN, flow : BOOLEAN, noblock : BOOLEAN]
    /\ rlock \in Readers \cup {Nil} /\ wlock \in Writers \cup {Nil}
    /\ rr \in Readers \cup {Nil} /\ wr \in Writers \cup {Nil}
    /\ pc \in [Procs -> {"idle", "bwrite", "flow", "setflow", "wlock", "wsleep", "wasleep", "wwoken",
                         "rlock", "rwait", "rsleep", "rasleep", "wakerr", "wakewr"}]
    /\ arg \in [Writers \cup Readers -> Nat]
    /\ op \in [Readers -> {"qread", "qbread", "qhasdata"}]
    /\ bloat \in [Writers -> BOOLEAN]
    /\ next \in 0..N-1 /\ got \in Seq(0..N-1)
    /\ \A w \in Writers : wlock = w <=> pc[w] \in {"wsleep", "wasleep", "wwoken"}
    /\ \A r \in Readers : rlock = r <=> /\ op[r] # "qhasdata"
                                        /\ pc[r] \in {"rwait", "rsleep", "rasleep", "wakewr"}

Init ==
    /\ use \in Uses
    /\ q = [buf |-> <<>>, len |-> 0, dlen |-> 0, limit |-> use.limit, closed |-> FALSE,
            starve |-> TRUE, flow |-> FALSE, noblock |-> FALSE]
    /\ rlock = Nil /\ wlock = Nil /\ rr = Nil /\ wr = Nil
    /\ pc = [p \in Procs |-> "idle"]
    /\ arg = [p \in Writers \cup Readers |-> 0]
    /\ op = [r \in Readers |-> "qread"]
    /\ bloat = [w \in Writers |-> FALSE]
    /\ next = 0 /\ got = <<>>

Goto(p, l) == pc' = [pc EXCEPT ![p] = l]

-----------------------------------------------------------------------------
\* Blocks, and the list of a queue.
Allocb(d) == [d |-> d, a |-> Len(d) + Hdrspc]
Bytes(n) == [i \in 1..n |-> (next + i - 1) % N]
Drop(s, n) == SubSeq(s, n + 1, Len(s))

qaddlist(x, b) == [x EXCEPT !.buf = Append(@, b), !.len = @ + b.a, !.dlen = @ + Len(b.d)]

qremove(x) == [x EXCEPT !.buf = Tail(@), !.len = @ - Head(x.buf).a,
                        !.dlen = @ - Len(Head(x.buf).d)]

\* A wrong variant: the block's allocation is not counted again.
qputbackFree(x, b) == [x EXCEPT !.buf = <<b>> \o @, !.dlen = @ + Len(b.d)]

qputback(x, b) == [x EXCEPT !.buf = <<b>> \o @, !.len = @ + b.a, !.dlen = @ + Len(b.d)]

\* A wrong variant: the smaller part is copied, but the parts are exchanged.
splitblockSwapped(b, n) ==
    LET m == Len(b.d) - n
    IN IF m < n THEN [head |-> [d |-> Drop(b.d, m), a |-> b.a], tail |-> Allocb(SubSeq(b.d, 1, m))]
       ELSE [head |-> [d |-> SubSeq(b.d, 1, m), a |-> b.a], tail |-> Allocb(Drop(b.d, m))]

\* splitblock: cut n bytes off the end; the smaller part is the one copied.
splitblock(b, n) ==
    LET m == Len(b.d) - n
    IN IF m < n THEN [head |-> Allocb(SubSeq(b.d, 1, m)), tail |-> [d |-> Drop(b.d, m), a |-> b.a]]
       ELSE [head |-> [d |-> SubSeq(b.d, 1, m), a |-> b.a], tail |-> Allocb(Drop(b.d, m))]

\* Data was added: the reader that asked to be woken is.
Fed(x) == [x EXCEPT !.starve = FALSE]

\* Data was removed: writers that wait are restarted when less than low is queued.
Restarts(x, low) == x.flow /\ x.len < low
Restart(x, low) == IF Restarts(x, low) THEN [x EXCEPT !.flow = FALSE] ELSE x

\* Of the first k blocks of bs: the data, and what they allocate.
Data(bs, k) == FlattenSeq([i \in 1..k |-> bs[i].d])
Alloc(bs, k) == FoldSeq(LAMBDA b, n : b.a + n, 0, SubSeq(bs, 1, k))

notempty == q.closed \/ q.buf # <<>>
qnotfull == q.len < q.limit \/ q.closed

-----------------------------------------------------------------------------
QwriteIf(w, n, big) ==
    /\ pc[w] = "idle"
    /\ arg' = [arg EXCEPT ![w] = n]
    /\ bloat' = [bloat EXCEPT ![w] = big]
    /\ Goto(w, IF big THEN "flow" ELSE "bwrite")
    /\ UNCHANGED <<q, sync, op, next, got>>

\* A wrong variant: a writer that was interrupted may write again at once.
QwriteBloats(w, n) == QwriteIf(w, n, FALSE)

\* qwrite: stop queue bloat before the first block.
Qwrite(w, n) == QwriteIf(w, n, q.len \div 2 >= q.limit /\ ~q.noblock)

\* A process that calls qbwrite itself, with a block of at most Maxatomic bytes, is not
\* stopped before it.
Qbwrite(w, n) == n <= use.maxatomic /\ q.len < Cap /\ QwriteIf(w, n, FALSE)

\* A writer's next step once n of its bytes are dealt with.
Written(w, n, more) ==
    LET left == IF use.msg THEN 0 ELSE arg[w] - n
    IN /\ arg' = [arg EXCEPT ![w] = left]
       /\ Goto(w, IF more # "" THEN more ELSE IF left > 0 THEN "bwrite" ELSE "idle")

Fail(w) ==
    /\ arg' = [arg EXCEPT ![w] = 0]
    /\ Goto(w, "idle")

\* qwrite's loop: qbwrite of the next block.
Bwrite(w) ==
    LET n == IF arg[w] > use.maxatomic THEN use.maxatomic ELSE arg[w]
    IN /\ pc[w] = "bwrite"
       /\ \/ q.closed /\ Fail(w) /\ UNCHANGED <<q, next>>
          \/ /\ ~q.closed /\ q.len >= q.limit /\ q.noblock
             /\ Written(w, n, "") /\ UNCHANGED <<q, next>>
          \/ /\ ~q.closed /\ ~(q.len >= q.limit /\ q.noblock)
             /\ q' = Fed(qaddlist(q, Allocb(Bytes(n))))
             /\ next' = (next + n) % N
             /\ Written(w, n, IF q.starve THEN "wakerr" ELSE "flow")
       /\ UNCHANGED <<sync, op, bloat, got>>

\* qflow: while the queue is full, and not made non-blocking,
Flow(w) ==
    /\ pc[w] = "flow"
    /\ IF q.noblock \/ qnotfull
       THEN /\ Goto(w, IF bloat[w] \/ arg[w] > 0 THEN "bwrite" ELSE "idle")
            /\ bloat' = [bloat EXCEPT ![w] = FALSE]
       ELSE Goto(w, "setflow") /\ UNCHANGED bloat
    /\ UNCHANGED <<q, sync, arg, op, next, got>>

\* qflow: ask to be woken,
SetFlow(w) ==
    /\ pc[w] = "setflow"
    /\ q' = [q EXCEPT !.flow = TRUE]
    /\ Goto(w, "wlock")
    /\ UNCHANGED <<sync, local, next, got>>

\* qflow: eqlock(&q->wlock),
Wlock(w) ==
    /\ pc[w] = "wlock" /\ wlock = Nil
    /\ wlock' = w
    /\ Goto(w, "wsleep")
    /\ UNCHANGED <<q, rlock, rr, wr, local, next, got>>

\* qflow: sleep(&q->wr, qnotfull, q),
Wsleep(w) ==
    /\ pc[w] = "wsleep"
    /\ IF qnotfull
       THEN Goto(w, "wwoken") /\ UNCHANGED wr
       ELSE wr' = w /\ Goto(w, "wasleep")
    /\ UNCHANGED <<q, rlock, wlock, rr, local, next, got>>

\* qflow: qunlock(&q->wlock), and look again.
Wwoken(w) ==
    /\ pc[w] = "wwoken"
    /\ wlock' = Nil
    /\ Goto(w, "flow")
    /\ UNCHANGED <<q, rlock, rr, wr, local, next, got>>

\* A note interrupts sleep, or an eqlock that waits, in qflow: an error, which qwrite ignores at
\* its head.
Wnote(w) ==
    /\ pc[w] = "wasleep" \/ (pc[w] = "wlock" /\ wlock # Nil)
    /\ wlock' = IF wlock = w THEN Nil ELSE wlock
    /\ wr' = IF wr = w THEN Nil ELSE wr
    /\ IF bloat[w] THEN Goto(w, "flow") /\ UNCHANGED arg ELSE Fail(w)
    /\ UNCHANGED <<q, rlock, rr, op, bloat, next, got>>

-----------------------------------------------------------------------------
\* qread, qbread and qhasdata by a reader; n is the length asked for.  qhasdata does
\* not take q->rlock.
Read(r, o, n) ==
    /\ pc[r] = "idle"
    /\ arg' = [arg EXCEPT ![r] = n]
    /\ op' = [op EXCEPT ![r] = o]
    /\ Goto(r, IF o = "qhasdata" THEN "rwait" ELSE "rlock")
    /\ UNCHANGED <<q, sync, bloat, next, got>>

\* eqlock(&q->rlock).
Rlock(r) ==
    /\ pc[r] = "rlock" /\ rlock = Nil
    /\ rlock' = r
    /\ Goto(r, "rwait")
    /\ UNCHANGED <<q, wlock, rr, wr, local, next, got>>

\* The call is over: qunlock(&q->rlock), if it was taken.
Rdone(r) == rlock' = (IF rlock = r THEN Nil ELSE rlock) /\ Goto(r, "idle")

QwaitAs(r, set) ==
    /\ pc[r] = "rwait" /\ q.buf = <<>>
    /\ IF q.closed
       THEN Rdone(r) /\ UNCHANGED q
       ELSE /\ q' = [q EXCEPT !.starve = @ \/ set]
            /\ Goto(r, "rsleep")
            /\ UNCHANGED rlock
    /\ got' = <<>>
    /\ UNCHANGED <<wlock, rr, wr, local, next>>

\* A wrong variant: the reader does not ask to be woken.
QwaitUnset(r) == QwaitAs(r, FALSE)

\* qwait on an empty queue: end of file (0, or an error after three of them; the
\* same to the queue), or ask to be woken.
Qwait(r) == QwaitAs(r, TRUE)

\* qwait: sleep(&q->rr, notempty, q).
Qsleep(r) ==
    /\ pc[r] = "rsleep"
    /\ IF notempty
       THEN Goto(r, "rwait") /\ UNCHANGED rr
       ELSE Goto(r, "rasleep") /\ rr' = r
    /\ UNCHANGED <<q, rlock, wlock, wr, local, next, got>>

\* A note interrupts sleep, or an eqlock that waits: an error.
Rnote(r) ==
    /\ pc[r] = "rasleep" \/ (pc[r] = "rlock" /\ rlock # Nil)
    /\ rr' = IF rr = r THEN Nil ELSE rr
    /\ Rdone(r)
    /\ UNCHANGED <<q, wlock, wr, local, next, got>>

\* qhasdata with data queued: return 1.
Hasdata(r) ==
    /\ pc[r] = "rwait" /\ op[r] = "qhasdata" /\ q.buf # <<>>
    /\ Goto(r, "idle")
    /\ UNCHANGED <<q, sync, local, next, got>>

\* The end of a read that got the bytes d and left the queue x.
ReadEnd(r, x, d) ==
    /\ got' = d
    /\ q' = Restart(x, x.limit \div 2)
    /\ IF Restarts(x, x.limit \div 2)
       THEN Goto(r, "wakewr") /\ UNCHANGED rlock
       ELSE Rdone(r)
    /\ UNCHANGED <<wlock, rr, wr, local, next>>

\* The blocks taken so far are b; the last is split if it is too big and this is
\* not a message queue.
SplitLast(r, x, front, last) ==
    LET extra == Len(front) + Len(last.d) - arg[r]
    IN IF extra > 0
       THEN IF use.msg THEN ReadEnd(r, x, SubSeq(front \o last.d, 1, arg[r]))
            ELSE LET sb == splitblock(last, extra)
                 IN ReadEnd(r, qputback(x, sb.tail), front \o sb.head.d)
       ELSE ReadEnd(r, x, front \o last.d)

\* qbread, and qread of a queue that does not coalesce.
TakeBlock(r) ==
    /\ pc[r] = "rwait" /\ q.buf # <<>>
    /\ op[r] = "qbread" \/ (op[r] = "qread" /\ ~use.coalesce)
    /\ SplitLast(r, qremove(q), <<>>, Head(q.buf))

\* qread of a queue that coalesces: an empty block goes away, and qwait again.
DropEmpty(r) ==
    /\ pc[r] = "rwait" /\ op[r] = "qread" /\ use.coalesce
    /\ q.buf # <<>> /\ Head(q.buf).d = <<>>
    /\ q' = qremove(q)
    /\ UNCHANGED <<sync, pc, local, next, got>>

\* qread of a queue that coalesces: the first block and as many more as are
\* needed to fill the read.
CoalesceBlocks(r) ==
    /\ pc[r] = "rwait" /\ op[r] = "qread" /\ use.coalesce
    /\ q.buf # <<>> /\ Head(q.buf).d # <<>>
    /\ LET k == CHOOSE k \in 1..Len(q.buf) :
                  /\ Len(Data(q.buf, k)) >= arg[r] \/ k = Len(q.buf)
                  /\ \A j \in 1..k-1 : Len(Data(q.buf, j)) < arg[r]
           x == [q EXCEPT !.buf = Drop(@, k), !.len = @ - Alloc(q.buf, k),
                          !.dlen = @ - Len(Data(q.buf, k))]
       IN SplitLast(r, x, Data(q.buf, k-1), q.buf[k])

-----------------------------------------------------------------------------
\* wakeup(&q->rr).
WakeupRR(p) ==
    /\ pc[p] = "wakerr"
    /\ pc' = [x \in Procs |->
                IF x = rr THEN "rwait"
                ELSE IF x # p THEN pc[x]
                ELSE IF p \in Writers THEN "flow" ELSE IF p = Ctl THEN "wakewr" ELSE "idle"]
    /\ rr' = Nil
    /\ UNCHANGED <<q, rlock, wlock, wr, local, next, got>>

\* wakeup(&q->wr); a reader then unlocks q->rlock.
WakeupWR(p) ==
    /\ pc[p] = "wakewr"
    /\ pc' = [x \in Procs |-> IF x = wr THEN "wwoken" ELSE IF x = p THEN "idle" ELSE pc[x]]
    /\ wr' = Nil
    /\ rlock' = IF p \in Readers THEN Nil ELSE rlock
    /\ UNCHANGED <<q, wlock, rr, local, next, got>>

\* qproduce, qpass, qpassnolim and qiwrite of n bytes in one block.  Only qproduce
\* does not look whether the queue is closed.
IrqPut(o, n) ==
    LET full == CASE o = "qproduce" -> q.len >= q.limit
                  [] o = "qpass" -> q.len >= q.limit
                  [] o = "qpassnolim" -> FALSE
                  [] o = "qiwrite" -> q.len \div 2 >= q.limit
        x == qaddlist(q, Allocb(Bytes(n)))
        high == CASE o = "qproduce" -> x.len >= x.limit
                  [] o \in {"qpass", "qpassnolim"} -> x.len >= x.limit \div 2
                  [] o = "qiwrite" -> FALSE
    IN /\ pc[Irq] = "idle" /\ o \in use.irq
       /\ o = "qpassnolim" => q.len < Cap
       /\ IF full \/ (q.closed /\ o # "qproduce")
          THEN /\ q' = [q EXCEPT !.flow = @ \/ o = "qproduce"]
               /\ UNCHANGED <<pc, next>>
          ELSE /\ q' = Fed([x EXCEPT !.flow = @ \/ high])
               /\ next' = (next + n) % N
               /\ IF q.starve THEN Goto(Irq, "wakerr") ELSE UNCHANGED pc
       /\ UNCHANGED <<sync, local, got>>

\* The end of an interrupt handler's removal that left the queue x.
IrqTaken(x, low) ==
    /\ q' = Restart(x, low)
    /\ IF Restarts(x, low) THEN Goto(Irq, "wakewr") ELSE UNCHANGED pc
    /\ UNCHANGED <<sync, local, next>>

\* qget: the first block.
Qget ==
    /\ pc[Irq] = "idle" /\ "qget" \in use.irq
    /\ IF q.buf = <<>>
       THEN /\ q' = [q EXCEPT !.starve = TRUE] /\ got' = <<>>
            /\ UNCHANGED <<sync, pc, local, next>>
       ELSE IrqTaken(qremove(q), q.limit \div 2) /\ got' = Head(q.buf).d

\* qconsume: up to n bytes of the first block that is not empty.
Qconsume(n) ==
    LET e == SelectInSeq(q.buf, LAMBDA b : b.d # <<>>)
        skip == IF e = 0 THEN Len(q.buf) ELSE e - 1
        y == [q EXCEPT !.buf = Drop(@, skip), !.len = @ - Alloc(q.buf, skip)]
        b == q.buf[e]
    IN /\ pc[Irq] = "idle" /\ "qconsume" \in use.irq
       /\ IF e = 0
          THEN IrqTaken([y EXCEPT !.starve = TRUE], q.limit \div 2) /\ got' = <<>>
          ELSE /\ got' = IF n < Len(b.d) THEN SubSeq(b.d, 1, n) ELSE b.d
               /\ IrqTaken(IF use.msg \/ n >= Len(b.d) THEN qremove(y)
                           ELSE [y EXCEPT !.buf[1].d = Drop(@, n), !.dlen = @ - n], q.limit \div 2)

\* qdiscard: throw n bytes away; writers restart below the limit itself.
Qdiscard(n) ==
    LET k == CHOOSE k \in 0..Len(q.buf) :
               /\ Len(Data(q.buf, k)) <= n
               /\ k > 0 => Len(Data(q.buf, k-1)) < n
               /\ k < Len(q.buf) => n \in {Len(Data(q.buf, k))} \cup 0..Len(Data(q.buf, k+1)) - 1
        m == n - Len(Data(q.buf, k))
        x == [q EXCEPT !.buf = Drop(@, k), !.len = @ - Alloc(q.buf, k),
                       !.dlen = @ - Len(Data(q.buf, k))]
    IN /\ pc[Irq] = "idle" /\ "qdiscard" \in use.irq
       /\ IrqTaken(IF x.buf = <<>> \/ m = 0 THEN x
                   ELSE [x EXCEPT !.buf[1].d = Drop(@, m), !.dlen = @ - m], q.limit)
       /\ UNCHANGED got

-----------------------------------------------------------------------------
Control(o, x, l) ==
    /\ pc[Ctl] = "idle" /\ o \in use.ctl
    /\ o \in {"qreopen", "qnoblock"} => q.len < Cap
    /\ q' = x
    /\ Goto(Ctl, l)
    /\ UNCHANGED <<sync, local, next, got>>

Emptied == [q EXCEPT !.buf = <<>>, !.len = 0, !.dlen = 0]

\* qclose: no data, no flow control, everybody is woken.
Qclose == Control("qclose", [Emptied EXCEPT !.closed = TRUE, !.flow = FALSE,
                                            !.starve = FALSE, !.noblock = FALSE], "wakerr")

\* qhangup: the data stays.
Qhangup == Control("qhangup", [q EXCEPT !.closed = TRUE], "wakerr")

\* qreopen.
Qreopen == Control("qreopen", [q EXCEPT !.closed = FALSE, !.starve = TRUE, !.limit = use.limit], "idle")

\* qflush: the data goes, and a writer is woken; Qflow stays as it is.
Qflush == Control("qflush", Emptied, "wakewr")

\* qnoblock, in both directions.
Qnoblock == Control("qnoblock", [q EXCEPT !.noblock = ~@], "idle")

\* qsetlimit: nobody is woken.
Qsetlimit(n) == Control("qsetlimit", [q EXCEPT !.limit = n], "idle")

\* What the parties do of themselves, and by choice.
Step(p) ==
    \/ WakeupRR(p) \/ WakeupWR(p)
    \/ p \in use.w /\ (Bwrite(p) \/ Flow(p) \/ SetFlow(p) \/ Wlock(p) \/ Wsleep(p) \/ Wwoken(p))
    \/ p \in use.r /\ (\/ Rlock(p) \/ Qwait(p) \/ Qsleep(p) \/ Hasdata(p)
                      \/ TakeBlock(p) \/ DropEmpty(p) \/ CoalesceBlocks(p)
                      \/ \E o \in use.rops, n \in use.reads : Read(p, o, n))
Choice ==
    \/ \E w \in use.w : Wnote(w)
    \/ "qwrite" \in use.wops /\ \E w \in use.w, n \in use.lens : Qwrite(w, n)
    \/ "qbwrite" \in use.wops /\ \E w \in use.w, n \in use.lens : Qbwrite(w, n)
    \/ \E r \in use.r : Rnote(r)
    \/ \E o \in {"qproduce", "qpass", "qpassnolim", "qiwrite"}, n \in use.lens : IrqPut(o, n)
    \/ Qget \/ \E n \in use.reads : Qconsume(n) \/ Qdiscard(n)
    \/ Qclose \/ Qhangup \/ Qreopen \/ Qflush \/ Qnoblock \/ \E n \in use.limits : Qsetlimit(n)

Next == (Choice \/ \E p \in Procs : Step(p)) /\ UNCHANGED use

Spec == Init /\ [][Next]_<<vars, use>>

\* Processes go on, a wakeup that is due is made, a qlock is passed on in order,
\* and readers come back for more.  Notes, writes and control are left open.
LiveSpec == Spec /\ \A p \in Procs : SF_vars(Step(p))

-----------------------------------------------------------------------------
\* Types; and len and dlen are the sums of BALLOC and BLEN over the blocks of the queue,
\* through every split, put-back, partial read, discard and flush.
Accounting == /\ TypeOK
              /\ q.len = Alloc(q.buf, Len(q.buf))
              /\ q.dlen = Len(Data(q.buf, Len(q.buf)))

\* A reader does not sleep on while there is data, or the queue is closed: the
\* wakeup is on its way.  And at most one process sleeps on q->rr, and one on q->wr,
\* as sleep requires: each process asleep there is the one that the Rendez knows.
ReaderIsWoken ==
    /\ rr # Nil /\ notempty => \E p \in Procs : pc[p] = "wakerr"
    /\ \A r \in Readers : pc[r] = "rasleep" => rr = r
    /\ \A w \in Writers : pc[w] = "wasleep" => wr = w

\* Notes that interrupt flow-controlled calls of qwrite do not let the queue grow: what
\* is queued stays below twice the limit and one block for each writer.
QueueBounded ==
    use.wops = {"qwrite"} /\ use.irq = {} /\ use.ctl = {}
    => q.len < 2 * use.limit + Cardinality(use.w) * (use.maxatomic + Hdrspc)

\* The refinement mapping: the bytes of the stream are those of the blocks.  (What a
\* full queue refuses, or a write to a non-blocking one throws away, was never put in.)
Stream == INSTANCE ByteStream WITH
    s <- Data(q.buf, Len(q.buf)), msg <- use.msg,
    lossy <- use.ctl \cap {"qclose", "qflush"} # {} \/ "qdiscard" \in use.irq

\* A queue implements a byte stream, however qread, qbread, splitblock, qputback and
\* the interrupt-level operations cut, join and put back its blocks.
IsByteStream == Stream!StreamSpec

\* A writer that flow control put to sleep is allowed to proceed when the queue has been
\* drained below its low water mark (half its limit).
WriterProceeds == \A w \in Writers :
    pc[w] = "wasleep" /\ q.len < q.limit \div 2 ~> pc[w] # "wasleep"
=============================================================================
