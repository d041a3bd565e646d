----------------------------- MODULE EmuRWLock -------------------------------
(***************************************************************************)
(* The reader/writer lock of the hosted system, emu/port/lock.c: rlock,    *)
(* canrlock, runlock, wlock and wunlock, built from two QLocks (x and k),  *)
(* a spin lock (l) and a count, with the hosted qlock, canqlock, qunlock   *)
(* and the semaphores behind osblock and osready.                          *)
(*                                                                         *)
(* A critical section of x.use is one action.  Those of k.use are two, so  *)
(* that the canqlock(&l->k) of rlock, whose result is thrown away, can     *)
(* meet a busy spin lock.  osready runs after the spin lock is released    *)
(* and is a step of its own.  qlock stores nil in up->qnext, so a QLock's  *)
(* wait queue is a sequence.                                               *)
(***************************************************************************)
EXTENDS Integers, Sequences, FiniteSets

CONSTANTS
    Procs,  \* processes using the lock
    Nil     \* the nil pointer

VARIABLES
    xlocked, xq,        \* l->x: locked, and head ... tail
    kuse, klocked, kq,  \* l->k: holder of k.use between two steps, locked, queue
    l,                  \* holder of the spin lock l->l between two steps
    readers,            \* l->readers
    sem,                \* the semaphore osblock waits on, of each process
    pc,                 \* where each process is
    target              \* the process a qunlock is about to osready

xvars == <<xlocked, xq>>
kvars == <<kuse, klocked, kq>>
vars == <<xvars, kvars, l, readers, sem, pc, target>>

Pointers == Procs \cup {Nil}
\* rx, wx: in osblock for x;  rl: reader about to lock l;  rq: reader about to
\* release x;  uk, ud: runlock about to, and in, k.use;  ul: runlock about to
\* unlock l;  wk, wd: wlock about to, and in, k.use;  wb: wlock in osblock for
\* k;  vd: wunlock in k.use;  vx: wunlock about to release x;  rr, ur, vr, vy:
\* about to osready the target.
PCs == {"idle", "rx", "rl", "rq", "rr", "reading", "uk", "ud", "ur", "ul",
        "wx", "wk", "wd", "wb", "writing", "vd", "vr", "vx", "vy"}

TypeOK ==
    /\ xlocked \in BOOLEAN /\ xq \in Seq(Procs)
    /\ kuse \in Pointers /\ klocked \in BOOLEAN /\ kq \in Seq(Procs)
    /\ l \in Pointers
    /\ readers \in Nat
    /\ sem \in [Procs -> Nat]
    /\ pc \in [Procs -> PCs]
    /\ target \in [Procs -> Pointers]

Init ==
    /\ xlocked = FALSE /\ xq = <<>>
    /\ kuse = Nil /\ klocked = FALSE /\ kq = <<>>
    /\ l = Nil
    /\ readers = 0
    /\ sem = [p \in Procs |-> 0]
    /\ pc = [p \in Procs |-> "idle"]
    /\ target = [p \in Procs |-> Nil]

Goto(p, a) == pc' = [pc EXCEPT ![p] = a]

\* A wrong variant: a process joins the queue at its head.
QlockXFront(p, a, b) ==
    /\ IF ~xlocked
       THEN xlocked' = TRUE /\ Goto(p, a) /\ UNCHANGED xq
       ELSE xq' = <<p>> \o xq /\ Goto(p, b) /\ UNCHANGED xlocked
    /\ UNCHANGED <<kvars, l, readers, sem, target>>

\* qlock(&l->x) by a process that goes on at a, or blocks at b.
QlockX(p, a, b) ==
    /\ IF ~xlocked
       THEN xlocked' = TRUE /\ Goto(p, a) /\ UNCHANGED xq
       ELSE xq' = Append(xq, p) /\ Goto(p, b) /\ UNCHANGED xlocked
    /\ UNCHANGED <<kvars, l, readers, sem, target>>

\* osblock returns: a token of the process's semaphore is taken.
Blocked == [rx |-> "rl", wx |-> "wk", wb |-> "writing"]
Osblock(p) ==
    /\ pc[p] \in DOMAIN Blocked
    /\ sem[p] > 0
    /\ sem' = [sem EXCEPT ![p] = @ - 1]
    /\ Goto(p, Blocked[pc[p]])
    /\ UNCHANGED <<xvars, kvars, l, readers, target>>

\* qunlock(&l->x): hand x to the first of its queue, to be readied at b, or
\* free it and go on at a.
QunlockX(p, a, b) ==
    /\ IF xq # <<>>
       THEN /\ xq' = Tail(xq)
            /\ target' = [target EXCEPT ![p] = Head(xq)]
            /\ Goto(p, b)
            /\ UNCHANGED xlocked
       ELSE xlocked' = FALSE /\ Goto(p, a) /\ UNCHANGED <<xq, target>>
    /\ UNCHANGED <<kvars, l, readers, sem>>

\* The critical section of qunlock(&l->k), k.use being held.
QunlockK(p, a, b) ==
    /\ kuse' = Nil
    /\ IF kq # <<>>
       THEN /\ kq' = Tail(kq)
            /\ target' = [target EXCEPT ![p] = Head(kq)]
            /\ Goto(p, b)
            /\ UNCHANGED klocked
       ELSE klocked' = FALSE /\ Goto(p, a) /\ UNCHANGED <<kq, target>>
    /\ UNCHANGED <<xvars, l, readers, sem>>

\* lock(&l->k.use) by a process at b that goes on at a.
LockKuse(p, b, a) ==
    /\ pc[p] = b
    /\ kuse = Nil
    /\ kuse' = p
    /\ Goto(p, a)
    /\ UNCHANGED <<xvars, klocked, kq, l, readers, sem, target>>

\* Where a qunlock goes on once it has made the next process ready.
Readying == [rr |-> "reading", ur |-> "ul", vr |-> "vx", vy |-> "idle"]

\* The osready that ends a qunlock.
Osready(p) ==
    /\ pc[p] \in DOMAIN Readying
    /\ sem' = [sem EXCEPT ![target[p]] = @ + 1]
    /\ target' = [target EXCEPT ![p] = Nil]
    /\ Goto(p, Readying[pc[p]])
    /\ UNCHANGED <<xvars, kvars, l, readers>>

-----------------------------------------------------------------------------
\* rlock.
RlockX(p) == pc[p] = "idle" /\ QlockX(p, "rl", "rx")

\* canrlock differs only here: it gives up when x is not free.
CanrlockX(p) == pc[p] = "idle" /\ ~xlocked /\ QlockX(p, "rl", "rx")

\* canqlock(&l->k): fails when k.use is busy or k is held.
Canqlock == kuse = Nil /\ ~klocked

\* A wrong variant: k is not taken.
RlockCountOnly(p) ==
    /\ pc[p] = "rl" /\ l = Nil
    /\ readers' = readers + 1
    /\ Goto(p, "rq")
    /\ UNCHANGED <<xvars, kvars, l, sem, target>>

\* The critical section of l: "block writers if we are the first reader".
RlockCount(p) ==
    /\ pc[p] = "rl" /\ l = Nil
    /\ readers' = readers + 1
    /\ klocked' = (klocked \/ Canqlock)
    /\ Goto(p, "rq")
    /\ UNCHANGED <<xvars, kuse, kq, l, sem, target>>

RlockRelease(p) == pc[p] = "rq" /\ QunlockX(p, "reading", "rr")

\* runlock: the last reader out keeps l while it releases k.
Runlock(p) ==
    /\ pc[p] = "reading" /\ l = Nil
    /\ readers' = readers - 1
    /\ IF readers - 1 = 0
       THEN l' = p /\ Goto(p, "uk")
       ELSE UNCHANGED l /\ Goto(p, "idle")
    /\ UNCHANGED <<xvars, kvars, sem, target>>

RunlockUse(p) == LockKuse(p, "uk", "ud")
RunlockK(p) == pc[p] = "ud" /\ QunlockK(p, "ul", "ur")
RunlockEnd(p) ==
    /\ pc[p] = "ul"
    /\ l' = Nil
    /\ Goto(p, "idle")
    /\ UNCHANGED <<xvars, kvars, readers, sem, target>>

\* wlock.
WlockX(p) == pc[p] = "idle" /\ QlockX(p, "wk", "wx")
WlockUse(p) == LockKuse(p, "wk", "wd")

\* The critical section of qlock(&l->k), "wait here for last reader".
WlockK(p) ==
    /\ pc[p] = "wd"
    /\ kuse' = Nil
    /\ IF ~klocked
       THEN klocked' = TRUE /\ Goto(p, "writing") /\ UNCHANGED kq
       ELSE kq' = Append(kq, p) /\ Goto(p, "wb") /\ UNCHANGED klocked
    /\ UNCHANGED <<xvars, l, readers, sem, target>>

\* wunlock.
WunlockUse(p) == LockKuse(p, "writing", "vd")
WunlockK(p) == pc[p] = "vd" /\ QunlockK(p, "vx", "vr")
WunlockX(p) == pc[p] = "vx" /\ QunlockX(p, "idle", "vy")

-----------------------------------------------------------------------------
Enter(p) == RlockX(p) \/ CanrlockX(p) \/ WlockX(p)

\* The steps that finish what a process has begun.
Go(p) ==
    \/ RlockCount(p) \/ RlockRelease(p)
    \/ Runlock(p) \/ RunlockUse(p) \/ RunlockK(p) \/ RunlockEnd(p)
    \/ WlockUse(p) \/ WlockK(p)
    \/ WunlockUse(p) \/ WunlockK(p) \/ WunlockX(p)
    \/ Osblock(p) \/ Osready(p)

Next == \E p \in Procs : Enter(p) \/ Go(p)

Spec == Init /\ [][Next]_vars

-----------------------------------------------------------------------------
\* Who has the lock, from the step that gives it to the step that gives it
\* back.  A writer has it as soon as k is handed to it, a reader once counted.
Reads(p) == pc[p] \in {"rq", "rr", "reading"}
Writes(p) ==
    \/ pc[p] = "writing"
    \/ pc[p] = "wb" /\ (sem[p] > 0 \/ \E r \in Procs : pc[r] = "ur" /\ target[r] = p)

\* A writer has the lock to itself, across every hand-off of x and k.  While anyone
\* reads, k is held and l->readers counts the readers; and rlock may ignore what
\* canqlock(&l->k) returns: it fails only when earlier readers hold k, never because
\* k.use is busy or a writer holds k.  (rlock, canrlock, runlock, wlock, wunlock)
WriterExclusive ==
    /\ \A p, r \in Procs : Writes(p) /\ p # r => ~Writes(r) /\ ~Reads(r)
    /\ readers = Cardinality({p \in Procs : Reads(p)})
    /\ readers > 0 => klocked
    /\ \A p \in Procs : pc[p] = "rl" /\ l = Nil => (Canqlock <=> readers = 0)

\* How many osreadys of this lock process p is owed: it is queued, or a qunlock
\* is about to make it ready.
Owed(p) ==
    Cardinality({i \in 1..Len(xq) : xq[i] = p}) +
    Cardinality({i \in 1..Len(kq) : kq[i] = p}) +
    Cardinality({q \in Procs : target[q] = p})

\* Everyone who waits for the lock gets it.
WaiterServed ==
    \A p \in Procs : pc[p] \in {"rx", "wx", "wb"} ~> pc[p] \in {"reading", "writing"}
=============================================================================
