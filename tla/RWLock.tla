------------------------------- MODULE RWLock --------------------------------
(***************************************************************************)
(* The reader/writer lock of the native kernel, os/port/qlock.c: rlock,    *)
(* canrlock, runlock, wlock and wunlock.                                   *)
(*                                                                         *)
(* A critical section of q->use is one action, except for the one in which *)
(* wunlock wakes a run of readers: it calls ready() with q->use held, and  *)
(* a reader it has woken may run before the loop is over, so each turn of  *)
(* that loop is a step and `use' records who holds the spin lock meanwhile.*)
(* rlock and wlock always store nil in up->qnext, so the queue threaded    *)
(* through qnext is the sequence `queue'.                                  *)
(***************************************************************************)
EXTENDS Integers, Sequences, FiniteSets

CONSTANTS
    Procs,  \* processes using the lock
    Nil     \* the nil pointer

ASSUME RWLockAssumption == IsFiniteSet(Procs) /\ Nil \notin Procs

VARIABLES
    use,      \* holder of q->use between two steps
    readers,  \* q->readers
    writer,   \* q->writer
    queue,    \* q->head ... q->tail
    state,    \* p->state
    pc,       \* where each process is
    target    \* the writer that runlock or wunlock is about to make ready

vars == <<use, readers, writer, queue, state, pc, target>>

Pointers == Procs \cup {Nil}
States == {"Running", "QueueingR", "QueueingW", "Ready"}
PCs == {"idle", "rsched", "wsched", "reading", "writing", "readying", "waking", "panic"}

TypeOK ==
    /\ use \in Pointers
    /\ readers \in Nat
    /\ writer \in BOOLEAN
    /\ queue \in Seq(Procs)
    /\ state \in [Procs -> States]
    /\ pc \in [Procs -> PCs]
    /\ target \in [Procs -> Pointers]

Init ==
    /\ use = Nil
    /\ readers = 0
    /\ writer = FALSE
    /\ queue = <<>>
    /\ state = [p \in Procs |-> "Running"]
    /\ pc = [p \in Procs |-> "idle"]
    /\ target = [p \in Procs |-> Nil]

Goto(p, l) == pc' = [pc EXCEPT ![p] = l]

\* A wrong variant: rlock does not look at the queue.
RlockTakeBarges(p) ==
    /\ pc[p] = "idle" /\ use = Nil
    /\ ~writer
    /\ readers' = readers + 1
    /\ Goto(p, "reading")
    /\ UNCHANGED <<use, writer, queue, state, target>>

\* rlock's "no writer, go for it", and a canrlock that succeeds.  A canrlock
\* that fails changes nothing.
RlockTake(p) ==
    /\ pc[p] = "idle" /\ use = Nil
    /\ ~writer /\ queue = <<>>
    /\ readers' = readers + 1
    /\ Goto(p, "reading")
    /\ UNCHANGED <<use, writer, queue, state, target>>

RlockWait(p) ==
    /\ pc[p] = "idle" /\ use = Nil
    /\ writer \/ queue # <<>>
    /\ queue' = Append(queue, p)
    /\ state' = [state EXCEPT ![p] = "QueueingR"]
    /\ Goto(p, "rsched")
    /\ UNCHANGED <<use, readers, writer, target>>

\* runlock while others read, or with nobody waiting.
RunlockLeave(p) ==
    /\ pc[p] = "reading" /\ use = Nil
    /\ readers' = readers - 1
    /\ readers - 1 > 0 \/ queue = <<>>
    /\ Goto(p, "idle")
    /\ UNCHANGED <<use, writer, queue, state, target>>

\* The last reader out starts the waiting writer; panic("runlock") if the
\* first of the queue is not one.
RunlockLast(p) ==
    /\ pc[p] = "reading" /\ use = Nil
    /\ readers' = readers - 1
    /\ readers - 1 <= 0 /\ queue # <<>>
    /\ IF state[Head(queue)] # "QueueingW"
       THEN Goto(p, "panic") /\ UNCHANGED <<queue, writer, target>>
       ELSE /\ queue' = Tail(queue)
            /\ writer' = TRUE
            /\ target' = [target EXCEPT ![p] = Head(queue)]
            /\ Goto(p, "readying")
    /\ UNCHANGED <<use, state>>

\* wlock's "noone waiting, go for it": only the counts are tested.
WlockTake(p) ==
    /\ pc[p] = "idle" /\ use = Nil
    /\ readers = 0 /\ ~writer
    /\ writer' = TRUE
    /\ Goto(p, "writing")
    /\ UNCHANGED <<use, readers, queue, state, target>>

WlockWait(p) ==
    /\ pc[p] = "idle" /\ use = Nil
    /\ readers # 0 \/ writer
    /\ queue' = Append(queue, p)
    /\ state' = [state EXCEPT ![p] = "QueueingW"]
    /\ Goto(p, "wsched")
    /\ UNCHANGED <<use, readers, writer, target>>

\* wunlock with nobody waiting, with a writer first in the queue, and with a
\* reader first: the last keeps q->use for the loop that wakes the readers.
WunlockFree(p) ==
    /\ pc[p] = "writing" /\ use = Nil
    /\ queue = <<>>
    /\ writer' = FALSE
    /\ Goto(p, "idle")
    /\ UNCHANGED <<use, readers, queue, state, target>>

WunlockWriter(p) ==
    /\ pc[p] = "writing" /\ use = Nil
    /\ queue # <<>> /\ state[Head(queue)] = "QueueingW"
    /\ queue' = Tail(queue)
    /\ target' = [target EXCEPT ![p] = Head(queue)]
    /\ Goto(p, "readying")
    /\ UNCHANGED <<use, readers, writer, state>>

WunlockReaders(p) ==
    /\ pc[p] = "writing" /\ use = Nil
    /\ queue # <<>> /\ state[Head(queue)] # "QueueingW"
    /\ IF state[Head(queue)] # "QueueingR"
       THEN Goto(p, "panic") /\ UNCHANGED use
       ELSE Goto(p, "waking") /\ use' = p
    /\ UNCHANGED <<readers, writer, queue, state, target>>

\* A wrong variant: the loop stops after one reader.
FirstReadsOne == queue # <<>> /\ state[Head(queue)] = "QueueingR" /\ readers = 0

FirstReads == queue # <<>> /\ state[Head(queue)] = "QueueingR"

\* A wrong variant: the loop wakes writers too.
WakeReaderAll(p) ==
    /\ pc[p] = "waking"
    /\ queue # <<>>
    /\ queue' = Tail(queue)
    /\ readers' = readers + 1
    /\ state' = [state EXCEPT ![Head(queue)] = "Ready"]
    /\ UNCHANGED <<use, writer, pc, target>>

\* One turn of the loop: q->readers++ and ready(p) for the first of the queue.
WakeReader(p) ==
    /\ pc[p] = "waking"
    /\ FirstReads
    /\ queue' = Tail(queue)
    /\ readers' = readers + 1
    /\ state' = [state EXCEPT ![Head(queue)] = "Ready"]
    /\ UNCHANGED <<use, writer, pc, target>>

WakeEnd(p) ==
    /\ pc[p] = "waking"
    /\ ~FirstReads
    /\ writer' = FALSE
    /\ use' = Nil
    /\ Goto(p, "idle")
    /\ UNCHANGED <<readers, queue, state, target>>

\* The ready(p) of runlock and wunlock, after the spin lock is released.
ReadyWriter(p) ==
    /\ pc[p] = "readying"
    /\ state' = [state EXCEPT ![target[p]] = "Ready"]
    /\ target' = [target EXCEPT ![p] = Nil]
    /\ Goto(p, "idle")
    /\ UNCHANGED <<use, readers, writer, queue>>

\* A process made ready gets a processor and returns from sched(), holding the
\* lock.
Dispatch(p) ==
    /\ state[p] = "Ready"
    /\ state' = [state EXCEPT ![p] = "Running"]
    /\ Goto(p, IF pc[p] = "rsched" THEN "reading" ELSE "writing")
    /\ UNCHANGED <<use, readers, writer, queue, target>>

Next ==
    \E p \in Procs :
        \/ RlockTake(p) \/ RlockWait(p) \/ RunlockLeave(p) \/ RunlockLast(p)
        \/ WlockTake(p) \/ WlockWait(p)
        \/ WunlockFree(p) \/ WunlockWriter(p) \/ WunlockReaders(p)
        \/ WakeReader(p) \/ WakeEnd(p)
        \/ ReadyWriter(p) \/ Dispatch(p)

Spec == Init /\ [][Next]_vars

\* Whoever holds the lock releases it, the unlock calls finish, and the
\* scheduler runs what is ready.  Asking for the lock is the caller's choice.
Goes(p) ==
    \/ RunlockLeave(p) \/ RunlockLast(p)
    \/ WunlockFree(p) \/ WunlockWriter(p) \/ WunlockReaders(p)
    \/ WakeReader(p) \/ WakeEnd(p) \/ ReadyWriter(p) \/ Dispatch(p)

-----------------------------------------------------------------------------
\* The processes that have been given the lock for reading, and for writing,
\* those still on their way out of sched() included.
ReadHolders == {p \in Procs : pc[p] = "reading" \/ (pc[p] = "rsched" /\ state[p] = "Ready")}
WriteHolders ==
    {p \in Procs : \/ pc[p] = "writing"
                   \/ pc[p] = "wsched" /\ state[p] = "Ready"
                   \/ \E r \in Procs : pc[r] = "readying" /\ target[r] = p}

\* "It allows concurrent readers but gives each writer exclusive access": a
\* process given the lock for writing is the only one that has it, also during
\* a hand-off and while wunlock is waking readers.  (rlock, runlock, wlock,
\* wunlock)
WriterExclusive ==
    \A p \in WriteHolders : ReadHolders = {} /\ WriteHolders = {p}

\* q->readers counts the processes that have the lock for reading, so the last
\* reader out is really the last; q->writer is set while one has it for writing.
CountsRight ==
    /\ readers = Cardinality(ReadHolders)
    /\ WriteHolders # {} => writer
    /\ writer => WriteHolders # {} \/ \E p \in Procs : pc[p] = "waking"

\* A lock nobody has has nobody waiting for it: wlock relies on it when it
\* looks only at the counts.  (runlock, wunlock, wlock)
FreeMeansNoneWaiting == readers = 0 /\ ~writer => queue = <<>>

\* While readers have the lock, the first of the queue is a writer, so the
\* panics of runlock and wunlock are never reached.
NoPanic ==
    /\ \A p \in Procs : pc[p] # "panic"
    /\ readers > 0 /\ use = Nil /\ queue # <<>> => state[Head(queue)] = "QueueingW"
=============================================================================
