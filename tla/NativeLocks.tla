----------------------------- MODULE NativeLocks -----------------------------
(***************************************************************************)
(* The two locks of os/port/qlock.c side by side: a QLock and an RWlock    *)
(* that share no field.  Either the QLock is in use, by the processes and  *)
(* in the way that `user' says, or, when `user' says that nobody uses it,  *)
(* the RWlock is.                                                          *)
(***************************************************************************)
EXTENDS RWLock

CONSTANTS QProcs, Users

VARIABLES
    quse, locked, head, tail, qnext,       \* the QLock
    eql, qstate, runq, notepending, posting,
    qpc, qtarget, user

qlvars == <<quse, locked, head, tail, qnext, eql, qstate, runq, notepending, posting,
            qpc, qtarget>>

Q == INSTANCE QLock WITH Procs <- QProcs, use <- quse, state <- qstate, pc <- qpc,
                         target <- qtarget

InUse == user # [p \in QProcs |-> "none"]

LocksInit == Init /\ Q!Init

RWStep == ~InUse /\ Next /\ UNCHANGED <<qlvars, user>>
QStep == InUse /\ Q!Next /\ UNCHANGED vars

LocksSpec == LocksInit /\ [][RWStep \/ QStep]_<<vars, qlvars, user>>

\* Whoever has the lock in use releases it and every call under way goes on.  A spin
\* lock is free again and again, and whoever spins on it gets it at last.
FairLocks ==
    /\ LocksSpec
    /\ \A p \in Procs : WF_vars(~InUse /\ Goes(p))
    /\ \A p \in QProcs : SF_qlvars(InUse /\ Q!Goes(p))

-----------------------------------------------------------------------------
\* Exclusive access: a QLock that is held has been given to exactly one process,
\* also while a hand-off, or a note that pulls a waiter out of the queue, is under
\* way; a free lock to none.  (eqlock, qlock, qunlock, postnote)
OneOwner == Q!OneOwner

\* The queue of a QLock is well formed and complete, whoever joins it, is handed the
\* lock or is pulled out by a note.
QueueIntact == Q!QueueIntact

\* Everyone who waits comes out again: of eqlock and qlock as the owner or, in eqlock,
\* interrupted by a note; of rlock and wlock with the lock, so that writers are not
\* starved by readers nor readers by writers.
Waits(p) == IF InUse THEN p \in QProcs /\ Q!Waits(p) ELSE pc[p] \in {"rsched", "wsched"}
WaiterReturns == \A p \in Procs : Waits(p) ~> ~Waits(p)

\* The process that qunlock is about to make ready is waiting for the lock.
HandoffToWaiter == Q!HandoffToWaiter
=============================================================================
