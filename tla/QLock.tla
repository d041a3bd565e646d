-------------------------------- MODULE QLock --------------------------------
(***************************************************************************)
(* The queueing lock of the native kernel, os/port/qlock.c: eqlock, qlock, *)
(* canqlock and qunlock, with the part of postnote (os/port/proc.c) that   *)
(* pulls a process out of an eqlock.                                       *)
(*                                                                         *)
(* Every critical section of the spin lock q->use is one action.  What     *)
(* runs outside it is a step of its own: the call of ready() at the end of *)
(* qunlock, the return from sched(), and postnote's unlocked look at       *)
(* p->state.  The wait queue is the one of the code, threaded through the  *)
(* processes' qnext fields.                                                *)
(***************************************************************************)
EXTENDS Naturals, Sequences, FiniteSets

CONSTANTS
    Procs,  \* processes using the lock
    Users,  \* what each of them calls, if anything
    Nil     \* the nil pointer

VARIABLES
    use,          \* holder of the spin lock q->use between two steps
    locked,       \* q->locked
    head, tail,   \* q->head, q->tail
    qnext,        \* p->qnext
    eql,          \* p->eql # nil
    state,        \* p->state
    runq,         \* processes linked on a scheduler run queue
    notepending,  \* p->notepending
    posting,      \* processes some postnote has marked and not yet looked at
    pc,           \* where each process is
    target,       \* the process a qunlock is about to make ready
    user          \* the member of Users at work

qvars == <<use, locked, head, tail, qnext>>
vars == <<qvars, eql, state, runq, notepending, posting, pc, target>>

Pointers == Procs \cup {Nil}
PCs == {"idle", "queueing", "sched", "woken", "owner", "readying"}

TypeOK ==
    /\ use \in Pointers
    /\ locked \in BOOLEAN
    /\ head \in Pointers /\ tail \in Pointers
    /\ qnext \in [Procs -> Pointers]
    /\ eql \in [Procs -> BOOLEAN] /\ \A p \in Procs : eql[p] => user[p] = "eqlock"
    /\ state \in [Procs -> {"Running", "Queueing", "Ready"}]
    /\ runq \subseteq Procs
    /\ notepending \in [Procs -> BOOLEAN]
    /\ posting \subseteq Procs
    /\ pc \in [Procs -> PCs]
    /\ target \in [Procs -> Pointers]
    /\ user \in Users

Init ==
    /\ use = Nil
    /\ locked = FALSE
    /\ head = Nil /\ tail = Nil
    /\ qnext = [p \in Procs |-> Nil]
    /\ eql = [p \in Procs |-> FALSE]
    /\ state = [p \in Procs |-> "Running"]
    /\ runq = {}
    /\ notepending = [p \in Procs |-> FALSE]
    /\ posting = {}
    /\ pc = [p \in Procs |-> "idle"]
    /\ target = [p \in Procs |-> Nil]
    /\ user \in Users

Goto(p, l) == pc' = [pc EXCEPT ![p] = l]

\* ready(p): a process that is already Ready is left alone.
Ready(p) ==
    IF state[p] = "Ready"
    THEN UNCHANGED <<state, runq>>
    ELSE state' = [state EXCEPT ![p] = "Ready"] /\ runq' = runq \cup {p}

\* eqlock, qlock and canqlock when the lock is free.  A canqlock that fails,
\* because the spin lock is busy or the lock is held, changes nothing.
TakeFree(p) ==
    /\ user[p] # "none"
    /\ pc[p] = "idle" /\ use = Nil
    /\ ~locked
    /\ locked' = TRUE
    /\ Goto(p, "owner")
    /\ UNCHANGED <<use, head, tail, qnext, eql, state, runq, notepending, posting, target>>

\* eqlock finds the lock held and a note pending: interrupted().
EqlockNote(p) ==
    /\ user[p] = "eqlock"
    /\ pc[p] = "idle" /\ use = Nil
    /\ locked
    /\ notepending[p]
    /\ notepending' = [notepending EXCEPT ![p] = FALSE]
    /\ UNCHANGED <<qvars, eql, state, runq, posting, pc, target>>

\* eqlock has looked at notepending and keeps q->use.
EqlockBegin(p) ==
    /\ user[p] = "eqlock"
    /\ pc[p] = "idle" /\ use = Nil
    /\ locked
    /\ ~notepending[p]
    /\ use' = p
    /\ Goto(p, "queueing")
    /\ UNCHANGED <<locked, head, tail, qnext, eql, state, runq, notepending, posting, target>>

\* The new head and tail, and the qnext fields with the old tail, if there is
\* one, linked to up.
Append1(p) ==
    /\ head' = IF tail = Nil THEN p ELSE head
    /\ tail' = p
Linked(p) == IF tail = Nil THEN qnext ELSE [qnext EXCEPT ![tail] = p]

\* A wrong variant: up->qnext is left as it was.
EqlockWaitStale(p) ==
    /\ pc[p] = "queueing"
    /\ Append1(p)
    /\ qnext' = Linked(p)
    /\ eql' = [eql EXCEPT ![p] = TRUE]
    /\ state' = [state EXCEPT ![p] = "Queueing"]
    /\ use' = Nil
    /\ Goto(p, "sched")
    /\ UNCHANGED <<locked, runq, notepending, posting, target>>
\* The rest of eqlock's critical section, up to sched().
EqlockWait(p) ==
    /\ pc[p] = "queueing"
    /\ Append1(p)
    /\ qnext' = [Linked(p) EXCEPT ![p] = Nil]
    /\ eql' = [eql EXCEPT ![p] = TRUE]
    /\ state' = [state EXCEPT ![p] = "Queueing"]
    /\ use' = Nil
    /\ Goto(p, "sched")
    /\ UNCHANGED <<locked, runq, notepending, posting, target>>

\* qlock does the same but leaves up->qnext as it was.
QlockWait(p) ==
    /\ user[p] = "qlock"
    /\ pc[p] = "idle" /\ use = Nil
    /\ locked
    /\ Append1(p)
    /\ qnext' = Linked(p)
    /\ eql' = [eql EXCEPT ![p] = FALSE]
    /\ state' = [state EXCEPT ![p] = "Queueing"]
    /\ Goto(p, "sched")
    /\ UNCHANGED <<use, locked, runq, notepending, posting, target>>

\* runproc and sched give a processor to a process of the run queue.  One that
\* was waiting in sched() returns from it; one that is on the run queue while
\* it runs is switched out and back in.
Dispatch(p) ==
    /\ p \in runq
    /\ runq' = runq \ {p}
    /\ state' = [state EXCEPT ![p] = "Running"]
    /\ Goto(p, IF pc[p] = "sched" THEN "woken" ELSE pc[p])
    /\ UNCHANGED <<qvars, eql, notepending, posting, target>>

\* eqlock after sched(): eql was cleared by a postnote, or the lock is ours.
EqlockReturn(p) ==
    /\ user[p] = "eqlock"
    /\ pc[p] = "woken"
    /\ IF eql[p]
       THEN Goto(p, "owner") /\ UNCHANGED notepending
       ELSE Goto(p, "idle") /\ notepending' = [notepending EXCEPT ![p] = FALSE]
    /\ eql' = [eql EXCEPT ![p] = FALSE]
    /\ UNCHANGED <<qvars, state, runq, posting, target>>

QlockReturn(p) ==
    /\ user[p] = "qlock"
    /\ pc[p] = "woken"
    /\ Goto(p, "owner")
    /\ UNCHANGED <<qvars, eql, state, runq, notepending, posting, target>>

\* A wrong variant: the lock is free during a hand-off.
QunlockFrees(p) ==
    /\ pc[p] = "owner" /\ use = Nil
    /\ locked' = FALSE
    /\ IF head # Nil
       THEN /\ head' = qnext[head]
            /\ tail' = IF qnext[head] = Nil THEN Nil ELSE tail
            /\ target' = [target EXCEPT ![p] = head]
            /\ Goto(p, "readying")
       ELSE Goto(p, "idle") /\ UNCHANGED <<head, tail, target>>
    /\ UNCHANGED <<use, qnext, eql, state, runq, notepending, posting>>

\* qunlock: hand the lock to the first of the queue, or free it.
Qunlock(p) ==
    /\ pc[p] = "owner" /\ use = Nil
    /\ IF head # Nil
       THEN /\ head' = qnext[head]
            /\ tail' = IF qnext[head] = Nil THEN Nil ELSE tail
            /\ target' = [target EXCEPT ![p] = head]
            /\ Goto(p, "readying")
            /\ UNCHANGED locked
       ELSE /\ locked' = FALSE
            /\ Goto(p, "idle")
            /\ UNCHANGED <<head, tail, target>>
    /\ UNCHANGED <<use, qnext, eql, state, runq, notepending, posting>>

\* qunlock's ready(p), outside the spin lock.
QunlockReady(p) ==
    /\ pc[p] = "readying"
    /\ Ready(target[p])
    /\ target' = [target EXCEPT ![p] = Nil]
    /\ Goto(p, "idle")
    /\ UNCHANGED <<qvars, eql, notepending, posting>>

\* postnote marks the note; the processes here never sleep on a Rendez.  A second
\* note that finds the first one still marked changes nothing.
Postnote(p) ==
    /\ ~(p \in posting /\ notepending[p])
    /\ notepending' = [notepending EXCEPT ![p] = TRUE]
    /\ posting' = posting \cup {p}
    /\ UNCHANGED <<qvars, eql, state, runq, pc, target>>

\* postnote looks at p->state and p->eql; if p waits in an eqlock it takes
\* q->use, looks again and unlinks p.  The unlocked look and the locked one
\* test the same thing, so one step that may come at any time stands for both.
Pullable(p) == state[p] = "Queueing" /\ eql[p]

PostnoteLeave(p) ==
    /\ p \in posting
    /\ ~Pullable(p)
    /\ posting' = posting \ {p}
    /\ UNCHANGED <<qvars, eql, state, runq, notepending, pc, target>>

\* The i-th process met walking the queue from q->head.
Walk == LET w[i \in 1..Cardinality(Procs)] ==
                IF i = 1 THEN head ELSE IF w[i - 1] = Nil THEN Nil ELSE qnext[w[i - 1]]
        IN w
InQueue == {Walk[i] : i \in DOMAIN Walk} \ {Nil}
Before(p) == IF head = p THEN Nil ELSE CHOOSE l \in InQueue : qnext[l] = p

PostnotePull(p) ==
    /\ p \in posting /\ use = Nil
    /\ Pullable(p)
    /\ posting' = posting \ {p}
    /\ IF p \in InQueue
       THEN LET l == Before(p) IN
            /\ head' = IF l = Nil THEN qnext[p] ELSE head
            /\ tail' = IF qnext[p] = Nil THEN l ELSE tail
            /\ qnext' = [x \in Procs |-> CASE x = p -> Nil
                                          [] x = l -> qnext[p]
                                          [] OTHER -> qnext[x]]
            /\ eql' = [eql EXCEPT ![p] = FALSE]
            /\ Ready(p)
       ELSE UNCHANGED <<head, tail, qnext, eql, state, runq>>
    /\ UNCHANGED <<use, locked, notepending, pc, target>>

Step ==
    \E p \in Procs :
        \/ TakeFree(p)
        \/ EqlockNote(p)
        \/ EqlockBegin(p)
        \/ EqlockWait(p)
        \/ QlockWait(p)
        \/ Dispatch(p)
        \/ EqlockReturn(p)
        \/ QlockReturn(p)
        \/ Qunlock(p)
        \/ QunlockReady(p)
        \/ Postnote(p)
        \/ PostnoteLeave(p)
        \/ PostnotePull(p)

Next == Step /\ UNCHANGED user

Spec == Init /\ [][Next]_<<vars, user>>

-----------------------------------------------------------------------------
\* The scheduler runs whatever is ready, code between two blocking points
\* finishes, and whoever owns the lock releases it.  Taking the lock, and
\* posting a note, is the caller's choice.
Goes(p) ==
    \/ EqlockWait(p) \/ Dispatch(p) \/ EqlockReturn(p) \/ QlockReturn(p)
    \/ Qunlock(p) \/ QunlockReady(p)

-----------------------------------------------------------------------------
\* The processes that have been given the lock: the owner, and one taken off
\* the queue by qunlock that has not come out of sched() yet.
Granted(p) ==
    \/ pc[p] = "owner"
    \/ /\ pc[p] \in {"sched", "woken"}
       /\ p \notin InQueue
       /\ user[p] = "eqlock" => eql[p]

\* Exclusive access: a lock that is held has been given to exactly one
\* process, also while a hand-off, or a note that pulls a waiter out of the
\* queue, is under way; a free lock to none.  (eqlock, qlock, qunlock,
\* postnote)
OneOwner ==
    /\ locked => \E p \in Procs : Granted(p) /\ \A r \in Procs : Granted(r) => r = p
    /\ ~locked => \A p \in Procs : ~Granted(p)

\* qunlock's "some other process is waiting for this lock": the process it is
\* about to make ready is waiting, has not been made ready by anyone else, and
\* no second qunlock is about to wake it.
HandoffToWaiter ==
    \A p \in Procs : pc[p] = "readying" =>
        /\ target[p] \in Procs
        /\ state[target[p]] = "Queueing" /\ pc[target[p]] = "sched"
        /\ target[p] \notin runq
        /\ \A r \in Procs \ {p} : target[r] # target[p]

\* Types; and the queue threaded through qnext is well formed and complete: it ends at
\* q->tail, holds waiting processes only, and every process asleep in sched()
\* is on it, or has been given the lock, or was pulled out by a note.
QueueIntact ==
    /\ TypeOK
    /\ head = Nil <=> tail = Nil
    /\ tail # Nil => tail \in InQueue /\ qnext[tail] = Nil
    /\ \A p \in InQueue : pc[p] = "sched" /\ state[p] = "Queueing"
    /\ \A p \in Procs : pc[p] = "sched" /\ state[p] = "Queueing" =>
          p \in InQueue \/ \E r \in Procs : target[r] = p

\* The processes that wait in eqlock or qlock.
Waits(p) == pc[p] \in {"queueing", "sched", "woken"}
=============================================================================
