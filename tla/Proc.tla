-------------------------------- MODULE Proc ---------------------------------
(***************************************************************************)
(* Processes, processors and Rendezes of the native kernel,                *)
(* os/port/proc.c: sleep, wakeup and postnote; ready, runproc, sched and   *)
(* schedinit on several processors.                                        *)
(*                                                                         *)
(* lock(r) and lock(&p->rlock) are held across steps only where another    *)
(* party can get between: sleep and wakeup hold r while they spin for      *)
(* p->rlock, postnote holds p->rlock while it tries r.  Once both are held *)
(* the rest of the critical section is one step, because all that it reads *)
(* and writes is under the two locks, but for the condition and            *)
(* notepending, each of which it reads once.                               *)
(*                                                                         *)
(* Wakers and posters run at interrupt level or in other processes; their  *)
(* own scheduling is not modelled.  A Rendez has one sleeper, as its users *)
(* ensure with a lock of their own.  Which of the ready processes is taken *)
(* (priority, affinity) is left open.                                      *)
(***************************************************************************)
EXTENDS Naturals, FiniteSets

CONSTANTS
    Procs, Cpus, Rendezes, Posters,
    SleeperOf,  \* the process that sleeps on a Rendez
    Nil

ASSUME ProcAssumption ==
    /\ SleeperOf \in [Rendezes -> Procs]
    /\ Nil \notin Procs \cup Cpus \cup Rendezes \cup Posters \cup {"sleep", "wakeup", "panic"}

VARIABLES
    state,        \* p->state
    mach,         \* p->mach: nil once p's context is saved
    runq,         \* processes linked on the run queues
    up, phase,    \* of each processor: its process, and where its scheduler is
    rlock,        \* who holds lock(r): Nil, "sleep" or "wakeup"
    plock,        \* the poster that holds p->rlock, or Nil
    rp, pr,       \* r->p and p->r
    cond,         \* the condition of a Rendez
    wakeups,      \* Rendezes whose condition was set and whose wakeup is to come
    notepending,  \* p->notepending
    pc, arg,      \* where a process is in sleep, and on which Rendez
    npc, whom     \* where a poster is in postnote, and the process it posts to

schedvars == <<mach, runq, up, phase>>
rendvars == <<rp, pr>>
vars == <<state, schedvars, rlock, plock, rendvars, cond, wakeups, notepending, pc, arg, npc, whom>>

TypeOK ==
    /\ state \in [Procs -> {"Running", "Ready", "Scheding", "Wakeme"}]
    /\ mach \in [Procs -> Cpus \cup {Nil}]
    /\ runq \subseteq Procs
    /\ up \in [Cpus -> Procs \cup {Nil}]
    /\ phase \in [Cpus -> {"runproc", "sched", "process", "procswitch", "saved"}]
    /\ \A m \in Cpus : up[m] = Nil <=> phase[m] = "runproc"
    /\ rlock \in [Rendezes -> {Nil, "sleep", "wakeup", "panic"}]
    /\ plock \in [Procs -> Posters \cup {Nil}]
    /\ rp \in [Rendezes -> Procs \cup {Nil}] /\ pr \in [Procs -> Rendezes \cup {Nil}]
    /\ cond \in [Rendezes -> BOOLEAN] /\ wakeups \subseteq Rendezes
    /\ notepending \in [Procs -> BOOLEAN]
    /\ pc \in [Procs -> {"code", "sleep", "committed", "awake"}]
    /\ arg \in [Procs -> Rendezes \cup {Nil}]
    /\ npc \in [Posters -> {"idle", "posted", "locked", "panic"}]
    /\ whom \in [Posters -> Procs \cup {Nil}]

\* The processes have been made and are ready for their first run.
Init ==
    /\ state = [p \in Procs |-> "Ready"] /\ mach = [p \in Procs |-> Nil] /\ runq = Procs
    /\ up = [m \in Cpus |-> Nil] /\ phase = [m \in Cpus |-> "runproc"]
    /\ rlock = [r \in Rendezes |-> Nil] /\ plock = [p \in Procs |-> Nil]
    /\ rp = [r \in Rendezes |-> Nil] /\ pr = [p \in Procs |-> Nil]
    /\ cond = [r \in Rendezes |-> FALSE] /\ wakeups = {}
    /\ notepending = [p \in Procs |-> FALSE]
    /\ pc = [p \in Procs |-> "code"] /\ arg = [p \in Procs |-> Nil]
    /\ npc = [n \in Posters |-> "idle"] /\ whom = [n \in Posters |-> Nil]

Set(f, x, v) == [f EXCEPT ![x] = v]

\* ready and queueproc: a process that is Ready already is left alone.
Ready(p) ==
    IF state[p] = "Ready"
    THEN UNCHANGED <<state, runq>>
    ELSE state' = Set(state, p, "Ready") /\ runq' = runq \cup {p}

-----------------------------------------------------------------------------
Take(m, p, st) ==
    /\ phase[m] = "runproc"
    /\ p \in runq
    /\ runq' = runq \ {p}
    /\ state' = Set(state, p, st)
    /\ up' = Set(up, m, p) /\ phase' = Set(phase, m, "sched")
    /\ UNCHANGED <<mach, rlock, plock, rendvars, cond, wakeups, notepending, pc, arg, npc, whom>>

\* A wrong variant: dequeueproc does not look at p->mach.
RunprocUnsaved(m, p) == Take(m, p, "Scheding")

\* runproc and dequeueproc: take a process whose context is saved.
Runproc(m, p) == mach[p] = Nil /\ Take(m, p, "Scheding")

\* The second half of sched: the process runs where it left off.
Sched(m) ==
    LET p == up[m] IN
    /\ phase[m] = "sched"
    /\ state' = Set(state, p, "Running")
    /\ mach' = Set(mach, p, m)
    /\ phase' = Set(phase, m, "process")
    /\ pc' = Set(pc, p, IF pc[p] = "committed" THEN "awake" ELSE pc[p])
    /\ UNCHANGED <<runq, up, rlock, plock, rendvars, cond, wakeups, notepending, arg, npc, whom>>

\* schedinit, back on the processor's own stack: a process that still runs
\* goes to the back of the run queue.
Schedinit(m) ==
    LET p == up[m] IN
    /\ phase[m] = "procswitch"
    /\ IF state[p] = "Running" THEN Ready(p) ELSE UNCHANGED <<state, runq>>
    /\ phase' = Set(phase, m, "saved")
    /\ UNCHANGED <<mach, up, rlock, plock, rendvars, cond, wakeups, notepending, pc, arg, npc, whom>>

\* up->mach = nil, "the process has saved itself for the next run".
SchedinitSaved(m) ==
    /\ phase[m] = "saved"
    /\ mach' = Set(mach, up[m], Nil)
    /\ up' = Set(up, m, Nil) /\ phase' = Set(phase, m, "runproc")
    /\ UNCHANGED <<state, runq, rlock, plock, rendvars, cond, wakeups, notepending, pc, arg, npc, whom>>

\* The process p runs on processor m.
On(m, p) == phase[m] = "process" /\ up[m] = p

\* sched() of a process that runs: yield, preemption, a delayed sched.
Yield(m, p) ==
    /\ On(m, p) /\ pc[p] = "code"
    /\ phase' = Set(phase, m, "procswitch")
    /\ UNCHANGED <<state, mach, runq, up, rlock, plock, rendvars, cond, wakeups, notepending, pc, arg, npc, whom>>

-----------------------------------------------------------------------------
\* sleep: lock(r), then spin for up->rlock.  splhi keeps the process on its
\* processor until it is through.
SleepLock(m, p, r) ==
    /\ On(m, p) /\ pc[p] = "code" /\ SleeperOf[r] = p
    /\ rlock[r] = Nil
    /\ rlock' = Set(rlock, r, "sleep")
    /\ pc' = Set(pc, p, "sleep") /\ arg' = Set(arg, p, r)
    /\ UNCHANGED <<state, schedvars, plock, rendvars, cond, wakeups, notepending, npc, whom>>

\* "if condition happened or a note is pending never mind".
SleepNot(m, p) ==
    LET r == arg[p] IN
    /\ On(m, p) /\ pc[p] = "sleep" /\ plock[p] = Nil
    /\ notepending[p] \/ cond[r]
    /\ rlock' = Set(rlock, r, Nil)
    /\ pc' = Set(pc, p, "awake")
    /\ UNCHANGED <<state, schedvars, plock, rendvars, cond, wakeups, notepending, arg, npc, whom>>

\* "now we are committed to change state and call scheduler".
SleepCommit(m, p) ==
    LET r == arg[p] IN
    /\ On(m, p) /\ pc[p] = "sleep" /\ plock[p] = Nil
    /\ ~notepending[p] /\ ~cond[r]
    /\ rp' = Set(rp, r, p) /\ pr' = Set(pr, p, r)
    /\ state' = Set(state, p, "Wakeme")
    /\ rlock' = Set(rlock, r, Nil)
    /\ phase' = Set(phase, m, "procswitch")
    /\ pc' = Set(pc, p, "committed")
    /\ UNCHANGED <<mach, runq, up, plock, cond, wakeups, notepending, arg, npc, whom>>

\* The end of sleep: a pending note is taken and the call interrupted();
\* otherwise a caller that finds its condition true consumes it.
SleepReturn(m, p) ==
    /\ On(m, p) /\ pc[p] = "awake"
    /\ notepending' = Set(notepending, p, FALSE)
    /\ cond' = IF notepending[p] THEN cond ELSE Set(cond, arg[p], FALSE)
    /\ pc' = Set(pc, p, "code") /\ arg' = Set(arg, p, Nil)
    /\ UNCHANGED <<state, schedvars, rlock, plock, rendvars, wakeups, npc, whom>>

-----------------------------------------------------------------------------
\* Someone makes the condition of r true and then calls wakeup(r).
SetCond(r) ==
    /\ r \notin wakeups
    /\ cond' = Set(cond, r, TRUE)
    /\ wakeups' = wakeups \cup {r}
    /\ UNCHANGED <<state, schedvars, rlock, plock, rendvars, notepending, pc, arg, npc, whom>>

\* wakeup: lock(r) and look at r->p.
WakeupLock(r) ==
    /\ r \in wakeups /\ rlock[r] = Nil
    /\ IF rp[r] = Nil
       THEN wakeups' = wakeups \ {r} /\ UNCHANGED rlock
       ELSE rlock' = Set(rlock, r, "wakeup") /\ UNCHANGED wakeups
    /\ UNCHANGED <<state, schedvars, plock, rendvars, cond, notepending, pc, arg, npc, whom>>

\* A wrong variant: p->r is left in place.
WakeupReadyKeepsR(r) ==
    LET p == rp[r] IN
    /\ rlock[r] = "wakeup" /\ plock[p] = Nil
    /\ rp' = Set(rp, r, Nil)
    /\ Ready(p)
    /\ rlock' = Set(rlock, r, Nil)
    /\ wakeups' = wakeups \ {r}
    /\ UNCHANGED <<mach, up, phase, plock, pr, cond, notepending, pc, arg, npc, whom>>

\* With p->rlock too: panic("wakeup: state") or make p ready.
WakeupReady(r) ==
    LET p == rp[r] IN
    /\ rlock[r] = "wakeup" /\ plock[p] = Nil
    /\ IF state[p] # "Wakeme" \/ pr[p] # r
       THEN rlock' = Set(rlock, r, "panic") /\ UNCHANGED <<rendvars, state, runq, wakeups>>
       ELSE /\ rp' = Set(rp, r, Nil) /\ pr' = Set(pr, p, Nil)
            /\ Ready(p)
            /\ rlock' = Set(rlock, r, Nil)
            /\ wakeups' = wakeups \ {r}
    /\ UNCHANGED <<mach, up, phase, plock, cond, notepending, pc, arg, npc, whom>>

-----------------------------------------------------------------------------
\* postnote: mark the note.
Postnote(n, p) ==
    /\ npc[n] = "idle"
    /\ notepending' = Set(notepending, p, TRUE)
    /\ npc' = Set(npc, n, "posted") /\ whom' = Set(whom, n, p)
    /\ UNCHANGED <<state, schedvars, rlock, plock, rendvars, cond, wakeups, pc, arg>>

\* lock(&p->rlock): "waiting for a wakeup?"
PostnoteLock(n) ==
    LET p == whom[n] IN
    /\ npc[n] = "posted" /\ plock[p] = Nil
    /\ IF pr[p] = Nil
       THEN npc' = Set(npc, n, "idle") /\ whom' = Set(whom, n, Nil) /\ UNCHANGED plock
       ELSE npc' = Set(npc, n, "locked") /\ plock' = Set(plock, p, n) /\ UNCHANGED whom
    /\ UNCHANGED <<state, schedvars, rlock, rendvars, cond, wakeups, notepending, pc, arg>>

\* "try for the second lock": canlock(r) succeeds.
PostnoteTry(n) ==
    LET p == whom[n] IN
    /\ npc[n] = "locked" /\ rlock[pr[p]] = Nil
    /\ IF state[p] # "Wakeme" \/ rp[pr[p]] # p
       THEN npc' = Set(npc, n, "panic") /\ UNCHANGED <<rendvars, state, runq, plock, whom>>
       ELSE /\ rp' = Set(rp, pr[p], Nil) /\ pr' = Set(pr, p, Nil)
            /\ Ready(p)
            /\ plock' = Set(plock, p, Nil)
            /\ npc' = Set(npc, n, "idle") /\ whom' = Set(whom, n, Nil)
    /\ UNCHANGED <<mach, up, phase, rlock, cond, wakeups, notepending, pc, arg>>

\* A wrong variant: p->rlock is kept while waiting for r.
PostnoteRetryKeeps(n) == FALSE

\* canlock(r) fails: let p->rlock go and try again.
PostnoteRetry(n) ==
    LET p == whom[n] IN
    /\ npc[n] = "locked" /\ rlock[pr[p]] # Nil
    /\ plock' = Set(plock, p, Nil)
    /\ npc' = Set(npc, n, "posted")
    /\ UNCHANGED <<state, schedvars, rlock, rendvars, cond, wakeups, notepending, pc, arg, whom>>

-----------------------------------------------------------------------------
Next ==
    \/ \E m \in Cpus :
          \/ Sched(m) \/ Schedinit(m) \/ SchedinitSaved(m)
          \/ \E p \in Procs :
                \/ Runproc(m, p) \/ Yield(m, p)
                \/ \E r \in Rendezes : SleepLock(m, p, r)
                \/ SleepNot(m, p) \/ SleepCommit(m, p) \/ SleepReturn(m, p)
    \/ \E r \in Rendezes : SetCond(r) \/ WakeupLock(r) \/ WakeupReady(r)
    \/ \E n \in Posters :
          \/ \E p \in Procs : Postnote(n, p)
          \/ PostnoteLock(n) \/ PostnoteTry(n) \/ PostnoteRetry(n)

Spec == Init /\ [][Next]_vars

\* What a processor does of itself: calling sleep, and yielding, is a choice.
Step(m) ==
    \/ Sched(m) \/ Schedinit(m) \/ SchedinitSaved(m)
    \/ \E p \in Procs : SleepNot(m, p) \/ SleepCommit(m, p) \/ SleepReturn(m, p)

\* Every processor runs, and a ready process gets its turn; spin locks are got by
\* those that spin for them, because postnote, the only one to take p->rlock again
\* and again, calls sched() between two tries.  Posting a note is a choice.
FairSpec ==
    /\ Spec
    /\ \A m \in Cpus : SF_vars(Step(m))
    /\ \A p \in Procs : SF_vars(\E m \in Cpus : Runproc(m, p))
    /\ \A r \in Rendezes : SF_vars(WakeupLock(r) \/ WakeupReady(r))
    /\ \A n \in Posters : SF_vars(PostnoteLock(n) \/ PostnoteTry(n) \/ PostnoteRetry(n))

-----------------------------------------------------------------------------
\* A process runs on one processor at a time, and its saved context is not
\* picked up before it is saved, although it is made ready while still on its
\* processor.  (dequeueproc's test of p->mach, schedinit)
OneProcessor ==
    \A m1, m2 \in Cpus : up[m1] # Nil /\ up[m1] = up[m2] => m1 = m2

\* "We hold both locks to ensure that r->p and p->r remain consistent": they
\* name each other, exactly while the process is in Wakeme.  And the run queues hold
\* exactly the processes that are Ready: wakeup and postnote together make a sleeper
\* ready once.  Types.  (sleep, wakeup, postnote, ready, dequeueproc)
RendezConsistent ==
    /\ TypeOK
    /\ \A p \in Procs : p \in runq <=> state[p] = "Ready"
    /\ \A r \in Rendezes, p \in Procs : rp[r] = p <=> pr[p] = r
    /\ \A p \in Procs : pr[p] # Nil <=> state[p] = "Wakeme"

\* wakeup and postnote, racing for the same sleeper, never find it in a state
\* in which they panic.
NoPanic ==
    /\ \A r \in Rendezes : rlock[r] # "panic"
    /\ \A n \in Posters : npc[n] # "panic"

\* Lock ordering: however sleep, wakeup and postnote compete for r and p->rlock, a
\* sleeper whose condition is true or that has a note pending runs again.
SleeperRuns == \A p \in Procs :
    state[p] = "Wakeme" /\ (cond[arg[p]] \/ notepending[p]) ~> pc[p] = "code"
=============================================================================
