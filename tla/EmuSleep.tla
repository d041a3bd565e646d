------------------------------ MODULE EmuSleep -------------------------------
(***************************************************************************)
(* Sleep, Wakeup and swiproc of the hosted system, emu/port/proc.c, with   *)
(* osenter and osleave around a blocking host call.                        *)
(*                                                                         *)
(* Each process sleeps on a Rendez of its own, for a condition that others *)
(* set before they call Wakeup and that the sleeper clears when it is back.*)
(* Every critical section of p->rlock (with r->l inside it), of r->l and   *)
(* of p->sysio is one action, except that Sleep keeps up->rlock from its   *)
(* test of the condition until it has stored up->r.                        *)
(***************************************************************************)
EXTENDS Naturals, FiniteSets

CONSTANTS
    Procs,    \* processes
    Sleepers, \* those that sleep and make host calls
    Killers,  \* processes that call swiproc
    Nil       \* the nil pointer

ASSUME EmuSleepAssumption == IsFiniteSet(Procs) /\ Nil \notin Procs /\ Sleepers \subseteq Procs

VARIABLES
    rlock,    \* p->rlock is held between two steps
    rp,       \* r->p # nil, for p's Rendez
    r,        \* p->r # nil
    cond,     \* the condition f(arg) of p's Rendez
    waking,   \* processes whose condition is set and whose Wakeup is to come
    killed, swipend, syscall, intwait,  \* the fields of Proc
    sem,      \* the semaphore of osblock and osready
    sig,      \* a host signal (oshostintr) is on its way to p
    pc,       \* where each process is
    intr,     \* what osleave read from swipend
    eintr,    \* p's last Sleep or host call ended with error(Eintr)
    kpc, victim  \* where each killer is, and the process it is after

procvars == <<killed, swipend, syscall, intwait>>
sleepvars == <<rlock, rp, r, cond, waking>>
killvars == <<kpc, victim>>
vars == <<sleepvars, procvars, sem, sig, pc, intr, eintr, killvars>>

PCs == {"run", "committed", "osblock", "woken", "check", "host", "leave", "intwait"}

TypeOK ==
    /\ rlock \in [Procs -> BOOLEAN] /\ rp \in [Procs -> BOOLEAN]
    /\ r \in [Procs -> BOOLEAN] /\ cond \in [Procs -> BOOLEAN]
    /\ waking \subseteq Procs
    /\ killed \in [Procs -> BOOLEAN] /\ swipend \in [Procs -> BOOLEAN]
    /\ syscall \in [Procs -> BOOLEAN] /\ intwait \in [Procs -> BOOLEAN]
    /\ sem \in [Procs -> Nat]
    /\ sig \in [Procs -> BOOLEAN]
    /\ pc \in [Procs -> PCs]
    /\ intr \in [Procs -> BOOLEAN] /\ eintr \in [Procs -> BOOLEAN]
    /\ kpc \in [Killers -> {"idle", "sysio", "hostintr"}]
    /\ victim \in [Killers -> Procs \cup {Nil}]

Init ==
    /\ rlock = [p \in Procs |-> FALSE] /\ rp = rlock /\ r = rlock /\ cond = rlock
    /\ waking = {}
    /\ killed = rlock /\ swipend = rlock /\ syscall = rlock /\ intwait = rlock
    /\ sem = [p \in Procs |-> 0]
    /\ sig = rlock
    /\ pc = [p \in Procs |-> "run"]
    /\ intr = rlock /\ eintr = rlock
    /\ kpc = [k \in Killers |-> "idle"]
    /\ victim = [k \in Killers |-> Nil]

Set(f, p, v) == [f EXCEPT ![p] = v]

-----------------------------------------------------------------------------
\* Sleep: up->killed, or the condition holds, "never mind"; up->rlock is kept.
SleepNot(p) ==
    /\ pc[p] = "run" /\ ~rlock[p]
    /\ killed[p] \/ cond[p]
    /\ rlock' = Set(rlock, p, TRUE)
    /\ pc' = Set(pc, p, "check")
    /\ eintr' = Set(eintr, p, FALSE)
    /\ UNCHANGED <<rp, r, cond, waking, procvars, sem, sig, intr, killvars>>

\* r->p = up; the spin lock of the Rendez is released, up->rlock is kept.
SleepCommit(p) ==
    /\ pc[p] = "run" /\ ~rlock[p]
    /\ ~killed[p] /\ ~cond[p]
    /\ rp' = Set(rp, p, TRUE)
    /\ rlock' = Set(rlock, p, TRUE)
    /\ pc' = Set(pc, p, "committed")
    /\ eintr' = Set(eintr, p, FALSE)
    /\ UNCHANGED <<r, cond, waking, procvars, sem, sig, intr, killvars>>

SleepBlock(p) ==
    /\ pc[p] = "committed"
    /\ swipend' = Set(swipend, p, FALSE)
    /\ r' = Set(r, p, TRUE)
    /\ rlock' = Set(rlock, p, FALSE)
    /\ pc' = Set(pc, p, "osblock")
    /\ UNCHANGED <<rp, cond, waking, killed, syscall, intwait, sem, sig, intr, eintr, killvars>>

SleepUnblock(p) ==
    /\ pc[p] = "osblock" /\ sem[p] > 0
    /\ sem' = [sem EXCEPT ![p] = @ - 1]
    /\ pc' = Set(pc, p, "woken")
    /\ UNCHANGED <<sleepvars, procvars, sig, intr, eintr, killvars>>

SleepRelock(p) ==
    /\ pc[p] = "woken" /\ ~rlock[p]
    /\ rlock' = Set(rlock, p, TRUE)
    /\ r' = Set(r, p, FALSE)
    /\ pc' = Set(pc, p, "check")
    /\ UNCHANGED <<rp, cond, waking, procvars, sem, sig, intr, eintr, killvars>>

\* The end of Sleep; a caller that gets its condition consumes it.
SleepReturn(p) ==
    /\ pc[p] = "check"
    /\ rlock' = Set(rlock, p, FALSE)
    /\ pc' = Set(pc, p, "run")
    /\ IF killed[p] \/ swipend[p]
       THEN /\ killed' = Set(killed, p, FALSE)
            /\ swipend' = Set(swipend, p, FALSE)
            /\ eintr' = Set(eintr, p, TRUE)
            /\ UNCHANGED cond
       ELSE cond' = Set(cond, p, FALSE) /\ UNCHANGED <<killed, swipend, eintr>>
    /\ UNCHANGED <<rp, r, waking, syscall, intwait, sem, sig, intr, killvars>>

\* Someone makes the condition true and later calls Wakeup.
SetCond(p) ==
    /\ p \notin waking
    /\ cond' = Set(cond, p, TRUE)
    /\ waking' = waking \cup {p}
    /\ UNCHANGED <<rlock, rp, r, procvars, sem, sig, pc, intr, eintr, killvars>>

\* Wrong variants: r->p is left in place; the process is not made ready.
WakeupLeavesP(p) ==
    /\ p \in waking
    /\ waking' = waking \ {p}
    /\ sem' = IF rp[p] THEN [sem EXCEPT ![p] = @ + 1] ELSE sem
    /\ UNCHANGED <<rlock, rp, r, cond, procvars, sig, pc, intr, eintr, killvars>>
WakeupNotReady(p) ==
    /\ p \in waking
    /\ waking' = waking \ {p}
    /\ rp' = Set(rp, p, FALSE)
    /\ UNCHANGED <<rlock, r, cond, procvars, sem, sig, pc, intr, eintr, killvars>>

Wakeup(p) ==
    /\ p \in waking
    /\ waking' = waking \ {p}
    /\ rp' = Set(rp, p, FALSE)
    /\ sem' = IF rp[p] THEN [sem EXCEPT ![p] = @ + 1] ELSE sem
    /\ UNCHANGED <<rlock, r, cond, procvars, sig, pc, intr, eintr, killvars>>

-----------------------------------------------------------------------------
\* osenter, the host call, and osleave.
Osenter(p) ==
    /\ pc[p] = "run"
    /\ syscall' = Set(syscall, p, TRUE)
    /\ eintr' = Set(eintr, p, FALSE)
    /\ pc' = Set(pc, p, "host")
    /\ UNCHANGED <<sleepvars, killed, swipend, intwait, sem, sig, intr, killvars>>

OsleaveRead(p) ==
    /\ pc[p] = "host" /\ ~rlock[p]
    /\ intr' = Set(intr, p, swipend[p])
    /\ swipend' = Set(swipend, p, FALSE)
    /\ pc' = Set(pc, p, "leave")
    /\ UNCHANGED <<sleepvars, killed, syscall, intwait, sem, sig, eintr, killvars>>

OsleaveSysio(p) ==
    /\ pc[p] = "leave"
    /\ syscall' = Set(syscall, p, FALSE)
    /\ pc' = Set(pc, p, "intwait")
    /\ UNCHANGED <<sleepvars, killed, swipend, intwait, sem, sig, intr, eintr, killvars>>

\* while(up->intwait) osyield(), then error(Eintr) if swipend was set.
OsleaveReturn(p) ==
    /\ pc[p] = "intwait" /\ ~intwait[p]
    /\ eintr' = Set(eintr, p, intr[p])
    /\ pc' = Set(pc, p, "run")
    /\ UNCHANGED <<sleepvars, procvars, sem, sig, intr, killvars>>

\* The signal handler of the host clears intwait.
Signal(p) ==
    /\ sig[p]
    /\ sig' = Set(sig, p, FALSE)
    /\ intwait' = Set(intwait, p, FALSE)
    /\ UNCHANGED <<sleepvars, killed, swipend, syscall, sem, pc, intr, eintr, killvars>>

\* notkilled.
Notkilled(p) ==
    /\ pc[p] = "run" /\ ~rlock[p]
    /\ killed' = Set(killed, p, FALSE)
    /\ UNCHANGED <<sleepvars, swipend, syscall, intwait, sem, sig, pc, intr, eintr, killvars>>

-----------------------------------------------------------------------------
\* swiproc(p, i): the critical section of p->rlock pulls p out of Sleep, or
\* finds that it is not in one.
Swiproc(k, p, i) ==
    /\ kpc[k] = "idle" /\ ~rlock[p]
    /\ killed' = IF i THEN killed ELSE Set(killed, p, TRUE)
    /\ IF r[p] /\ rp[p]
       THEN /\ swipend' = Set(swipend, p, TRUE)
            /\ rp' = Set(rp, p, FALSE)
            /\ sem' = [sem EXCEPT ![p] = @ + 1]
       ELSE UNCHANGED <<swipend, rp, sem>>
    /\ IF r[p]
       THEN UNCHANGED killvars
       ELSE kpc' = Set(kpc, k, "sysio") /\ victim' = Set(victim, k, p)
    /\ UNCHANGED <<rlock, r, cond, waking, syscall, intwait, sig, pc, intr, eintr>>

\* "Maybe pull out of Host OS".
SwiprocSysio(k) ==
    LET p == victim[k] IN
    /\ kpc[k] = "sysio"
    /\ IF syscall[p] /\ ~intwait[p]
       THEN /\ swipend' = Set(swipend, p, TRUE)
            /\ intwait' = Set(intwait, p, TRUE)
            /\ kpc' = Set(kpc, k, "hostintr")
            /\ UNCHANGED victim
       ELSE /\ kpc' = Set(kpc, k, "idle")
            /\ victim' = Set(victim, k, Nil)
            /\ UNCHANGED <<swipend, intwait>>
    /\ UNCHANGED <<sleepvars, killed, syscall, sem, sig, pc, intr, eintr>>

\* A wrong variant: only a process that is still in its host call is signalled.
SwiprocHostintrLate(k) ==
    /\ kpc[k] = "hostintr"
    /\ sig' = Set(sig, victim[k], syscall[victim[k]])
    /\ kpc' = Set(kpc, k, "idle")
    /\ victim' = Set(victim, k, Nil)
    /\ UNCHANGED <<sleepvars, procvars, sem, pc, intr, eintr>>

\* oshostintr: the host is asked to signal p.  (It tests os->self, which tramp sets before p
\* can sleep or call the host.)
SwiprocHostintr(k) ==
    /\ kpc[k] = "hostintr"
    /\ sig' = Set(sig, victim[k], TRUE)
    /\ kpc' = Set(kpc, k, "idle")
    /\ victim' = Set(victim, k, Nil)
    /\ UNCHANGED <<sleepvars, procvars, sem, pc, intr, eintr>>

-----------------------------------------------------------------------------
\* The steps that a process or a killer, once begun, goes on to take.
Sleeping(p) ==
    SleepBlock(p) \/ SleepUnblock(p) \/ SleepRelock(p) \/ SleepReturn(p)
Leaving(p) == OsleaveRead(p) \/ OsleaveSysio(p) \/ OsleaveReturn(p)
Killing(k) == SwiprocSysio(k) \/ SwiprocHostintr(k)

Next ==
    \/ \E p \in Sleepers :
          \/ SleepNot(p) \/ SleepCommit(p) \/ Sleeping(p)
          \/ SetCond(p) \/ Wakeup(p)
          \/ Osenter(p) \/ Leaving(p) \/ Signal(p) \/ Notkilled(p)
    \/ \E k \in Killers :
          \/ \E p \in Sleepers, i \in BOOLEAN : Swiproc(k, p, i)
          \/ Killing(k)

Spec == Init /\ [][Next]_vars

-----------------------------------------------------------------------------
\* osleave spins on intwait only while a signal that will clear it is on its
\* way, and the handler never meets a clear intwait (trapUSR1's "Should never
\* happen"), however several swiproc calls and osleave interleave.
IntwaitHasSignal ==
    \A p \in Procs : intwait[p] <=>
        sig[p] \/ \E k \in Killers : kpc[k] = "hostintr" /\ victim[k] = p

\* A sleeping process that is woken or killed runs again, and a process that
\* leaves a host call gets out of osleave.
SleeperReturns ==
    \A p \in Sleepers :
        /\ pc[p] = "osblock" /\ (cond[p] \/ killed[p]) ~> pc[p] = "run"
        /\ pc[p] = "leave" ~> pc[p] = "run"
=============================================================================
