----------------------------- MODULE ProcProof -------------------------------
(***************************************************************************)
(* Whatever the number of processes, processors, Rendezes and notes, the   *)
(* native scheduler runs a process on one processor at a time, sleep,      *)
(* wakeup and postnote keep r->p and p->r consistent, and none of them     *)
(* reaches a panic.  The inductive invariant says where the context of a   *)
(* process is, who names whom, and what the holder of a lock relies on.    *)
(***************************************************************************)
EXTENDS Proc, TLAPS

\* A processor and its process agree: mach is set from the moment the process runs
\* until its context is saved, and a process has left its processor's "sched" and
\* "process" as its state says.
CpuOK ==
    /\ OneProcessor
    /\ \A m \in Cpus :
          /\ phase[m] = "sched" => state[up[m]] = "Scheding" /\ mach[up[m]] = Nil
          /\ phase[m] = "process" => state[up[m]] = "Running"
          /\ phase[m] = "procswitch" => state[up[m]] # "Scheding"
          /\ phase[m] = "saved" => state[up[m]] \notin {"Scheding", "Running"}
          /\ phase[m] \in {"process", "procswitch", "saved"} => mach[up[m]] = m
    /\ \A p \in Procs, m \in Cpus : mach[p] = m => up[m] = p
    /\ \A p \in Procs : p \in runq <=> state[p] = "Ready"

\* r->p and p->r name each other, exactly while p is in Wakeme, and r->p can only be
\* the process that sleeps on r.
RendOK ==
    /\ \A r \in Rendezes, p \in Procs : rp[r] = p <=> pr[p] = r
    /\ \A p \in Procs : pr[p] # Nil <=> state[p] = "Wakeme"
    /\ \A r \in Rendezes : rp[r] # Nil => SleeperOf[r] = rp[r]

\* A sleep that is under way has lock(r) of its own Rendez; a wakeup that keeps
\* lock(r) has somebody to wake; a postnote that keeps p->rlock has somebody to pull
\* out.
LockOK ==
    /\ \A p \in Procs : pc[p] = "sleep" =>
          arg[p] \in Rendezes /\ SleeperOf[arg[p]] = p /\ rlock[arg[p]] = "sleep"
    /\ \A r \in Rendezes : rlock[r] = "wakeup" => rp[r] # Nil
    /\ \A n \in Posters :
          /\ npc[n] \in {"posted", "locked"} => whom[n] \in Procs
          /\ npc[n] = "locked" => plock[whom[n]] = n /\ pr[whom[n]] # Nil
    /\ NoPanic

IInv == TypeOK /\ CpuOK /\ RendOK /\ LockOK

\* Before the processes run for the first time.
LEMMA InitIInv == Init => IInv
<1> SUFFICES ASSUME Init PROVE IInv  OBVIOUS
<1>1. TypeOK  BY ProcAssumption DEF Init, TypeOK
<1>2. CpuOK  BY ProcAssumption DEF Init, CpuOK, OneProcessor
<1>3. RendOK  BY ProcAssumption DEF Init, RendOK
<1>4. LockOK  BY ProcAssumption DEF Init, LockOK, NoPanic
<1> QED  BY <1>1, <1>2, <1>3, <1>4 DEF IInv

\* runproc takes a ready process whose context is saved: it is on no processor.
LEMMA RunprocStep == ASSUME NEW m \in Cpus, NEW p \in Procs, IInv, Runproc(m, p) PROVE IInv'
<1>1. TypeOK'  BY ProcAssumption DEF Runproc, Take, Set, schedvars, rendvars, IInv, TypeOK
<1>2. CpuOK'
  BY ProcAssumption, SMTT(30) DEF Runproc, Take, Set, schedvars, rendvars, IInv, TypeOK, CpuOK,
     OneProcessor, RendOK
<1>3. RendOK'
  BY ProcAssumption DEF Runproc, Take, Set, schedvars, rendvars, IInv, TypeOK, CpuOK,
     RendOK, LockOK
<1>4. LockOK'
  BY ProcAssumption DEF Runproc, Take, Set, schedvars, rendvars, IInv, TypeOK, CpuOK,
     RendOK, LockOK, NoPanic
<1> QED  BY <1>1, <1>2, <1>3, <1>4 DEF IInv

\* The process taken begins to run.
LEMMA SchedStep == ASSUME NEW m \in Cpus, IInv, Sched(m) PROVE IInv'
<1>1. TypeOK'  BY ProcAssumption DEF Sched, Set, schedvars, rendvars, IInv, TypeOK
<1>2. CpuOK'
  BY ProcAssumption DEF Sched, Set, schedvars, rendvars, IInv, TypeOK, CpuOK,
     OneProcessor, RendOK
<1>3. RendOK'
  BY ProcAssumption DEF Sched, Set, schedvars, rendvars, IInv, TypeOK, CpuOK, RendOK,
     LockOK
<1>4. LockOK'
  BY ProcAssumption DEF Sched, Set, schedvars, rendvars, IInv, TypeOK, CpuOK, RendOK,
     LockOK, NoPanic
<1> QED  BY <1>1, <1>2, <1>3, <1>4 DEF IInv

\* A process that gave the processor up, still running, becomes ready.
LEMMA SchedinitStep == ASSUME NEW m \in Cpus, IInv, Schedinit(m) PROVE IInv'
<1>1. TypeOK'
  BY ProcAssumption DEF Schedinit, Ready, Set, schedvars, rendvars, IInv, TypeOK
<1>2. CpuOK'
  BY ProcAssumption DEF Schedinit, Ready, Set, schedvars, rendvars, IInv, TypeOK, CpuOK,
     OneProcessor, RendOK
<1>3. RendOK'
  BY ProcAssumption DEF Schedinit, Ready, Set, schedvars, rendvars, IInv, TypeOK, CpuOK,
     RendOK, LockOK
<1>4. LockOK'
  BY ProcAssumption DEF Schedinit, Ready, Set, schedvars, rendvars, IInv, TypeOK, CpuOK,
     RendOK, LockOK, NoPanic
<1> QED  BY <1>1, <1>2, <1>3, <1>4 DEF IInv

\* The context is saved: the process may be taken elsewhere.
LEMMA SchedinitSavedStep == ASSUME NEW m \in Cpus, IInv, SchedinitSaved(m) PROVE IInv'
<1>1. TypeOK'  BY ProcAssumption DEF SchedinitSaved, Set, schedvars, rendvars, IInv, TypeOK
<1>2. CpuOK'
  BY ProcAssumption DEF SchedinitSaved, Set, schedvars, rendvars, IInv, TypeOK, CpuOK,
     OneProcessor, RendOK
<1>3. RendOK'
  BY ProcAssumption DEF SchedinitSaved, Set, schedvars, rendvars, IInv, TypeOK, CpuOK,
     RendOK, LockOK
<1>4. LockOK'
  BY ProcAssumption DEF SchedinitSaved, Set, schedvars, rendvars, IInv, TypeOK, CpuOK,
     RendOK, LockOK, NoPanic
<1> QED  BY <1>1, <1>2, <1>3, <1>4 DEF IInv

\* sched() of a process that runs.
LEMMA YieldStep == ASSUME NEW m \in Cpus, NEW p \in Procs, IInv, Yield(m, p) PROVE IInv'
<1>1. TypeOK'  BY ProcAssumption DEF Yield, On, Set, schedvars, rendvars, IInv, TypeOK
<1>2. CpuOK'
  BY ProcAssumption DEF Yield, On, Set, schedvars, rendvars, IInv, TypeOK, CpuOK,
     OneProcessor, RendOK
<1>3. RendOK'
  BY ProcAssumption DEF Yield, On, Set, schedvars, rendvars, IInv, TypeOK, CpuOK, RendOK,
     LockOK
<1>4. LockOK'
  BY ProcAssumption DEF Yield, On, Set, schedvars, rendvars, IInv, TypeOK, CpuOK, RendOK,
     LockOK, NoPanic
<1> QED  BY <1>1, <1>2, <1>3, <1>4 DEF IInv

\* sleep takes lock(r).
LEMMA SleepLockStep == ASSUME NEW m \in Cpus, NEW p \in Procs, NEW r \in Rendezes, IInv,
   SleepLock(m, p, r) PROVE IInv'
<1>1. TypeOK'  BY ProcAssumption DEF SleepLock, On, Set, schedvars, rendvars, IInv, TypeOK
<1>2. CpuOK'
  BY ProcAssumption DEF SleepLock, On, Set, schedvars, rendvars, IInv, TypeOK, CpuOK,
     OneProcessor, RendOK
<1>3. RendOK'
  BY ProcAssumption DEF SleepLock, On, Set, schedvars, rendvars, IInv, TypeOK, CpuOK,
     RendOK, LockOK
<1>4. LockOK'
  BY ProcAssumption DEF SleepLock, On, Set, schedvars, rendvars, IInv, TypeOK, CpuOK,
     RendOK, LockOK, NoPanic
<1> QED  BY <1>1, <1>2, <1>3, <1>4 DEF IInv

\* sleep finds that it need not sleep.
LEMMA SleepNotStep == ASSUME NEW m \in Cpus, NEW p \in Procs, IInv, SleepNot(m, p) PROVE
   IInv'
<1>1. TypeOK'  BY ProcAssumption, Zenon DEF SleepNot, On, Set, schedvars, rendvars, IInv, TypeOK
<1>2. CpuOK'
  BY ProcAssumption DEF SleepNot, On, Set, schedvars, rendvars, IInv, TypeOK, CpuOK,
     OneProcessor, RendOK
<1>3. RendOK'
  BY ProcAssumption DEF SleepNot, On, Set, schedvars, rendvars, IInv, TypeOK, CpuOK,
     RendOK, LockOK
<1>4. LockOK'
  BY ProcAssumption DEF SleepNot, On, Set, schedvars, rendvars, IInv, TypeOK, CpuOK,
     RendOK, LockOK, NoPanic
<1> QED  BY <1>1, <1>2, <1>3, <1>4 DEF IInv

\* sleep commits: nobody else is named by its Rendez.
LEMMA SleepCommitStep == ASSUME NEW m \in Cpus, NEW p \in Procs, IInv, SleepCommit(m, p)
   PROVE IInv'
<1>1. TypeOK'  BY ProcAssumption, Zenon DEF SleepCommit, On, Set, schedvars, rendvars, IInv, TypeOK
<1>2. CpuOK'
  BY ProcAssumption DEF SleepCommit, On, Set, schedvars, rendvars, IInv, TypeOK, CpuOK,
     OneProcessor, RendOK
<1>3. RendOK'
  BY ProcAssumption DEF SleepCommit, On, Set, schedvars, rendvars, IInv, TypeOK, CpuOK,
     RendOK, LockOK
<1>4. LockOK'
  BY ProcAssumption DEF SleepCommit, On, Set, schedvars, rendvars, IInv, TypeOK, CpuOK,
     RendOK, LockOK, NoPanic
<1> QED  BY <1>1, <1>2, <1>3, <1>4 DEF IInv

\* sleep returns.
LEMMA SleepReturnStep == ASSUME NEW m \in Cpus, NEW p \in Procs, IInv, SleepReturn(m, p)
   PROVE IInv'
<1>1. TypeOK'  BY ProcAssumption, Zenon DEF SleepReturn, On, Set, schedvars, rendvars, IInv, TypeOK
<1>2. CpuOK'
  BY ProcAssumption DEF SleepReturn, On, Set, schedvars, rendvars, IInv, TypeOK, CpuOK,
     OneProcessor, RendOK
<1>3. RendOK'
  BY ProcAssumption DEF SleepReturn, On, Set, schedvars, rendvars, IInv, TypeOK, CpuOK,
     RendOK, LockOK
<1>4. LockOK'
  BY ProcAssumption DEF SleepReturn, On, Set, schedvars, rendvars, IInv, TypeOK, CpuOK,
     RendOK, LockOK, NoPanic
<1> QED  BY <1>1, <1>2, <1>3, <1>4 DEF IInv

\* A condition becomes true.
LEMMA SetCondStep == ASSUME NEW r \in Rendezes, IInv, SetCond(r) PROVE IInv'
<1>1. TypeOK'  BY ProcAssumption DEF SetCond, Set, schedvars, rendvars, IInv, TypeOK
<1>2. CpuOK'
  BY ProcAssumption DEF SetCond, Set, schedvars, rendvars, IInv, TypeOK, CpuOK,
     OneProcessor, RendOK
<1>3. RendOK'
  BY ProcAssumption DEF SetCond, Set, schedvars, rendvars, IInv, TypeOK, CpuOK, RendOK,
     LockOK
<1>4. LockOK'
  BY ProcAssumption DEF SetCond, Set, schedvars, rendvars, IInv, TypeOK, CpuOK, RendOK,
     LockOK, NoPanic
<1> QED  BY <1>1, <1>2, <1>3, <1>4 DEF IInv

\* wakeup takes lock(r) and keeps it if there is a sleeper.
LEMMA WakeupLockStep == ASSUME NEW r \in Rendezes, IInv, WakeupLock(r) PROVE IInv'
<1>1. TypeOK'  BY ProcAssumption DEF WakeupLock, Set, schedvars, rendvars, IInv, TypeOK
<1>2. CpuOK'
  BY ProcAssumption DEF WakeupLock, Set, schedvars, rendvars, IInv, TypeOK, CpuOK,
     OneProcessor, RendOK
<1>3. RendOK'
  BY ProcAssumption DEF WakeupLock, Set, schedvars, rendvars, IInv, TypeOK, CpuOK, RendOK,
     LockOK
<1>4. LockOK'
  BY ProcAssumption DEF WakeupLock, Set, schedvars, rendvars, IInv, TypeOK, CpuOK, RendOK,
     LockOK, NoPanic
<1> QED  BY <1>1, <1>2, <1>3, <1>4 DEF IInv

\* wakeup finds the sleeper as it expects it and makes it ready.
LEMMA WakeupReadyStep == ASSUME NEW r \in Rendezes, IInv, WakeupReady(r) PROVE IInv'
<1>0. rp[r] \in Procs /\ state[rp[r]] = "Wakeme" /\ pr[rp[r]] = r
  BY ProcAssumption DEF WakeupReady, IInv, TypeOK, LockOK, RendOK
<1>1. TypeOK'
  BY <1>0, ProcAssumption, SMTT(30) DEF WakeupReady, Ready, Set, schedvars, rendvars, IInv, TypeOK
<1>2. CpuOK'
  BY ProcAssumption, SMTT(30) DEF WakeupReady, Ready, Set, schedvars, rendvars, IInv, TypeOK, CpuOK,
     OneProcessor, RendOK
<1>3. RendOK'
  <2>1. /\ rp' = [rp EXCEPT ![r] = Nil] /\ pr' = [pr EXCEPT ![rp[r]] = Nil]
        /\ state' = [state EXCEPT ![rp[r]] = "Ready"]
    BY <1>0 DEF WakeupReady, Ready, Set
  <2> QED  BY <1>0, <2>1, ProcAssumption DEF IInv, TypeOK, RendOK
<1>4. LockOK'
  BY ProcAssumption DEF WakeupReady, Ready, Set, schedvars, rendvars, IInv, TypeOK, CpuOK,
     RendOK, LockOK, NoPanic
<1> QED  BY <1>1, <1>2, <1>3, <1>4 DEF IInv

\* A note is posted.
LEMMA PostnoteStep == ASSUME NEW n \in Posters, NEW p \in Procs, IInv, Postnote(n, p)
   PROVE IInv'
<1>1. TypeOK'  BY ProcAssumption DEF Postnote, Set, schedvars, rendvars, IInv, TypeOK
<1>2. CpuOK'
  BY ProcAssumption DEF Postnote, Set, schedvars, rendvars, IInv, TypeOK, CpuOK,
     OneProcessor, RendOK
<1>3. RendOK'
  BY ProcAssumption DEF Postnote, Set, schedvars, rendvars, IInv, TypeOK, CpuOK, RendOK,
     LockOK
<1>4. LockOK'
  BY ProcAssumption DEF Postnote, Set, schedvars, rendvars, IInv, TypeOK, CpuOK, RendOK,
     LockOK, NoPanic
<1> QED  BY <1>1, <1>2, <1>3, <1>4 DEF IInv

\* postnote takes p->rlock and keeps it if p sleeps.
LEMMA PostnoteLockStep == ASSUME NEW n \in Posters, IInv, PostnoteLock(n) PROVE IInv'
<1>1. TypeOK'  BY ProcAssumption DEF PostnoteLock, Set, schedvars, rendvars, IInv, TypeOK
<1>2. CpuOK'
  BY ProcAssumption DEF PostnoteLock, Set, schedvars, rendvars, IInv, TypeOK, CpuOK,
     OneProcessor, RendOK
<1>3. RendOK'
  BY ProcAssumption DEF PostnoteLock, Set, schedvars, rendvars, IInv, TypeOK, CpuOK,
     RendOK, LockOK
<1>4. LockOK'
  BY ProcAssumption DEF PostnoteLock, Set, schedvars, rendvars, IInv, TypeOK, CpuOK,
     RendOK, LockOK, NoPanic
<1> QED  BY <1>1, <1>2, <1>3, <1>4 DEF IInv

\* postnote finds the sleeper as it expects it and makes it ready.
LEMMA PostnoteTryStep == ASSUME NEW n \in Posters, IInv, PostnoteTry(n) PROVE IInv'
<1>0. /\ whom[n] \in Procs /\ state[whom[n]] = "Wakeme"
      /\ pr[whom[n]] \in Rendezes /\ rp[pr[whom[n]]] = whom[n]
  BY ProcAssumption DEF PostnoteTry, IInv, TypeOK, LockOK, RendOK
<1>1. TypeOK'
  BY <1>0, ProcAssumption, SMTT(30) DEF PostnoteTry, Ready, Set, schedvars, rendvars, IInv, TypeOK
<1>2. CpuOK'
  BY ProcAssumption, SMTT(30) DEF PostnoteTry, Ready, Set, schedvars, rendvars, IInv, TypeOK, CpuOK,
     OneProcessor, RendOK
<1>3. RendOK'
  <2>1. /\ rp' = [rp EXCEPT ![pr[whom[n]]] = Nil] /\ pr' = [pr EXCEPT ![whom[n]] = Nil]
        /\ state' = [state EXCEPT ![whom[n]] = "Ready"]
    BY <1>0 DEF PostnoteTry, Ready, Set
  <2> QED  BY <1>0, <2>1, ProcAssumption DEF IInv, TypeOK, RendOK
<1>4. LockOK'
  BY ProcAssumption DEF PostnoteTry, Ready, Set, schedvars, rendvars, IInv, TypeOK, CpuOK,
     RendOK, LockOK, NoPanic
<1> QED  BY <1>1, <1>2, <1>3, <1>4 DEF IInv

\* postnote lets p->rlock go.
LEMMA PostnoteRetryStep == ASSUME NEW n \in Posters, IInv, PostnoteRetry(n) PROVE IInv'
<1>1. TypeOK'  BY ProcAssumption, Zenon DEF PostnoteRetry, Set, schedvars, rendvars, IInv, TypeOK
<1>2. CpuOK'
  BY ProcAssumption DEF PostnoteRetry, Set, schedvars, rendvars, IInv, TypeOK, CpuOK,
     OneProcessor, RendOK
<1>3. RendOK'
  BY ProcAssumption DEF PostnoteRetry, Set, schedvars, rendvars, IInv, TypeOK, CpuOK,
     RendOK, LockOK
<1>4. LockOK'
  BY ProcAssumption DEF PostnoteRetry, Set, schedvars, rendvars, IInv, TypeOK, CpuOK,
     RendOK, LockOK, NoPanic
<1> QED  BY <1>1, <1>2, <1>3, <1>4 DEF IInv

\* The invariant holds in every reachable state.
THEOREM Invariance == Spec => []IInv
<1>1. ASSUME IInv, UNCHANGED vars PROVE IInv'
  BY <1>1 DEF vars, schedvars, rendvars, IInv, TypeOK, CpuOK, OneProcessor, RendOK, LockOK,
     NoPanic
<1>2. ASSUME IInv, Next PROVE IInv'
  BY <1>2, RunprocStep, SchedStep, SchedinitStep, SchedinitSavedStep, YieldStep,
     SleepLockStep, SleepNotStep, SleepCommitStep, SleepReturnStep, SetCondStep,
     WakeupLockStep, WakeupReadyStep, PostnoteStep, PostnoteLockStep, PostnoteTryStep,
     PostnoteRetryStep DEF Next
<1> QED  BY InitIInv, <1>1, <1>2, PTL DEF Spec

\* A process is on at most one processor, although wakeup and schedinit make it ready
\* before its context is saved: dequeueproc's test of p->mach is enough.
THEOREM Exclusive == Spec => []OneProcessor
<1>1. IInv => OneProcessor  BY DEF IInv, CpuOK
<1> QED  BY Invariance, <1>1, PTL

\* r->p and p->r name each other exactly while the process is in Wakeme, and the run
\* queues hold exactly the ready processes, in every order of sleep, wakeup and
\* postnote on any number of Rendezes.
THEOREM Consistent == Spec => []RendezConsistent
<1>1. IInv => RendezConsistent  BY DEF IInv, CpuOK, RendOK, RendezConsistent
<1> QED  BY Invariance, <1>1, PTL

\* The panics of wakeup and postnote are unreachable.
THEOREM PanicFree == Spec => []NoPanic
<1>1. IInv => NoPanic  BY DEF IInv, LockOK
<1> QED  BY Invariance, <1>1, PTL
=============================================================================
