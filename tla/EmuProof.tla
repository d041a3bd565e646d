------------------------------ MODULE EmuProof -------------------------------
(***************************************************************************)
(* The hosted kernel's processes, whatever their number: the RWlock built  *)
(* from QLocks is exclusive for writers, each osblock is matched by one    *)
(* osready over both uses of a process's semaphore, and osleave waits only *)
(* for a signal that is on its way.  The steps of the RWlock are those of  *)
(* EmuRWLockProof; the sleep side is here.                                 *)
(***************************************************************************)
EXTENDS Emu, TLAPS

\* The Rendez of a process names it from the commitment to sleep until a token has been
\* given to it, and the token is there until osblock takes it.
SleepOK == \A p \in Procs :
    /\ r[p] <=> pc[p] \in {"osblock", "woken"}
    /\ rp[p] => pc[p] \in {"committed", "osblock"} /\ sem[p] = 0
    /\ pc[p] \in {"committed", "osblock"} => rp[p] \/ sem[p] = 1
    /\ pc[p] \notin {"run", "committed", "osblock"} => sem[p] = 0

\* One swiproc at a time is about to signal a process, and none while a signal is on
\* its way to it.
IntrOK ==
    /\ IntwaitHasSignal
    /\ \A k \in Killers :
          /\ kpc[k] # "idle" => victim[k] \in Procs
          /\ kpc[k] = "hostintr" => ~sig[victim[k]]
          /\ \A j \in Killers : /\ kpc[k] = "hostintr" /\ kpc[j] = "hostintr"
                                /\ victim[k] = victim[j]
                                => j = k

SleepInv == TypeOK /\ SleepOK /\ IntrOK

\* Who leaves run has no token; who comes back to it has none; and nobody's token
\* changes while it runs.
Begins == \A q \in Procs : pc[q] = "run" /\ pc'[q] # "run" => sem[q] = 0
Tokens == \A q \in Procs : /\ pc[q] = "run" => sem'[q] = sem[q]
                           /\ pc[q] # "run" /\ pc'[q] = "run" => sem'[q] = 0

-----------------------------------------------------------------------------
\* The initial states.
LEMMA InitSleeps == Init => SleepInv
  BY DEF Init, SleepInv, TypeOK, PCs, SleepOK, IntrOK, IntwaitHasSignal

\* A step that moves processes outside of a wait only.
Away == {"run", "check", "host", "leave", "intwait"}
LEMMA Moves ==
    ASSUME SleepInv, UNCHANGED <<r, rp, sem>>, Begins,
           \A q \in Procs : pc'[q] # pc[q] => pc[q] \in Away /\ pc'[q] \in Away
    PROVE  SleepOK' /\ Tokens
  BY DEF SleepInv, SleepOK, Begins, Tokens, Away

\* A step that has nothing to do with host signals.
LEMMA NoSignal == ASSUME SleepInv, UNCHANGED <<intwait, sig, kpc, victim>> PROVE IntrOK'
  BY DEF SleepInv, IntrOK, IntwaitHasSignal

\* Sleep finds its condition true, or that it is killed.
LEMMA SleepNotKeeps ==
    ASSUME SleepInv, NEW p \in Procs, SleepNot(p), Begins
    PROVE  SleepInv' /\ Tokens
<1> USE DEF SleepInv, SleepNot, Set, sleepvars, procvars, killvars
<1>1. TypeOK'  BY DEF TypeOK, PCs
<1>2. SleepOK' /\ Tokens  BY Moves DEF TypeOK, Away
<1>3. IntrOK'  BY NoSignal
<1> QED  BY <1>1, <1>2, <1>3

\* Sleep stores r->p: the process has no token left over from an earlier wait.
LEMMA SleepCommitKeeps ==
    ASSUME SleepInv, NEW p \in Procs, SleepCommit(p), Begins
    PROVE  SleepInv' /\ Tokens
<1> USE DEF SleepInv, SleepCommit, Set, sleepvars, procvars, killvars
<1>1. TypeOK'  BY DEF TypeOK, PCs
<1>2. SleepOK' /\ Tokens  BY DEF TypeOK, SleepOK, Begins, Tokens
<1>3. IntrOK'  BY NoSignal
<1> QED  BY <1>1, <1>2, <1>3

\* Sleep releases up->rlock and blocks.
LEMMA SleepBlockKeeps ==
    ASSUME SleepInv, NEW p \in Procs, SleepBlock(p), Begins
    PROVE  SleepInv' /\ Tokens
<1> USE DEF SleepInv, SleepBlock, Set, sleepvars, procvars, killvars
<1>1. TypeOK'  BY DEF TypeOK, PCs
<1>2. SleepOK' /\ Tokens  BY DEF TypeOK, SleepOK, Begins, Tokens
<1>3. IntrOK'  BY NoSignal
<1> QED  BY <1>1, <1>2, <1>3

\* osblock in Sleep returns.
LEMMA SleepUnblockKeeps ==
    ASSUME SleepInv, NEW p \in Procs, SleepUnblock(p), Begins
    PROVE  SleepInv' /\ Tokens
<1> USE DEF SleepInv, SleepUnblock, Set, sleepvars, procvars, killvars
<1>1. TypeOK'  BY DEF TypeOK, PCs
<1>2. SleepOK' /\ Tokens  BY DEF TypeOK, SleepOK, Begins, Tokens
<1>3. IntrOK'  BY NoSignal
<1> QED  BY <1>1, <1>2, <1>3

\* Sleep clears up->r.
LEMMA SleepRelockKeeps ==
    ASSUME SleepInv, NEW p \in Procs, SleepRelock(p), Begins
    PROVE  SleepInv' /\ Tokens
<1> USE DEF SleepInv, SleepRelock, Set, sleepvars, procvars, killvars
<1>1. TypeOK'  BY DEF TypeOK, PCs
<1>2. SleepOK' /\ Tokens  BY DEF TypeOK, SleepOK, Begins, Tokens
<1>3. IntrOK'  BY NoSignal
<1> QED  BY <1>1, <1>2, <1>3

\* Sleep returns.
LEMMA SleepReturnKeeps ==
    ASSUME SleepInv, NEW p \in Procs, SleepReturn(p), Begins
    PROVE  SleepInv' /\ Tokens
<1> USE DEF SleepInv, SleepReturn, Set, sleepvars, procvars, killvars
<1>1. TypeOK'  BY DEF TypeOK, PCs
<1>2. SleepOK' /\ Tokens  BY Moves DEF TypeOK, Away
<1>3. IntrOK'  BY NoSignal
<1> QED  BY <1>1, <1>2, <1>3

\* A condition becomes true.
LEMMA SetCondKeeps ==
    ASSUME SleepInv, NEW p \in Procs, SetCond(p), Begins
    PROVE  SleepInv' /\ Tokens
<1> USE DEF SleepInv, SetCond, Set, sleepvars, procvars, killvars
<1>1. TypeOK'  BY DEF TypeOK, PCs
<1>2. SleepOK' /\ Tokens  BY Moves DEF TypeOK, Away
<1>3. IntrOK'  BY NoSignal
<1> QED  BY <1>1, <1>2, <1>3

\* Wakeup gives a token to the process its Rendez names.
LEMMA WakeupKeeps ==
    ASSUME SleepInv, NEW p \in Procs, Wakeup(p), Begins
    PROVE  SleepInv' /\ Tokens
<1> USE DEF SleepInv, Wakeup, Set, sleepvars, procvars, killvars
<1>1. TypeOK'  BY DEF TypeOK, PCs
<1>2. SleepOK' /\ Tokens  BY DEF TypeOK, SleepOK, Begins, Tokens
<1>3. IntrOK'  BY NoSignal
<1> QED  BY <1>1, <1>2, <1>3

\* osenter.
LEMMA OsenterKeeps ==
    ASSUME SleepInv, NEW p \in Procs, Osenter(p), Begins
    PROVE  SleepInv' /\ Tokens
<1> USE DEF SleepInv, Osenter, Set, sleepvars, procvars, killvars
<1>1. TypeOK'  BY DEF TypeOK, PCs
<1>2. SleepOK' /\ Tokens  BY Moves DEF TypeOK, Away
<1>3. IntrOK'  BY NoSignal
<1> QED  BY <1>1, <1>2, <1>3

\* osleave's critical section of up->rlock.
LEMMA OsleaveReadKeeps ==
    ASSUME SleepInv, NEW p \in Procs, OsleaveRead(p), Begins
    PROVE  SleepInv' /\ Tokens
<1> USE DEF SleepInv, OsleaveRead, Set, sleepvars, procvars, killvars
<1>1. TypeOK'  BY DEF TypeOK, PCs
<1>2. SleepOK' /\ Tokens  BY Moves DEF TypeOK, Away
<1>3. IntrOK'  BY NoSignal
<1> QED  BY <1>1, <1>2, <1>3

\* osleave's critical section of up->sysio.
LEMMA OsleaveSysioKeeps ==
    ASSUME SleepInv, NEW p \in Procs, OsleaveSysio(p), Begins
    PROVE  SleepInv' /\ Tokens
<1> USE DEF SleepInv, OsleaveSysio, Set, sleepvars, procvars, killvars
<1>1. TypeOK'  BY DEF TypeOK, PCs
<1>2. SleepOK' /\ Tokens  BY Moves DEF TypeOK, Away
<1>3. IntrOK'  BY NoSignal
<1> QED  BY <1>1, <1>2, <1>3

\* osleave returns.
LEMMA OsleaveReturnKeeps ==
    ASSUME SleepInv, NEW p \in Procs, OsleaveReturn(p), Begins
    PROVE  SleepInv' /\ Tokens
<1> USE DEF SleepInv, OsleaveReturn, Set, sleepvars, procvars, killvars
<1>1. TypeOK'  BY DEF TypeOK, PCs
<1>2. SleepOK' /\ Tokens  BY Moves DEF TypeOK, Away
<1>3. IntrOK'  BY NoSignal
<1> QED  BY <1>1, <1>2, <1>3

\* The handler of the host's signal clears intwait.
LEMMA SignalKeeps ==
    ASSUME SleepInv, NEW p \in Procs, Signal(p), Begins
    PROVE  SleepInv' /\ Tokens
<1> USE DEF SleepInv, Signal, Set, sleepvars, procvars, killvars
<1>1. TypeOK'  BY DEF TypeOK, PCs
<1>2. SleepOK' /\ Tokens  BY Moves DEF TypeOK, Away
<1>3. IntrOK'  BY DEF TypeOK, IntrOK, IntwaitHasSignal
<1> QED  BY <1>1, <1>2, <1>3

\* notkilled.
LEMMA NotkilledKeeps ==
    ASSUME SleepInv, NEW p \in Procs, Notkilled(p), Begins
    PROVE  SleepInv' /\ Tokens
<1> USE DEF SleepInv, Notkilled, Set, sleepvars, procvars, killvars
<1>1. TypeOK'  BY DEF TypeOK, PCs
<1>2. SleepOK' /\ Tokens  BY Moves DEF TypeOK, Away
<1>3. IntrOK'  BY NoSignal
<1> QED  BY <1>1, <1>2, <1>3

\* swiproc pulls a process out of Sleep, with a token for it.
LEMMA SwiprocKeeps ==
    ASSUME SleepInv, NEW k \in Killers, NEW p \in Procs, NEW i \in BOOLEAN,
           Swiproc(k, p, i), Begins
    PROVE  SleepInv' /\ Tokens
<1> USE DEF SleepInv, Swiproc, Set, sleepvars, procvars, killvars
<1>1. TypeOK'
  <2>1. killed' \in [Procs -> BOOLEAN] /\ swipend' \in [Procs -> BOOLEAN]  BY DEF TypeOK
  <2>2. rp' \in [Procs -> BOOLEAN] /\ sem' \in [Procs -> Nat]
    <3>1. CASE r[p] /\ rp[p]
      <4>1. rp' = [rp EXCEPT ![p] = FALSE] /\ rp \in [Procs -> BOOLEAN]  BY <3>1 DEF TypeOK
      <4>2. sem' = [sem EXCEPT ![p] = sem[p] + 1] /\ sem \in [Procs -> Nat]
        BY <3>1 DEF TypeOK
      <4> HIDE DEF Swiproc
      <4> QED  BY <4>1, <4>2
    <3>2. CASE ~(r[p] /\ rp[p])  BY <3>2 DEF TypeOK
    <3> QED  BY <3>1, <3>2
  <2>3. /\ kpc' \in [Killers -> {"idle", "sysio", "hostintr"}]
        /\ victim' \in [Killers -> Procs \cup {Nil}]
    BY DEF TypeOK
  <2> QED  BY <2>1, <2>2, <2>3 DEF TypeOK
<1>2. SleepOK' /\ Tokens  BY DEF TypeOK, SleepOK, Tokens
<1>3. IntrOK'  BY DEF TypeOK, IntrOK, IntwaitHasSignal
<1> QED  BY <1>1, <1>2, <1>3

\* swiproc finds a process in a host call that nobody is about to interrupt.
LEMMA SwiprocSysioKeeps ==
    ASSUME SleepInv, NEW k \in Killers, SwiprocSysio(k), Begins
    PROVE  SleepInv' /\ Tokens
<1> USE DEF SleepInv, SwiprocSysio, Set, sleepvars, procvars, killvars
<1>0. victim[k] \in Procs  BY DEF IntrOK
<1>1. TypeOK'
  <2>1. swipend' \in [Procs -> BOOLEAN] /\ intwait' \in [Procs -> BOOLEAN]  BY <1>0 DEF TypeOK
  <2>2. /\ kpc' \in [Killers -> {"idle", "sysio", "hostintr"}]
        /\ victim' \in [Killers -> Procs \cup {Nil}]
    BY DEF TypeOK
  <2> QED  BY <2>1, <2>2 DEF TypeOK
<1>2. SleepOK' /\ Tokens  BY Moves
<1>3. IntrOK'  BY <1>0, EmuSleepAssumption DEF TypeOK, IntrOK, IntwaitHasSignal
<1> QED  BY <1>1, <1>2, <1>3

\* swiproc asks the host for the signal.
LEMMA SwiprocHostintrKeeps ==
    ASSUME SleepInv, NEW k \in Killers, SwiprocHostintr(k), Begins
    PROVE  SleepInv' /\ Tokens
<1> USE DEF SleepInv, SwiprocHostintr, Set, sleepvars, procvars, killvars
<1>0. victim[k] \in Procs  BY DEF IntrOK
<1>1. TypeOK'  BY <1>0 DEF TypeOK, PCs
<1>2. SleepOK' /\ Tokens  BY Moves
<1>3. IntrOK'  BY <1>0, EmuSleepAssumption DEF TypeOK, IntrOK, IntwaitHasSignal
<1> QED  BY <1>1, <1>2, <1>3

-----------------------------------------------------------------------------
\* Every step of Sleep, Wakeup, swiproc and the host calls.
LEMMA SleepStepKeeps == ASSUME SleepInv, Next, Begins PROVE SleepInv' /\ Tokens
<1>1. CASE \E p \in Sleepers : SleepNot(p) \/ SleepCommit(p) \/ Sleeping(p)
  BY <1>1, EmuSleepAssumption, SleepNotKeeps, SleepCommitKeeps, SleepBlockKeeps,
     SleepUnblockKeeps, SleepRelockKeeps, SleepReturnKeeps DEF Sleeping
<1>2. CASE \E p \in Sleepers : SetCond(p) \/ Wakeup(p)
  BY <1>2, EmuSleepAssumption, SetCondKeeps, WakeupKeeps
<1>3. CASE \E p \in Sleepers : Osenter(p) \/ Leaving(p) \/ Signal(p) \/ Notkilled(p)
  BY <1>3, EmuSleepAssumption, OsenterKeeps, OsleaveReadKeeps, OsleaveSysioKeeps,
     OsleaveReturnKeeps, SignalKeeps, NotkilledKeeps DEF Leaving
<1>4. CASE \E k \in Killers :
              (\E p \in Sleepers, i \in BOOLEAN : Swiproc(k, p, i)) \/ Killing(k)
  BY <1>4, EmuSleepAssumption, SwiprocKeeps, SwiprocSysioKeeps, SwiprocHostintrKeeps
     DEF Killing
<1> QED  BY <1>1, <1>2, <1>3, <1>4 DEF Next

\* Steps of other code, which may use the semaphores of processes that run.
LEMMA SleepersKept ==
    ASSUME SleepInv, UNCHANGED <<sleepvars, procvars, sig, pc, intr, eintr, killvars>>,
           sem' \in [Procs -> Nat], \A q \in Procs : pc[q] # "run" => sem'[q] = sem[q]
    PROVE  SleepInv'
<1> USE DEF SleepInv, sleepvars, procvars, killvars
<1>1. TypeOK'  BY DEF TypeOK
<1>2. SleepOK'  BY DEF SleepOK
<1>3. IntrOK'  BY NoSignal
<1> QED  BY <1>1, <1>2, <1>3

-----------------------------------------------------------------------------
INSTANCE FiniteSetTheorems
P == INSTANCE EmuRWLockProof WITH pc <- lpc

\* A process sleeps only while it is idle in the lock, and has no token when it neither
\* sleeps nor takes the lock.
ApartOK == \A p \in Procs :
    /\ pc[p] # "run" => lpc[p] = "idle"
    /\ pc[p] = "run" /\ lpc[p] = "idle" => sem[p] = 0

\* l->readers counts the readers.
Readers == {p \in Procs : P!Reads(p)}
CountOK == readers = Cardinality(Readers)

IInv == SleepInv /\ P!LockInv /\ ApartOK /\ CountOK

-----------------------------------------------------------------------------
\* The lock of Emu is the one of EmuRWLockProof.
LEMMA SameLock ==
    /\ L!Init <=> P!Init
    /\ \A p \in Procs : L!Enter(p) <=> P!Enter(p)
    /\ \A p \in Procs : L!Go(p) <=> P!Go(p)
<1>1. L!Init <=> P!Init  BY Zenon DEF L!Init, P!Init
<1>2. \A p : L!Enter(p) <=> P!Enter(p)
  BY DEF L!Enter, P!Enter, L!RlockX, P!RlockX, L!CanrlockX, P!CanrlockX, L!WlockX,
         P!WlockX, L!QlockX, P!QlockX, L!Goto, P!Goto, L!kvars, P!kvars, L!xvars,
         P!xvars
<1>3. \A p : L!Go(p) <=> P!Go(p)
  BY DEF L!Go, P!Go, L!RlockCount, P!RlockCount, L!RlockRelease, P!RlockRelease,
         L!Runlock, P!Runlock, L!RunlockUse, P!RunlockUse, L!RunlockK, P!RunlockK,
         L!RunlockEnd, P!RunlockEnd, L!WlockUse, P!WlockUse, L!WlockK, P!WlockK,
         L!WunlockUse, P!WunlockUse, L!WunlockK, P!WunlockK, L!WunlockX, P!WunlockX,
         L!Osblock, P!Osblock, L!Osready, P!Osready, L!QunlockX, P!QunlockX, L!QunlockK,
         P!QunlockK, L!LockKuse, P!LockKuse, L!Goto, P!Goto, L!kvars, P!kvars, L!xvars,
         P!xvars, L!Canqlock, P!Canqlock, L!Blocked, P!Blocked, L!Readying, P!Readying
<1> QED  BY <1>1, <1>2, <1>3

\* Every step of Sleep, Wakeup, swiproc and the host calls.
LEMMA SleepKeeps == IInv /\ SleepStep => IInv'
<1> SUFFICES ASSUME IInv, SleepStep PROVE IInv'  OBVIOUS
<1>1. Next /\ UNCHANGED <<xlocked, xq, kuse, klocked, kq, l, readers, target, lpc>>
  BY DEF SleepStep, lockvars
<1>2. \A q \in Procs : pc[q] = "run" /\ pc'[q] # "run" => lpc[q] = "idle"  BY DEF SleepStep
<1>3. Begins  BY <1>2 DEF Begins, IInv, ApartOK
<1>4. SleepInv' /\ Tokens  BY <1>1, <1>3, SleepStepKeeps DEF IInv
<1>5. P!LockInv'
  <2>1. sem' \in [Procs -> Nat]  BY <1>4 DEF SleepInv, TypeOK
  <2>2. \A q \in Procs : lpc[q] # "idle" => sem'[q] = sem[q]
    BY <1>4 DEF Tokens, IInv, ApartOK
  <2> QED  BY <1>1, <2>1, <2>2, EmuSleepAssumption, P!OthersKeep DEF IInv
<1>6. ApartOK'  BY <1>1, <1>2, <1>4 DEF IInv, ApartOK, Tokens
<1>7. CountOK'  BY <1>1 DEF IInv, CountOK, Readers, P!Reads
<1> QED  BY <1>4, <1>5, <1>6, <1>7 DEF IInv

\* A reader counts.
LEMMA ReaderCounts == ASSUME IInv, NEW q \in Procs, P!Reads(q) PROVE readers > 0
<1>1. q \in Readers /\ IsFiniteSet(Readers)
  BY EmuSleepAssumption, FS_Subset DEF Readers
<1>2. Cardinality(Readers) # 0 /\ Cardinality(Readers) \in Nat
  BY <1>1, FS_EmptySet, FS_CardinalityType
<1> QED  BY <1>2 DEF IInv, CountOK

\* Every step of the lock.
LEMMA LockStepKeeps ==
    ASSUME IInv, NEW p \in Procs, pc[p] = "run", L!Enter(p) \/ L!Go(p), UNCHANGED sleepside
    PROVE  IInv'
<1>1. P!Enter(p) \/ P!Go(p)  BY SameLock
<1>2. lpc[p] = "reading" => readers > 0  BY ReaderCounts DEF P!Reads
<1>3. lpc[p] = "idle" => sem[p] = 0  BY DEF IInv, ApartOK
<1>4. P!LockInv'  BY <1>1, <1>2, <1>3, EmuSleepAssumption, P!StepKeeps DEF IInv
<1>5. /\ \A q \in Procs : /\ q # p => lpc'[q] = lpc[q]
                          /\ lpc[q] = "idle" => sem'[q] = sem[q]
      /\ lpc'[p] = "idle" => sem'[p] = 0
      /\ \/ readers' = readers /\ (P!Reads(p)' <=> P!Reads(p))
         \/ readers' = readers + 1 /\ ~P!Reads(p) /\ P!Reads(p)'
         \/ readers' = readers - 1 /\ P!Reads(p) /\ ~P!Reads(p)'
  BY <1>1, EmuSleepAssumption, P!StepFrame DEF IInv
<1>6. SleepInv'
  <2>1. sem' \in [Procs -> Nat]  BY <1>4 DEF P!LockInv, P!TypeOK
  <2>2. \A q \in Procs : pc[q] # "run" => sem'[q] = sem[q]  BY <1>5 DEF IInv, ApartOK
  <2> QED  BY <2>1, <2>2, SleepersKept DEF IInv, sleepside
<1>7. ApartOK'
  <2>1. pc' = pc  BY DEF sleepside
  <2> QED  BY <1>5, <2>1 DEF IInv, ApartOK
<1>8. CountOK'
  <2>1. IsFiniteSet(Readers)  BY EmuSleepAssumption, FS_Subset DEF Readers
  <2>2. \A q \in Procs : q # p => (P!Reads(q)' <=> P!Reads(q))  BY <1>5 DEF P!Reads
  <2>3. CASE readers' = readers /\ (P!Reads(p)' <=> P!Reads(p))
    <3>1. Readers' = Readers  BY <2>2, <2>3 DEF Readers
    <3> QED  BY <2>3, <3>1 DEF IInv, CountOK
  <2>4. CASE readers' = readers + 1 /\ ~P!Reads(p) /\ P!Reads(p)'
    <3>1. Readers' = Readers \cup {p} /\ p \notin Readers  BY <2>2, <2>4 DEF Readers
    <3> QED  BY <2>1, <2>4, <3>1, FS_AddElement DEF IInv, CountOK
  <2>5. CASE readers' = readers - 1 /\ P!Reads(p) /\ ~P!Reads(p)'
    <3>1. Readers' = Readers \ {p} /\ p \in Readers  BY <2>2, <2>5 DEF Readers
    <3> QED  BY <2>1, <2>5, <3>1, FS_RemoveElement, SMTT(30) DEF IInv, CountOK
  <2> QED  BY <1>5, <2>3, <2>4, <2>5
<1> QED  BY <1>4, <1>6, <1>7, <1>8 DEF IInv

-----------------------------------------------------------------------------
\* The inductive invariant holds throughout.
THEOREM Invariance == EmuSpec => []IInv
<1>1. EmuInit => IInv
  <2> SUFFICES ASSUME EmuInit PROVE IInv  OBVIOUS
  <2>1. P!LockInv  BY SameLock, EmuSleepAssumption, P!InitKeeps DEF EmuInit
  <2>2. SleepInv  BY InitSleeps DEF EmuInit
  <2>3. ApartOK  BY DEF EmuInit, L!Init, ApartOK
  <2>4. CountOK
    <3>1. Readers = {}  BY DEF EmuInit, L!Init, Readers, P!Reads
    <3> QED  BY <3>1, FS_EmptySet DEF EmuInit, L!Init, CountOK
  <2> QED  BY <2>1, <2>2, <2>3, <2>4 DEF IInv
<1>2. IInv /\ [EmuNext]_allvars => IInv'
  <2> SUFFICES ASSUME IInv, [EmuNext]_allvars PROVE IInv'  OBVIOUS
  <2>1. CASE SleepStep  BY <2>1, SleepKeeps
  <2>2. CASE \E p \in Procs : LockEnter(p) \/ LockGo(p)
    BY <2>2, LockStepKeeps DEF LockEnter, LockGo
  <2>3. CASE UNCHANGED allvars
    <3> USE <2>3 DEF allvars, vars, lockvars, sleepvars, procvars, killvars, IInv
    <3>1. sem' \in [Procs -> Nat]  BY DEF SleepInv, TypeOK
    <3>2. SleepInv'  BY <3>1, SleepersKept
    <3>3. P!LockInv'  BY <3>1, EmuSleepAssumption, P!OthersKeep
    <3>4. ApartOK'  BY DEF ApartOK
    <3>5. CountOK'  BY DEF CountOK, Readers, P!Reads
    <3> QED  BY <3>2, <3>3, <3>4, <3>5
  <2> QED  BY <2>1, <2>2, <2>3 DEF EmuNext
<1> QED  BY <1>1, <1>2, PTL DEF EmuSpec

\* How often z is on a queue in which nothing is twice.
LEMMA TimesOn ==
    ASSUME NEW S, NEW q \in Seq(S), P!Once(q), NEW z
    PROVE  Cardinality({i \in 1 .. Len(q) : q[i] = z}) = IF P!Has(q, z) THEN 1 ELSE 0
<1>1. CASE P!Has(q, z)
  <2>1. PICK i \in 1 .. Len(q) : q[i] = z  BY <1>1 DEF P!Has
  <2>2. {j \in 1 .. Len(q) : q[j] = z} = {i}  BY <2>1 DEF P!Once
  <2> QED  BY <1>1, <2>2, FS_Singleton
<1>2. CASE ~P!Has(q, z)
  <2>1. {j \in 1 .. Len(q) : q[j] = z} = {}  BY <1>2 DEF P!Has
  <2> QED  BY <1>2, <2>1, FS_EmptySet
<1> QED  BY <1>1, <1>2

\* The instance L has a Cardinality of its own.
LEMMA SameCardinality == \A S : L!Cardinality(S) = Cardinality(S)
  BY DEF L!Cardinality, Cardinality

\* One osready for one osblock, over both uses of a process's semaphore: Sleep with
\* Wakeup and swiproc, and the QLocks.  No token is lost and none is left over.
THEOREM TokensMatch == EmuSpec => []OneToken
<1>1. ASSUME IInv, NEW p \in Procs
      PROVE  Cardinality({q \in Procs : target[q] = p})
               = IF \E q \in Procs : target[q] = p THEN 1 ELSE 0
  <2>1. CASE \E q \in Procs : target[q] = p
    <3>1. PICK q \in Procs : target[q] = p  BY <2>1
    <3>2. {z \in Procs : target[z] = p} = {q}
      BY <1>1, <3>1, EmuSleepAssumption, P!OneAwaited DEF IInv
    <3>3. Cardinality({q}) = 1  BY FS_Singleton
    <3> QED  BY <2>1, <3>2, <3>3
  <2>2. CASE ~ \E q \in Procs : target[q] = p
    <3>1. {z \in Procs : target[z] = p} = {}  BY <2>2
    <3> QED  BY <2>2, <3>1, FS_EmptySet
  <2> QED  BY <2>1, <2>2
<1>2. ASSUME IInv, NEW p \in Procs PROVE L!Owed(p) = P!Awaits(p) /\ P!Awaits(p) \in Nat
  <2>1. xq \in Seq(Procs) /\ P!Once(xq) /\ kq \in Seq(Procs) /\ P!Once(kq)
    BY <1>2 DEF IInv, P!LockInv, P!QueuesOK, P!TypeOK
  <2> DEFINE X == Cardinality({i \in 1 .. Len(xq) : xq[i] = p})
             K == Cardinality({i \in 1 .. Len(kq) : kq[i] = p})
             T == Cardinality({q \in Procs : target[q] = p})
  <2>2. X = IF P!Has(xq, p) THEN 1 ELSE 0  BY <2>1, TimesOn
  <2>3. K = IF P!Has(kq, p) THEN 1 ELSE 0  BY <2>1, TimesOn
  <2>4. T = IF \E q \in Procs : target[q] = p THEN 1 ELSE 0  BY <1>1, <1>2
  <2>5. L!Owed(p) = X + K + T  BY SameCardinality DEF L!Owed
  <2> HIDE DEF X, K, T
  <2>6. X + K + T = P!Awaits(p)  BY <2>2, <2>3, <2>4, Zenon DEF P!Awaits
  <2>7. X \in Nat /\ K \in Nat /\ T \in Nat  BY <2>2, <2>3, <2>4
  <2>8. X + K + T \in Nat  BY <2>7
  <2> QED  BY <2>5, <2>6, <2>8, Zenon
<1>3. IInv => OneToken
  <2> SUFFICES ASSUME IInv, NEW p \in Procs
               PROVE  sem[p] + (IF rp[p] THEN 1 ELSE 0) + L!Owed(p)
                        = IF pc[p] \in {"committed", "osblock"} \/ lpc[p] \in DOMAIN L!Blocked
                          THEN 1 ELSE 0
    BY DEF OneToken, IInv, SleepInv, P!LockInv, P!TypeOK, P!PCs, P!Pointers,
           L!TypeOK, L!PCs, L!Pointers
  <2>1. L!Owed(p) = P!Awaits(p) /\ P!Awaits(p) \in Nat  BY <1>2
  <2>2. "idle" \notin DOMAIN L!Blocked /\ DOMAIN L!Blocked = DOMAIN P!Blocked
    BY DEF L!Blocked, P!Blocked
  <2>3. /\ lpc[p] = "idle" => P!Awaits(p) = 0
        /\ lpc[p] # "idle" =>
              sem[p] + P!Awaits(p) = IF lpc[p] \in DOMAIN P!Blocked THEN 1 ELSE 0
    BY EmuSleepAssumption, P!OneAwaited DEF IInv
  <2>4. sem[p] \in Nat /\ ApartOK /\ SleepOK  BY DEF IInv, SleepInv, TypeOK
  <2>5. CASE lpc[p] = "idle"
    <3>1. L!Owed(p) = 0  BY <2>1, <2>3, <2>5
    <3>2. lpc[p] \notin DOMAIN L!Blocked  BY <2>2, <2>5
    <3>3. CASE pc[p] \in {"committed", "osblock"}
      <4>1. (rp[p] /\ sem[p] = 0) \/ (~rp[p] /\ sem[p] = 1)  BY <2>4, <3>3, Zenon DEF SleepOK
      <4> QED  BY <3>1, <3>2, <3>3, <4>1
    <3>4. CASE pc[p] \notin {"committed", "osblock"}
      <4>1. ~rp[p] /\ sem[p] = 0  BY <2>4, <2>5, <3>4 DEF ApartOK, SleepOK
      <4> QED  BY <3>1, <3>2, <3>4, <4>1
    <3> QED  BY <3>3, <3>4
  <2>6. CASE lpc[p] # "idle"
    <3>1. pc[p] = "run" /\ ~rp[p]  BY <2>4, <2>6 DEF ApartOK, SleepOK
    <3> QED  BY <2>1, <2>2, <2>3, <2>4, <2>6, <3>1
  <2> QED  BY <2>5, <2>6
<1> QED  BY Invariance, <1>3, PTL

\* A writer of the RWlock has it to itself across every hand-off of x and k, the count
\* is that of the readers, and the canqlock whose result rlock ignores fails only when
\* earlier readers hold k.
THEOREM WriterAlone == EmuSpec => []WriterExclusive
<1>1. IInv => WriterExclusive
  <2> SUFFICES ASSUME IInv PROVE L!WriterExclusive  BY DEF WriterExclusive
  <2>1. \A p \in Procs : (L!Reads(p) <=> P!Reads(p)) /\ (L!Writes(p) <=> P!Writes(p))
    BY DEF L!Reads, P!Reads, L!Writes, P!Writes
  <2>2. L!Canqlock <=> P!Canqlock  BY DEF L!Canqlock, P!Canqlock
  <2>3. /\ \A p, q \in Procs : P!Writes(p) /\ P!Writes(q) => p = q
        /\ \A p \in Procs : P!Writes(p) => ~(readers > 0)
        /\ readers > 0 => klocked
        /\ \A p \in Procs : lpc[p] = "rl" /\ l = Nil => (P!Canqlock <=> readers = 0)
    BY EmuSleepAssumption, P!WriterAmongReaders DEF IInv
  <2>4. \A p, q \in Procs : L!Writes(p) /\ p # q => ~L!Writes(q) /\ ~L!Reads(q)
    BY <2>1, <2>3, ReaderCounts
  <2>5. readers = L!Cardinality({p \in Procs : L!Reads(p)})
    <3>1. {p \in Procs : L!Reads(p)} = Readers  BY <2>1 DEF Readers
    <3> QED  BY <3>1, SameCardinality DEF IInv, CountOK
  <2> QED  BY <2>2, <2>3, <2>4, <2>5 DEF L!WriterExclusive
<1> QED  BY Invariance, <1>1, PTL

\* osleave waits for a signal only while one is on its way to the process, and the
\* handler of the host finds what it clears: whatever swiproc calls come together.
THEOREM SignalAwaited == EmuSpec => []IntwaitHasSignal
<1>1. IInv => IntwaitHasSignal  BY DEF IInv, SleepInv, IntrOK
<1> QED  BY Invariance, <1>1, PTL
=============================================================================
