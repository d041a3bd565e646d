--------------------------------- MODULE Emu ---------------------------------
(***************************************************************************)
(* The hosted kernel's processes: Sleep, Wakeup, swiproc and host calls    *)
(* (EmuSleep) together with the reader/writer lock built from QLocks       *)
(* (EmuRWLock).  All of them block in osblock and are released by osready, *)
(* on the one semaphore a process has (emu/Linux/os.c): a token too many   *)
(* in one use would end a wait of the other.                               *)
(*                                                                         *)
(* A process is in one of the two at a time: it sleeps or calls the host   *)
(* while it neither holds nor waits for the lock.  A behaviour has either  *)
(* a few processes that do both, or a crowd that only takes the lock.      *)
(***************************************************************************)
EXTENDS EmuSleep, Integers, Sequences

CONSTANT Few    \* the processes that do both

VARIABLES
    crowd,    \* all of Procs take the lock, and nobody sleeps
    xlocked, xq, kuse, klocked, kq, l, readers, target,  \* of EmuRWLock
    lpc       \* where each process is in EmuRWLock

L == INSTANCE EmuRWLock WITH pc <- lpc

lockvars == <<xlocked, xq, kuse, klocked, kq, l, readers, target, lpc>>
sleepside == <<sleepvars, procvars, sig, pc, intr, eintr, killvars>>
allvars == <<vars, lockvars, crowd>>

EmuInit == Init /\ L!Init /\ crowd \in BOOLEAN

\* A step of EmuSleep: whoever begins to sleep or to call the host is idle.
SleepStep ==
    /\ ~crowd
    /\ Next
    /\ \A p \in Procs : pc[p] = "run" /\ pc'[p] # "run" => lpc[p] = "idle"
    /\ UNCHANGED lockvars

\* A step of EmuRWLock, by a process that is not in EmuSleep.
LockEnter(p) ==
    /\ pc[p] = "run" /\ (crowd \/ p \in Few)
    /\ L!Enter(p) /\ UNCHANGED sleepside
LockGo(p) == pc[p] = "run" /\ L!Go(p) /\ UNCHANGED sleepside

EmuNext ==
    /\ SleepStep \/ \E p \in Procs : LockEnter(p) \/ LockGo(p)
    /\ UNCHANGED crowd

EmuSpec == EmuInit /\ [][EmuNext]_allvars

\* Host threads are scheduled fairly and get the spin locks they spin on, and
\* whoever has the lock releases it; asking for it is the caller's choice.  A
\* process whose condition has been set is sent its Wakeup; a host signal is
\* delivered.  A host call may last for ever.
FairSpec ==
    /\ EmuSpec
    /\ \A p \in Procs : SF_allvars(LockGo(p) /\ UNCHANGED crowd)
    /\ \A p \in Sleepers :
          /\ WF_allvars(Sleeping(p) /\ UNCHANGED <<lockvars, crowd>>)
          /\ WF_allvars(Wakeup(p) /\ UNCHANGED <<lockvars, crowd>>)
          /\ WF_allvars(Signal(p) /\ UNCHANGED <<lockvars, crowd>>)
          /\ WF_allvars(OsleaveSysio(p) /\ UNCHANGED <<lockvars, crowd>>)
          /\ WF_allvars(OsleaveReturn(p) /\ UNCHANGED <<lockvars, crowd>>)
    /\ \A k \in Killers : WF_allvars(Killing(k) /\ UNCHANGED <<lockvars, crowd>>)

-----------------------------------------------------------------------------
\* Types; and one osready for one osblock, over both uses of the semaphore: a
\* process that is committed to block has exactly one token, or is named by its
\* Rendez, by the queue of a QLock or by a qunlock about to make it ready; any
\* other process has none, so that no later osblock returns early.
OneToken ==
    /\ TypeOK /\ L!TypeOK
    /\ \A p \in Procs :
          sem[p] + (IF rp[p] THEN 1 ELSE 0) + L!Owed(p)
            = IF pc[p] \in {"committed", "osblock"} \/ lpc[p] \in DOMAIN L!Blocked
              THEN 1 ELSE 0

\* A writer has the lock to itself, across every hand-off of x and k, and the first
\* reader blocks writers though rlock ignores what canqlock(&l->k) returns.  (rlock,
\* canrlock, runlock, wlock, wunlock)
WriterExclusive == L!WriterExclusive

\* Everyone who asks for the lock gets it, though some are killed meanwhile.
WaiterServed == L!WaiterServed
=============================================================================
