------------------------------ MODULE DisSched -------------------------------
(***************************************************************************)
(* The scheduler of the Dis virtual machine in the hosted system,          *)
(* emu/port/dis.c.  One process at a time owns the virtual machine: an     *)
(* interpreter process (vmachine), which runs the Progs of the run queue,  *)
(* or a kernel process between acquire and release.  An interpreter that   *)
(* blocks in the host releases the machine with its Prog saved in iprog.   *)
(* Between quanta, and when there is nothing to run, an interpreter takes  *)
(* a turn of the garbage collector with its own up->prog at the head of    *)
(* the run queue; a file the collector finds unused is closed with the     *)
(* machine released (freeFD).                                              *)
(*                                                                         *)
(* A critical section of isched.l is one action together with the changes  *)
(* of the run queue beside it, which only the owner makes, and with the    *)
(* osready that follows it.  Sleep and Wakeup are as EmuSleep shows them:  *)
(* the test of the condition and r->p = up are one step.  A Prog that      *)
(* waits for a channel, or is broken, or has exited is off the run queue;  *)
(* another Prog or a kernel process puts it (or a new one) on with addrun. *)
(***************************************************************************)
EXTENDS Naturals, FiniteSets, Sequences, Functions

CONSTANTS
    Vms,     \* processes that can become interpreters; v is also up->prog of v
    Boot,    \* the first of them, which runs disinit
    Kprocs,  \* kernel processes that enter the machine; k is also up->prog of k
    Progs,   \* Dis threads
    Nil      \* the nil pointer

ASSUME DisSchedAssumption ==
    /\ Boot \in Vms /\ Nil \notin Progs \cup Vms \cup Kprocs
    /\ IsFiniteSet(Progs) /\ IsFiniteSet(Vms)
    /\ Vms \cap Kprocs = {} /\ Progs \cap Kprocs = {} /\ Progs \cap Vms = {}

VARIABLES
    idle, creating,  \* isched.idle, isched.creating
    vmq,      \* isched.vmq, processes wanting the machine
    idlevmq,  \* isched.idlevmq, interpreters wanting work
    runq,     \* isched.runhd .. isched.runtl
    off,      \* Progs off the run queue, not saved in an iprog
    irend,    \* isched.irend.p
    iprog,    \* up->iprog of an interpreter
    cur,      \* vmachine's r, while it is in xec
    cycles,   \* vmachine's cycles
    type,     \* up->type of an interpreter
    addrun,   \* kernel processes whose prog has addrun = cwakeme
    sem,      \* the semaphore of osblock and osready
    pc        \* where each process is

sched == <<idle, creating, vmq, idlevmq>>
vars == <<sched, runq, off, irend, iprog, cur, cycles, type, addrun, sem, pc>>

Procs == Vms \cup Kprocs
Queued == {"acqwake", "acqblock"}  \* in acquire, behind the lock

TypeOK ==
    /\ idle \in BOOLEAN /\ creating \in BOOLEAN
    /\ vmq \in Seq(Procs) /\ idlevmq \in Seq(Vms)
    /\ runq \in Seq(Progs \cup Procs) /\ off \subseteq Progs
    /\ irend \in Vms \cup {Nil}
    /\ iprog \in [Vms -> Progs \cup {Nil}] /\ cur \in [Vms -> Progs \cup {Nil}]
    /\ cycles \in [Vms -> 0..2] /\ type \in [Vms -> {"Interp", "IdleGC", "BusyGC"}]
    /\ addrun \subseteq Kprocs
    /\ sem \in [Procs -> 0..1]
    /\ pc \in [Procs -> {"unborn", "startup", "loop", "isleep", "irend", "yield", "idle", "new",
                         "xec", "gc", "out", "vm", "csleep", "cwait", "cback"} \cup Queued]

\* disinit has made the first Prog, and the startup in its vmachine has taken the
\* machine: until then there is no other process to enter it.
Init ==
    /\ idle = FALSE /\ creating = FALSE /\ vmq = <<>> /\ idlevmq = <<>>
    /\ \E g \in Progs : runq = <<g>> /\ off = Progs \ {g}
    /\ irend = Nil
    /\ iprog = [v \in Vms |-> Nil] /\ cur = iprog
    /\ cycles = [v \in Vms |-> 0] /\ type = [v \in Vms |-> "Interp"]
    /\ addrun = {}
    /\ sem = [p \in Procs |-> 0]
    /\ pc = [p \in Procs |-> IF p = Boot THEN "loop" ELSE IF p \in Vms THEN "unborn" ELSE "out"]

Goto(p, l) == pc' = [pc EXCEPT ![p] = l]
osready(p) == sem' = [sem EXCEPT ![p] = @ + 1]
osblock(p) == sem[p] > 0 /\ sem' = [sem EXCEPT ![p] = @ - 1]
tready == runq # <<>> \/ vmq # <<>>

-----------------------------------------------------------------------------
\* Interpreters whose release saves a Prog; up->iprog of the others is nil.
Interps == {v \in Vms : type[v] = "Interp"}

\* The end of acquire: the owner's Prog becomes the head of the run queue.  It is the
\* saved one, or up->prog.  After an interrupted Sleep cblock sets addrun to nil.
Enter(p) ==
    /\ runq' = <<IF p \in Interps THEN iprog[p] ELSE p>> \o runq
    /\ iprog' = IF p \in Interps THEN [iprog EXCEPT ![p] = Nil] ELSE iprog
    /\ addrun' = addrun \ {p}
    /\ Goto(p, IF p \in Interps THEN "xec" ELSE IF p \in Vms THEN "gc" ELSE "vm")

\* A wrong variant: isched.idle stays set.
AcquireIdleKeeps(p) ==
    /\ pc[p] \in {"out", "cback"} /\ idle
    /\ Enter(p)
    /\ UNCHANGED <<sched, off, irend, cur, cycles, type, sem>>

\* acquire of an idle machine.
AcquireIdle(p) ==
    /\ pc[p] \in {"out", "cback"} /\ idle
    /\ idle' = FALSE
    /\ Enter(p)
    /\ UNCHANGED <<creating, vmq, idlevmq, off, irend, cur, cycles, type, sem>>

\* acquire of a machine in use: link in at the tail; the first wakes the owner.
AcquireQueue(p) ==
    /\ pc[p] \in {"out", "cback"} /\ ~idle
    /\ vmq' = Append(vmq, p)
    /\ Goto(p, IF vmq = <<>> THEN "acqwake" ELSE "acqblock")
    /\ UNCHANGED <<idle, creating, idlevmq, runq, off, irend, iprog, cur, cycles, type, addrun, sem>>

\* acquire: Wakeup(&isched.irend).
AcquireWakeup(p) ==
    /\ pc[p] = "acqwake"
    /\ IF irend # Nil THEN osready(irend) ELSE UNCHANGED sem
    /\ irend' = Nil
    /\ Goto(p, "acqblock")
    /\ UNCHANGED <<sched, runq, off, iprog, cur, cycles, type, addrun>>

\* acquire: osblock returns.
AcquireDone(p) ==
    /\ pc[p] = "acqblock"
    /\ osblock(p)
    /\ Enter(p)
    /\ UNCHANGED <<sched, off, irend, cur, cycles, type>>

\* Interpreters that have not been made.
Unborn == {v \in Vms : pc[v] = "unborn"}

\* release under isched.l, p going on at l: the machine goes to a process that
\* wants it, else to an idle interpreter; else it is idle, and an interpreter is
\* made unless one is being made.
Give(p, l) ==
    \/ /\ vmq # <<>>
       /\ vmq' = Tail(vmq) /\ osready(Head(vmq)) /\ Goto(p, l)
       /\ UNCHANGED <<idle, creating, idlevmq>>
    \/ /\ vmq = <<>> /\ idlevmq # <<>>
       /\ idlevmq' = Tail(idlevmq) /\ osready(Head(idlevmq)) /\ Goto(p, l)
       /\ UNCHANGED <<idle, creating, vmq>>
    \/ /\ vmq = <<>> /\ idlevmq = <<>>
       /\ idle' = TRUE /\ creating' = TRUE
       /\ IF creating THEN Goto(p, l)
          ELSE /\ Unborn # {}
               /\ pc' = [pc EXCEPT ![CHOOSE v \in Unborn : TRUE] = "startup", ![p] = l]
       /\ UNCHANGED <<vmq, idlevmq, sem>>

\* A wrong variant: isave forgets to take the Prog off the run queue.
ReleaseVmKeeps(v) ==
    /\ pc[v] = "xec"
    /\ iprog' = [iprog EXCEPT ![v] = Head(runq)]
    /\ Give(v, "out")
    /\ UNCHANGED <<runq, off, irend, cur, cycles, type, addrun>>

\* release by an interpreter, its Prog about to block in the host.
ReleaseVm(v) ==
    /\ pc[v] = "xec"
    /\ iprog' = [iprog EXCEPT ![v] = Head(runq)]
    /\ runq' = Tail(runq)
    /\ Give(v, "out")
    /\ UNCHANGED <<off, irend, cur, cycles, type, addrun>>

\* rungc sweeps a file, which freeFD closes with the machine released: delrun takes
\* up->prog off.  gclock keeps every other interpreter's collector from sweeping.
ReleaseGc(v) ==
    /\ pc[v] = "gc" /\ Vms \ {v} \subseteq Interps
    /\ runq' = Tail(runq)
    /\ Give(v, "out")
    /\ UNCHANGED <<off, irend, iprog, cur, cycles, type, addrun>>

\* release by a kernel process.
ReleaseKproc(k) ==
    /\ pc[k] = "vm"
    /\ runq' = Tail(runq)
    /\ Give(k, "out")
    /\ UNCHANGED <<off, irend, iprog, cur, cycles, type, addrun>>

\* cblock as far as its release.
Cblock(k) ==
    /\ pc[k] = "vm"
    /\ addrun' = addrun \cup {k}
    /\ runq' = Tail(runq)
    /\ Give(k, "csleep")
    /\ UNCHANGED <<off, irend, iprog, cur, cycles, type>>

CblockGo(k, done) ==
    /\ pc[k] = "csleep"
    /\ Goto(k, IF done THEN "cback" ELSE "cwait")
    /\ UNCHANGED <<sched, runq, off, irend, iprog, cur, cycles, type, addrun, sem>>

\* A wrong variant: cdone is not tested before the process sleeps.
CblockSleepBlind(k) == CblockGo(k, FALSE)

\* cblock: Sleep(o->rend, cdone, p) sleeps, or finds addrun nil again.
CblockSleep(k) == CblockGo(k, k \notin addrun)

\* cblock: Sleep ends with an error, for the process was interrupted or killed.
CblockIntr(k) ==
    /\ pc[k] \in {"csleep", "cwait"}
    /\ sem' = [sem EXCEPT ![k] = 0]
    /\ Goto(k, "cback")
    /\ UNCHANGED <<sched, runq, off, irend, iprog, cur, cycles, type, addrun>>

\* cblock: Sleep returns.
CblockWoken(k) ==
    /\ pc[k] = "cwait"
    /\ osblock(k)
    /\ Goto(k, "cback")
    /\ UNCHANGED <<sched, runq, off, irend, iprog, cur, cycles, type, addrun>>

-----------------------------------------------------------------------------
Startup(v) ==
    /\ pc[v] = "startup"
    /\ creating' = FALSE
    /\ IF idle
       THEN idle' = FALSE /\ Goto(v, "loop") /\ UNCHANGED idlevmq
       ELSE idlevmq' = <<v>> \o idlevmq /\ Goto(v, "new") /\ UNCHANGED idle
    /\ UNCHANGED <<vmq, runq, off, irend, iprog, cur, cycles, type, addrun, sem>>

\* startup: osblock returns.
StartupDone(v) ==
    /\ pc[v] = "new"
    /\ osblock(v)
    /\ Goto(v, "loop")
    /\ UNCHANGED <<sched, runq, off, irend, iprog, cur, cycles, type, addrun>>

\* iyield: osblock returns; vmachine goes on at r = isched.runhd.
IyieldDone(v) ==
    /\ pc[v] = "idle"
    /\ osblock(v)
    /\ IF runq # <<>>
       THEN cur' = [cur EXCEPT ![v] = Head(runq)] /\ Goto(v, "xec")
       ELSE Goto(v, "loop") /\ UNCHANGED cur
    /\ UNCHANGED <<sched, runq, off, irend, iprog, cycles, type, addrun>>

\* A turn of the collector starts, q being the rest of the run queue.
Collect(v, t, q) ==
    /\ runq' = <<v>> \o q
    /\ type' = [type EXCEPT ![v] = t]
    /\ Goto(v, "gc")

\* vmachine: with nothing to do, execatidle.
Loop(v) ==
    /\ pc[v] = "loop"
    /\ IF tready
       THEN Goto(v, "yield") /\ UNCHANGED <<runq, type>>
       ELSE Collect(v, "IdleGC", runq)
    /\ UNCHANGED <<sched, off, irend, iprog, cur, cycles, addrun, sem>>

\* The end of the collector's turn: delrunq(up->prog), which is at the head.
CollectEnd(v) ==
    /\ pc[v] = "gc"
    /\ runq' = Tail(runq)
    /\ type' = [type EXCEPT ![v] = "Interp"]
    /\ Goto(v, IF type[v] = "IdleGC" THEN "isleep" ELSE "loop")
    /\ UNCHANGED <<sched, off, irend, iprog, cur, cycles, addrun, sem>>

\* vmachine: after execatidle, Sleep(&isched.irend, tready, 0).
LoopSleep(v) ==
    /\ pc[v] = "isleep"
    /\ IF tready
       THEN Goto(v, "yield") /\ UNCHANGED irend
       ELSE Goto(v, "irend") /\ irend' = v
    /\ UNCHANGED <<sched, runq, off, iprog, cur, cycles, type, addrun, sem>>

\* vmachine: Sleep on isched.irend returns.
LoopWoken(v) ==
    /\ pc[v] = "irend"
    /\ osblock(v)
    /\ Goto(v, "yield")
    /\ UNCHANGED <<sched, runq, off, irend, iprog, cur, cycles, type, addrun>>

\* vmachine: iyield to the first process that wants the machine.
Iyield(v) ==
    /\ vmq' = Tail(vmq) /\ osready(Head(vmq))
    /\ idlevmq' = <<v>> \o idlevmq
    /\ cycles' = [cycles EXCEPT ![v] = 0]
    /\ Goto(v, "idle")
    /\ UNCHANGED <<idle, creating, runq, off, irend, iprog, cur, type, addrun>>

\* vmachine: no iyield; xec of the head of the run queue, if there is one.
Go(v, n) ==
    /\ cycles' = [cycles EXCEPT ![v] = n]
    /\ IF runq # <<>>
       THEN cur' = [cur EXCEPT ![v] = Head(runq)] /\ Goto(v, "xec")
       ELSE Goto(v, "loop") /\ UNCHANGED cur
    /\ UNCHANGED <<sched, runq, off, irend, iprog, type, addrun, sem>>

\* A wrong variant: only when no Prog is ready.
YieldNever(v) == pc[v] = "yield" /\ IF vmq # <<>> /\ runq = <<>> THEN Iyield(v) ELSE Go(v, 0)

\* vmachine: if(isched.vmq != nil && (isched.runhd == nil || ++cycles > 2)) iyield().
Yield(v) ==
    /\ pc[v] = "yield"
    /\ IF vmq # <<>> /\ (runq = <<>> \/ cycles[v] + 1 > 2)
       THEN Iyield(v)
       ELSE Go(v, IF vmq # <<>> THEN cycles[v] + 1 ELSE cycles[v])

\* vmachine after xec, the run queue being q: every 256th time, or when memory is low,
\* a turn of the collector unless the run queue is empty.
Turn(v, q) ==
    \/ runq' = q /\ Goto(v, "loop") /\ UNCHANGED type
    \/ q # <<>> /\ Collect(v, "BusyGC", q)

\* xec returns at the end of the quantum; the Prog goes to the tail.
XecEnd(v) ==
    /\ pc[v] = "xec"
    /\ Turn(v, Append(Tail(runq), Head(runq)))
    /\ cur' = [cur EXCEPT ![v] = Nil]
    /\ UNCHANGED <<sched, off, irend, iprog, cycles, addrun, sem>>

\* xec returns since the Prog is no longer ready (delrun, isave, delprog).
XecBlock(v) ==
    /\ pc[v] = "xec"
    /\ off' = off \cup {Head(runq)}
    /\ Turn(v, Tail(runq))
    /\ cur' = [cur EXCEPT ![v] = Nil]
    /\ UNCHANGED <<sched, irend, iprog, cycles, addrun, sem>>

\* An error in xec takes vmachine to its waserror, which starts the loop anew with
\* cycles = 0: the Prog handles the exception and stays first, or exits.
XecError(v) ==
    /\ pc[v] = "xec"
    /\ \/ UNCHANGED <<runq, off>>
       \/ runq' = Tail(runq) /\ off' = off \cup {Head(runq)}
    /\ cur' = [cur EXCEPT ![v] = Nil] /\ cycles' = [cycles EXCEPT ![v] = 0]
    /\ Goto(v, "loop")
    /\ UNCHANGED <<sched, irend, iprog, type, addrun, sem>>

\* addrun of a Prog by the owner, in xec or as a kernel process.
Addrun(p, g) ==
    /\ pc[p] \in {"xec", "vm"} /\ g \in off
    /\ off' = off \ {g}
    /\ runq' = Append(runq, g)
    /\ UNCHANGED <<sched, irend, iprog, cur, cycles, type, addrun, sem, pc>>

\* addrun of the prog of a kernel process in cblock: cwakeme.
Cwakeme(p, k) ==
    /\ pc[p] \in {"xec", "vm"} /\ k \in addrun
    /\ addrun' = addrun \ {k}
    /\ IF pc[k] = "cwait" THEN osready(k) ELSE UNCHANGED sem
    /\ UNCHANGED <<sched, runq, off, irend, iprog, cur, cycles, type, pc>>

Acquire(p) == AcquireIdle(p) \/ AcquireQueue(p)
AcquireOn(p) == AcquireWakeup(p) \/ AcquireDone(p)
Vmachine(v) == \/ Startup(v) \/ StartupDone(v) \/ IyieldDone(v) \/ Yield(v)
               \/ Loop(v) \/ CollectEnd(v) \/ LoopSleep(v) \/ LoopWoken(v)
Xec(v) == XecEnd(v) \/ XecBlock(v) \/ XecError(v) \/ ReleaseVm(v)
Kproc(k) == ReleaseKproc(k) \/ Cblock(k)
CblockOn(k) == CblockSleep(k) \/ CblockWoken(k)

Next ==
    \/ \E p \in Procs : \/ Acquire(p) \/ AcquireOn(p)
                        \/ \E g \in Progs : Addrun(p, g)
                        \/ \E k \in Kprocs : Cwakeme(p, k)
    \/ \E v \in Vms : Vmachine(v) \/ Xec(v) \/ ReleaseGc(v)
    \/ \E k \in Kprocs : Kproc(k) \/ CblockOn(k) \/ CblockIntr(k)

Spec == Init /\ [][Next]_vars

\* Every process is a host thread and goes on; a Prog's quantum and the collector's turn
\* end, and a kernel process leaves the machine it has entered.  A host call may last for
\* ever, and a kernel process need not enter the machine.
Fairness ==
    /\ \A v \in Vms : WF_vars(AcquireOn(v) \/ Vmachine(v) \/ Xec(v))
    /\ \A k \in Kprocs : WF_vars(\/ AcquireOn(k) \/ (pc[k] = "cback" /\ Acquire(k))
                                 \/ Kproc(k) \/ CblockOn(k))
LiveSpec == Spec /\ Fairness

-----------------------------------------------------------------------------
\* The processes that own the machine: those that run it, those asleep on
\* isched.irend, and those that were taken off a queue and are about to run.
Owners ==
    {p \in Procs : \/ pc[p] \in {"loop", "isleep", "irend", "yield", "xec", "gc", "vm"}
                   \/ pc[p] \in Queued /\ p \notin Range(vmq)
                   \/ pc[p] \in {"idle", "new"} /\ p \notin Range(idlevmq)}

\* Exactly one process owns the virtual machine, unless it is idle: acquire,
\* release, iyield and startup neither duplicate nor lose it.  An idle machine has
\* nobody queued for it and an interpreter on its way to startup, so that the Progs
\* are not stranded: release asks for one whenever it finds none to pass the machine to.
OneOwner ==
    /\ Cardinality(Owners) = IF idle THEN 0 ELSE 1
    /\ idle => vmq = <<>> /\ idlevmq = <<>> /\ \E v \in Vms : pc[v] = "startup"

\* How often a Prog is on the run queue or saved in an iprog.
Places(g) == Cardinality({i \in DOMAIN runq : runq[i] = g})
             + Cardinality({v \in Vms : iprog[v] = g})

\* Types; and a Prog is on the run queue once, or saved in one iprog, or off, and the
\* owner has no saved Prog (iyield's panic).  The process that runs the machine finds
\* its own Prog at the head of the run queue, in the collector's turn too, which is what
\* release (delrun, isave) and currun take it to be, even after it has lost the machine
\* and acquired it again.  And release makes an interpreter only when every other one
\* carries a Prog that is blocked in the host, or closes a file for the collector, which
\* gclock lets one do at a time: there are at most two more than there are Progs.
WellFormed ==
    /\ TypeOK
    /\ \A g \in Progs : Places(g) = IF g \in off THEN 0 ELSE 1
    /\ \A v \in Vms \cap Owners : pc[v] \notin Queued => iprog[v] = Nil
    /\ \A v \in Vms : pc[v] = "xec" => runq # <<>> /\ Head(runq) = cur[v] /\ cur[v] \in Progs
    /\ \A p \in Procs : pc[p] \in {"gc", "vm"} => runq # <<>> /\ Head(runq) = p
    /\ Cardinality(Vms \ Unborn) =< Cardinality(Progs) + 2

\* A kernel process asleep in cblock can still be woken: addrun is set until
\* cwakeme makes it ready.
CblockIsWoken == \A k \in Kprocs : pc[k] = "cwait" /\ sem[k] = 0 => k \in addrun

\* A process that calls acquire gets the machine: the interpreters give way to it
\* after two quanta.  Unless Progs go on raising exceptions for ever: an error in xec
\* starts vmachine's count of quanta anew, so that one Prog that raises and handles an
\* exception in each quantum keeps every acquirer out.
AcquirerRuns ==
    \/ []<><<\E v \in Vms : XecError(v)>>_vars
    \/ \A p \in Procs : pc[p] \in Queued ~> pc[p] \in {"xec", "gc", "vm"}
=============================================================================
