# Verification of the 9ferno kernels

9ferno is a fork of the Inferno operating system. The same system is built twice: *native*
(`src/os`), a kernel on the bare machine with processes on several processors, and *hosted*
(`src/emu`), a program whose processes are threads of a host system. Limbo programs run on
the Dis virtual machine (`src/libinterp`), and resources are files served over 9P/Styx.

This directory holds TLA+ models of the concurrent, distributed and persistent core of both,
checked with TLC on small instances. For six of them the safety is also proved with TLAPS, for any
number of processes and for any heap: the native reader/writer lock, the native scheduler with
`sleep` and `wakeup`, the hosted locks and `Sleep`, the Dis scheduler, the storage management of
the Dis machine, and the mount driver. `PROJECT.json` gives, for every definition that models code,
the lines it models.

## The system's parts

| part | source | module | state of the work |
|---|---|---|---|
| queueing lock, native | `os/port/qlock.c`, `postnote` in `proc.c` | `QLock`, `NativeLocks` | modelled |
| reader/writer lock, native | `os/port/qlock.c` | `RWLock`, `NativeLocks`, `RWLockProof` | modelled, proved |
| reader/writer and queueing lock, hosted | `emu/port/lock.c` | `EmuRWLock`, `Emu`, `EmuRWLockProof`, `EmuProof` | modelled, proved |
| sleep, wakeup, interruption, hosted | `emu/port/proc.c`, `emu/Linux/os.c` | `EmuSleep`, `Emu`, `EmuProof` | modelled, proved |
| processes, scheduler, sleep and wakeup, native | `os/port/proc.c` | `Proc`, `ProcProof` | partly, proved |
| Dis scheduler, hosted | `emu/port/dis.c` | `DisSched`, `DisSchedSteps`, `DisSchedProof` | partly, proved |
| Dis channels and `alt` | `libinterp/alt.c`, `xec.c`, `emu/port/inferno.c` | `DisChan` | partly |
| reference counts and garbage collector | `libinterp/gc.c`, `heap.c` | `Gc`, `GcProof` | partly, proved |
| I/O queues, native | `os/port/qio.c` | `Qio`, `ByteStream` | partly |
| mount driver | `os/port/devmnt.c` | `MountMux`, `MountMuxProof` | partly, proved |
| IL protocol | `os/ip/il.c` | `Il` | partly |
| flash translation layer | `os/port/devftl.c` | `Ftl` | partly |
| everything else | | | not modelled; see the end and `PROJECT.json` |

How they interact: everything rests on spin locks. `sleep`/`wakeup` and the queueing locks
suspend processes through the scheduler; the I/O queues combine a spin lock (`ilock`), two
queueing locks and two Rendezes; drivers, pipes, protocols and the mount driver use the queues;
the mount driver multiplexes the file operations of many processes on one connection. In the
hosted system the Dis scheduler passes one virtual machine among host threads that use the
hosted `Sleep`, `Wakeup` and semaphores; whoever has the machine performs channel operations
and turns of the collector. Each module takes the layer below it in the form that the layer's
own module shows to be right: `Qio` and `MountMux` make the test of a sleep condition and
`r->p = up` one step because `Proc` shows that no wakeup falls in between; `DisSched` does the
same because of `EmuSleep`; `DisChan` and `Gc` make an operation of the owner of the machine one
step because `DisSched` shows that there is one owner; `Il` has the limit of `qpass` from `Qio`.
`Emu` composes the hosted locks and the hosted sleep over the semaphore that a thread has for
both. `NativeLocks` puts the two native locks, which share no field, side by side; `MCQioIl` and
`MCGcChan` do the same with an I/O queue and an IL conversation, and with the heap and the channels
of the Dis machine, so that one run checks each pair without multiplying their states.

## Conventions

* A critical section of a spin lock is one action. What the code does after it has released
  the lock (a `ready`, an `osready`, a `wakeup`) is an action of its own. Where a lock is held
  across a point at which another actor can observe or disturb the state, the model holds it
  across steps and a variable names the owner.
* `pc` says where each process is; its values name places in the code.
* A variable that Init chooses and nothing changes (`user`, `use`, `crowd`, `closing`, `subject`) says how the
  component is used in a behaviour, so that one run covers several ways of use.
* An operator introduced by "A wrong variant" is a plausible mistake in the definition that
  follows it. It takes part in no run; it is there to show that a property notices it.
* Names are the source's (`qnext`, `readers`, `rip`, `outoforder`, `bam`, ...).

## Modules

**QLock** (`eqlock`, `qlock`, `canqlock`, `qunlock`, and `postnote`'s walk that takes a
process out of an `eqlock`). The queue is the code's own linked list: `head`, `tail` and a
`qnext` per process, because the finding below lives in those pointers. `qunlock` decides under
`q->use` and calls `ready` afterwards (`QunlockReady`). `postnote` sets `notepending`, looks at
the process without a lock (`PostnoteLeave`) and then, under `q->use`, walks the list
(`PostnotePull`). `user` says which of the calls each process makes.

**RWLock** (`rlock`, `canrlock`, `runlock`, `wlock`, `wunlock`). `wunlock` wakes readers one
by one with `q->use` held, and a reader it has woken may already run: each turn of that loop
is a step (`WakeReader`, `WakeEnd`).

**EmuRWLock**: the hosted lock is two QLocks `x` and `k`, a spin lock `l` and a count. The
critical sections of `k.use` are two steps so that the `canqlock(&l->k)` of `rlock`, whose result
the code ignores, can meet a busy spin lock. Semaphores are counters.

**EmuSleep**: `Sleep`, `Wakeup`, `swiproc`, `osenter` and `osleave`, with the host signal that
gets a process out of a host call and the handshake through `intwait`. **Emu** lets a process
that sleeps also take the lock: both end in `osblock` on the same semaphore.

**Proc**: `sleep`, `wakeup` and `postnote` with their two locks taken in different orders; `ready`,
`runproc`, `sched` and `schedinit` on several processors, with the moment at which a process is
ready but its registers are still being saved (`mach`). The choice among ready processes is left
open, so priorities, affinity and load balancing are covered without being described.

**DisSched**: `acquire`, `release`, `iyield`, `startup` and the loop of `vmachine`, `cblock` and
`cwakeme`, the run queue of Progs, exceptions that end a quantum (`XecError`), and the turns of the
collector that `vmachine` takes, with the process's own `up->prog` at the head of the run queue and
with `release` and `acquire` around the closing of a file (`ReleaseGc`, from `freeFD` in
`emu/port/inferno.c`). Unlocked reads (`tready`, the test in `vmachine`) are steps apart from the
locked sections.

**DisChan**: `send`, `recv`, `alt` and `nbalt` of Limbo threads, `csend`, `crecv` and `csendalt` of
kernel processes, `killprog`, `exprog` and the interruption of a kernel process that waits for a
channel. The queues are those of the code, a Prog in an `alt` being on several; a buffer is the
code's ring.

**Gc**: a heap of `N` blocks with a colour and a count each, pointers in frames and in objects.
`new`, `movp` and `cons` stand for the instructions that make and move pointers; `destroy` is a
sequence of steps, one per object, with the bound on its depth; `rungc` inspects one block, so that
instructions come between any two inspections, and may trace from it as far as its quantum goes;
`endpass` begins another pass or the next epoch with `rootset`.

**Qio**: one action per critical section of the queue's `ilock`: `qwrite`/`qbwrite` with flow
control, `qread`/`qbread`/`qhasdata` with splitting, putting back, coalescing and message mode;
at interrupt level `qproduce`, `qpass`, `qpassnolim`, `qiwrite`, `qget`, `qconsume`, `qdiscard`; and
`qclose`, `qhangup`, `qreopen`, `qflush`, `qnoblock`, `qsetlimit`. A writer may also call `qbwrite`
itself, which `qwrite`'s stop against bloat does not hold back. Blocks keep their bytes, numbered modulo `N`,
and the size charged for them. A member of `Uses` says who uses the queue and how.
**ByteStream** is what a queue promises: bytes come out in order, once, and none is dropped but
where the use has an operation that throws data away (`lossy`). `IsByteStream` says that `Qio`
implements it.

**MountMux**: a transaction (`Start`, `Link`, `Send`, which fails for a request that is too big or
on a connection that is lost), the gate that makes one process the reader
of the connection (`Gate`, `Sleep`, `Woken`, `Mntgate`), the delivery of replies (`Mountmux`),
notes (`Note`, `Intr`) and the chains of flushes they cause (`Flush`, `FreeOne`). An Mntrpc is its
tag, a process and its place in the process's chain; `Unlink` takes it out of `m->queue`, which is
in the code's order because `mntgate` takes the first that can read (`FirstOf`). The file server is
external and behaves as flush(5) prescribes: it holds a set of messages, answers requests in any
order, and an Rflush discards the request and the earlier flushes of it. Its messages are well
formed: what `mntrpcread` does with others is left out.

**Il**: a caller and a listener, each with its control block, and the packets in between, of which
any may be lost, delivered again or overtaken. `iliput` is one action per connection state; the
timer process is one action per thing it may find due (`Retry`, `Delayed`, `Idle`, `Death`,
`Timeout`). Time is a free choice. A datagram is its id; the receive queue is measured in bytes of
data where `_ilprocess` tests it (`Dlen`) and in bytes allocated where `qpass` does (`Balloc`).

**Ftl**: the headers, block maps and contents of the erase units on the flash, and what the
driver keeps in memory. Each write to the flash is an action, `Crash` may come between any two,
and `eraseinit` and `mkftl` start the device again from the flash alone.

The `MC` modules give the instances; the `.cfg` files name the properties.

## Runs

| run | instance | states | what it shows |
|---|---|---|---|
| `native_locks` | 3 processes in `eqlock`, or one in `eqlock` and one in `qlock`, notes at any time; or 4 processes at the RWlock | 101 808 | `OneOwner`, `QueueIntact`, `WriterExclusive`, `NoPanic`, `WaiterReturns` |
| `qlock_stale_qnext` | 3 processes in `qlock` | | violates `HandoffToWaiter` (finding 1) |
| `emu` | 4 threads at the RWlock; or 2, one of which also sleeps and is interrupted | 30 156 | `OneToken`, `WriterExclusive`, `IntwaitHasSignal`, `WaiterServed`, `SleeperReturns` |
| `proc` | 2 processes, 2 processors, 2 Rendezes, 1 poster of notes | 38 696 | `OneProcessor`, `RendezConsistent`, `NoPanic`, `SleeperRuns` |
| `dis_sched` | 3 interpreters and 1 kernel process, with 2 Progs and `cblock`, or with 1 Prog and a collector that closes files | 209 620 | `WellFormed`, `OneOwner`, `CblockIsWoken`, `AcquirerRuns` |
| `gc_chan` | 2 blocks with a pointer each, 2 variables; or 2 Progs, 1 kernel process, 3 channels (plain, buffered, of the window system), 4 alts | 371 429 | `NoDangling`, `RefCovers`, `GarbageFreed`; `NoMissedMeeting`, `QueuesExact`, `ExactlyOnce`, `InOrder` of the channels |
| `qio_il` | 10 ways to use a queue; or an IL connection with 2 datagrams, 2 packets in the network, window 2, a receive queue with room for 1 | 454 782 | `Accounting`, `ReaderIsWoken`, `QueueBounded`, `IsByteStream`; `InOrder`, `Settles` of IL |
| `qio_two_writers` | 2 writers and a reader | | violates `WriterProceeds` (finding 3) |
| `mount` | 3 processes, chains of up to 2; or 2 processes on a connection that may be lost, chains of up to 3 | 251 486 | `TagSafe`, `GateNotLost`, `ReplyHonoured`, `TransactionEnds` |
| `il_reliable` | 2 datagrams, a receive queue for 2 bytes of data | | violates `Reliable` (finding 4) |
| `ftl` | 3 erase units of 2 blocks, 2 sectors, 1 writer, 1 power failure | 1 277 262 | `Durable`, `NeverFull`, `WriteEnds` |
| `ftl_init` | the same | | violates `Mounts` (finding 2) |

Each module's type invariant is a conjunct of a property of its run: `QueueIntact`, `OneToken`,
`RendezConsistent`, `WellFormed`, `QueuesExact`, `NoDangling`, `Accounting`, `TagSafe`, `InOrder` of
`Il`, `NeverFull`; that of `RWLock` is proved. What the properties say is written
above each of them.

Deadlock is checked except where the system may stop: in `dis_sched` all wait when every Prog is
blocked and every kernel process is in `cblock`; in `ftl` the power may fail and not come back, or
`mkftl` give up. In `gc_chan` the Progs of the channels, and in `qio_il` the IL conversation, may
stop (Progs wait for partners that do not come, or have done their `MaxOps` operations; both ends
are done): there a stuttering step stands for it, and deadlock is checked of the other half.

### Bounds, and why they are enough

* Locks: three processes are needed for a queue of two behind an owner, in which an element
  can be removed from the middle or the end; four for readers and writers alternating in the
  queue while one holds the lock. Everything a lock remembers is bounded by the number of
  processes, so behaviours are not cut off in length.
* `Proc`: two processors are what it takes to run a process that another one is still
  saving; two Rendezes let a late wakeup or note for one sleep meet the next.
* `DisSched`: three interpreters are the one that runs the machine, one that is away with a Prog
  and one that closes a file or waits for work. All of it at once has ten million states, so a
  behaviour has either the second Prog (`Extra`) and `cblock` or a collector that closes files
  (`closing`). The bound on the pool bites only with a fourth interpreter; it is proved for any
  number.
* `DisChan`: three parties let an `alt` be served on one channel while a partner waits on
  another; two operations each are enough for a buffer of two to wrap and for one message to
  overtake another.
* `Gc`: two blocks make a cycle, and `MaxHalt` = 0 leaves an object behind at the first nested
  `destroy`. The safety properties are proved for all sizes.
* `Qio`: limits of 3 to 6 bytes, writes of up to 3 and reads of up to 3 give queues of
  several blocks that are split, partly consumed and put back; `N` = 3 numbers distinguish
  neighbouring bytes. `Cap` bounds the operations by which a queue may grow for ever, among them a
  `qbwrite` that is interrupted in `qflow` and called again. `QueueBounded` is claimed where writers
  call `qwrite`.
* `MountMux`: `MaxChain` and `CrowdChain` bound how often a note interrupts one transaction. There
  are tags for all the chains: `mntralloc` makes a new Mntrpc when none is free, and panics only
  when all tags are in use. Safety is proved for any number of processes and any length of the
  chains, except for `GateNotLost` on a lost connection.
* `Il`: two packets in the network are enough for one to overtake another and, as a packet
  stays until it is lost, for duplicates at any later time; a third that is sent while two are
  under way is lost. A block allocates twice the bytes of its data (in the code, its headers and
  more); `MaxRexmit` = 1 with `Fast` = 0 lets a call made with `fasttimeout` give up one retry
  sooner than one without.
* `Ftl`: two data units and the spare one; two sectors and one block over, so that every other
  write needs a copy.

### Fairness, and what justifies it

A runnable process eventually runs (`rebalance` recalculates the priorities of processes that wait;
the host schedules its threads), code between two blocking points ends, spin locks are eventually
got by those that spin for them, and whoever has a lock releases it. Asking for a lock, posting
a note, a host call's return, closing a queue, dialling or losing a connection, or a failure of
the power is never assumed. Fairness is per process: all that a process does of itself is one
condition, unless something else can keep it from a step. Strong fairness is used where an actor's
step can be disabled and enabled again by others' short critical sections. `WriterProceeds` assumes
that readers come back for more. `TransactionEnds` assumes that the server reads each message and
answers it, by a reply or, for a request that was flushed, by the Rflush; it holds for all processes
of a connection that stays, and for two on one that is lost. `AcquirerRuns` allows that Progs raise
exceptions for ever: `vmachine` sets its count of quanta back after an error in `xec`, so one Prog
that raises and handles an exception in each quantum keeps every `acquire` waiting. `GarbageFreed` assumes that the collector gets
its turns: `vmachine` calls it every 256 slices and `execatidle` until three epochs are complete.
`Settles` assumes the timer process alone, and no delivery of any packet.

## Findings

1. **A stale `qnext` in `qlock`** (`os/port/qlock.c:92`). `qlock` appends the caller without
   `up->qnext = nil`; `eqlock`, `rlock` and `wlock` have it. A process that waited before is queued
   together with the successor it had then, and `qunlock` ends up making ready a process that
   does not wait. The `native_locks` run therefore has no two processes in `qlock`.
2. **A device that cannot be started again** (`os/port/devftl.c:760`). A copied unit gets the id of
   the original before the original is erased. If the power fails in between, `mkftl` finds two
   units with one id and no transfer unit, drops the second and gives up, although every sector is
   there and the dropped unit could be the transfer unit.
3. **A writer asleep on an empty queue** (`os/port/qio.c:1095`). `qflow` sets `Qflow` before it takes
   `q->wlock` and sleeps. A reader that drains the queue in between clears the flag and wakes
   nobody; another writer fills the queue, the first sleeps with `Qflow` clear, and if reads bring
   the queue below its limit before the other writer tests it, nobody sets the flag again: the
   reader drains the queue without a wakeup. `man/10/qio` says that the writer is then allowed to
   proceed.
4. **A datagram acknowledged and thrown away** (`os/ip/il.c:920`). `ilpullup` advances `recvd` before
   `qpass` finds that the receive queue is full and frees the datagram. The test that should prevent
   it (`il.c:740`) counts bytes of data, `qpass` bytes allocated, so it happens to a slow reader
   even on a network that loses nothing. `man/3/ip` says that IL delivers datagrams reliably.

Seen in the models outside the runs above, with instances larger than theirs or properties that
the code does not promise:

* three processes on a connection that is lost: the process that `mntgate` woke is interrupted
  before it takes `m->rip`, cannot send its flush and leaves without passing the gate on
  (`devmnt.c:1029`);
* IL: a caller that dials again with a start id below its last one frees datagrams on an
  acknowledgement of the earlier connection (`il.c:519`);
* flash: a second power failure can bring an older value of a sector back, since a restart leaves
  both blocks of an interrupted write in the maps (`devftl.c:480`); with two writers a copy may
  make a block free that a writer has just been given (`devftl.c:885`);
* an `alt` that names a channel twice in one direction leaves the channel's queue without its
  node (`xec.c:998`); one that sends and receives on a channel where somebody else waits first
  escapes the test for a send to oneself (`alt.c:117`).

Met on the way and not modelled: a note posted between `eqlock`'s test of `notepending` and its
`state = Queueing` is acted on only when the lock is handed over; `qflush` of a queue with a
sleeping process reader, and a coalescing `qread` that drops empty blocks, leave the flow-control
flags as they are; two writes longer than `Maxatomic` can alternate, where `man/10/qio` says they
do not; `qproduce` queues data on a closed queue and forgets its block when the queue is full;
`qhasdata` together with a reader puts two processes on one Rendez; `copyunit` leaves a partly
written transfer unit behind when the flash reports an error; ids of IL are compared without regard
to wrapping; `exflushed` (`os/port/exportfs.c:398`) returns with the Export locked; `newproc`
(`os/port/proc.c:711`) clears `kp` of its caller instead of the new process; nothing increments the
`nchild` that `pwait` tests; `addbroken` (`proc.c:1131`), `piddel` (`proc.c:1976`) and `twakeup`
against `timerdel` (`proc.c:908`, `portclock.c:138`) act on state that another processor may be
changing.

## What is proved

The theorems hold for every value of the constants that the named assumptions allow; TLC evaluates
the assumptions on the instances. Each proof has the same plan: an invariant `IInv` that is
inductive, a lemma for the initial states, a lemma for every action, and theorems that draw the
checked properties from it. The invariants were themselves checked by TLC on the instances of the
runs before they were proved. Outside the native lock, queues appear in the invariants only
through what they hold (`Has`) and that they hold it once (`Once`). The lemmas on how joining at
either end, leaving at the head and leaving from the middle change these head the modules that
need them (`EmuRWLockProof`, `DisSchedSteps` and `MountMuxProof`); those of `MountMuxProof` also
cover queues of pairs that rise (`Rising`).

| theorem | property | module |
|---|---|---|
| `Exclusion`, `PanicFree`, `TypeCorrect`, `Counting`, `NoWaiterLeftBehind` | `WriterExclusive`, `NoPanic` of `RWLock`, and more | `RWLockProof` |
| `Exclusive`, `Consistent`, `PanicFree` | `OneProcessor`, `RendezConsistent`, `NoPanic` of `Proc` | `ProcProof` |
| `TokensMatch`, `WriterAlone`, `SignalAwaited` | `OneToken`, `WriterExclusive`, `IntwaitHasSignal` of `Emu` | `EmuProof`, from the steps in `EmuRWLockProof` |
| `Ownership`, `Formed`, `CblockWakes` | `OneOwner`, `WellFormed`, `CblockIsWoken` of `DisSched` | `DisSchedProof`, with steps in `DisSchedSteps` |
| `StorageSafe`, `CountsCover` | `NoDangling`, `RefCovers` of `Gc` | `GcProof` |
| `TagsSafe`, `RepliesCount`, `GateKept` | `TagSafe`, `ReplyHonoured`, and `GateNotLost` while the connection stays, of `MountMux` | `MountMuxProof` |

### The native reader/writer lock

`RWLockProof` proves, for every finite set of processes (`RWLockAssumption`: `Procs` is finite and
does not contain `Nil`), that the native reader/writer lock keeps its types (`TypeCorrect`), gives
writers exclusive access (`Exclusion`), counts its readers exactly (`Counting`), is never free
while somebody waits (`NoWaiterLeftBehind`) and cannot reach a panic of `runlock` or `wunlock`
(`PanicFree`).

None of these is inductive alone. A hand-off makes a process the owner before it runs, and
`wunlock` gives the lock to readers while `q->writer` is still set; exclusion then depends on what
is in the queue, and what is in the queue depends on the counts. `IInv` puts these together:

* `Coherent`: a process sleeps exactly where its `state` says; `q->use` belongs to the waker;
* `QueueOK`: the queue holds waiting processes, each once;
* `HandoffOK`: at most one hand-off is under way, to a waiting writer that is off the queue;
* `WriterOK`: `q->writer` is set exactly while one process writes, is being given the lock for
  writing, or wakes readers, and then nobody else does; with a writer there are no readers;
* `ReadersOK`: `q->readers` is the number of processes that have the lock for reading;
* `WaitingOK`: a free lock has no queue; behind readers the first in the queue is a writer;
  while readers are being woken there is one more to wake or one that has been.

There is one lemma per action, with a step per conjunct, and lemmas about `Append`, `Tail` and
the cardinality of the set of readers.

### The native scheduler, sleep, wakeup and postnote

`ProcProof` proves, for any sets of processes, processors, Rendezes and posters of notes
(`ProcAssumption`: a Rendez has one sleeper; `Nil` is none of them, nor a holder of a lock), that a
process is on one processor at a time (`Exclusive`), that `r->p` and `p->r` name each other exactly
while the process is in `Wakeme` and the run queues hold exactly the ready processes
(`Consistent`), and that neither `wakeup` nor `postnote` panics (`PanicFree`). The invariant:

* `CpuOK`: where a processor is in its scheduler says what `state` and `mach` its process has;
  `mach` is set from the moment a process runs until its context is saved. A process is ready
  before it is saved, so `OneProcessor` needs `mach`, and `mach` is right only because `up` is
  unique;
* `RendOK`: the two pointers, and that only a Rendez's own sleeper is named by it;
* `LockOK`: what a holder of one lock relies on while it waits for the other: a `sleep` has its
  Rendez locked, a `wakeup` that kept the lock has somebody to wake, a `postnote` that kept
  `p->rlock` has somebody to pull out. This makes the panics unreachable.

### The hosted locks and Sleep

For any finite set of threads (`EmuSleepAssumption`) `EmuProof` proves of `Emu`, in which the lock
and `Sleep` share each thread's semaphore, that a thread that blocks has one token or one `osready`
to come and never two (`TokensMatch`), that a writer is alone and the count of readers right
(`WriterAlone`), and that `intwait` is set exactly while a signal that clears it is on its way
(`SignalAwaited`). Two invariants are joined:

* `LockInv` (`EmuRWLockProof`): the queues hold waiters without a token, each once; a waiter is
  queued, has its token, or is the `target` of one `qunlock`; `x` has at most one owner, counted
  from the hand-off and not from the moment it runs; `k` is locked exactly while there are readers,
  the last of them is draining, or there is a writer, and these exclude each other; who holds the
  spin locks. The steps are proved for a lock whose semaphores others use too, as long as a thread
  comes to it without a token;
* `SleepInv`: a Rendez names its thread from the commitment to sleep until the token has been
  given; one `swiproc` at a time is about to signal a thread, and none while a signal is on its
  way;
* `ApartOK`: a thread is not in both at once, and in neither it has no token. This is what each side
  owes the other. `CountOK`: `readers` is a cardinality.

### The Dis scheduler

For any finite numbers of Progs and interpreters and any number of kernel processes
(`DisSchedAssumption`: the sets are disjoint, `Boot` is an interpreter) one process owns the
machine, or none and it is `idle` and about to have an interpreter (`Ownership`); a Prog is in one
place, whoever runs the machine finds its own Prog at the head of the run queue, in the collector's
turn too, and there are at most two interpreters more than Progs (`Formed`); a kernel process asleep in `cblock` can be woken (`CblockWakes`). The
owner is counted from the moment it is taken off a queue (`Owns`), before it has its token. `OwnOK`
is kept only together with `QueuesOK` and `TokenOK` (a process on a queue has no token, one off it
has) and with `HeadOK`, `PlaceOK` and `SavedOK` (what `release` saves is what `acquire` puts back).
`BornOK` bounds the pool by an injection of the interpreters into the Progs and two more, because
an interpreter that is away from the machine has a Prog of its own, unless it closes a file in the
collector's turn; `GcOK` says that one does so at a time, as `gclock` in `rungc` sees to.

### The storage of the Dis machine

`GcProof` proves, for any number of blocks, variables and fields (`GcAssumption`: they are finite,
and `Tmp` is not a variable), that no block is freed while a program can reach it (`StorageSafe`)
and that the count of an object that is not garbage covers the references that will be counted
down (`CountsCover`). The second is what makes the first true of `destroy`: a sweep frees an object
without counting down what it refers to, so counts may be too high, and must never be too low.

Reachability is not inductive: it does not say what the collector still has to do. The
invariant (`Invariance`) is about colours instead:

* `Closed`: frames, pointers about to be destroyed and objects that are not about to be swept refer
  to allocated objects that are not about to be swept. This gives `NoDangling` at once;
* `TriColor`: frames and traced objects refer to marked objects. This is what `Setmark` in every
  instruction keeps, and why what is unmarked at the end of an epoch is garbage;
* `Behind`: blocks the pass has gone by are not to be swept, and not to be traced unless
  `nprop` is set. At the end of a pass with `nprop` clear there is therefore no propagator, and
  with the change of colours `TriColor` turns into `Closed` for the next epoch;
* `PendOK`: what `destroy` has still to visit lies in freed objects, and free blocks are clear;
* `RefCovers` itself, whose preservation is counted with lemmas on cardinalities.

### The mount driver

For any number of processes and any bound on the flushes of a transaction (`MountMuxAssumption`:
`Nil` is no process and no tag) `MountMuxProof` proves that a tag is free only when the server can
no longer answer it and `m->queue` holds exactly what waits (`TagsSafe`), that a reply given before
the Rflush counts (`RepliesCount`), that one process reads at a time and, while the connection
stays, a sleeper without a reader has somebody on the way to the gate (`GateKept`).

The process that waits for the reply to the last flush of its chain frees all the tags of the chain
when it comes, so the proof must show that this reply leaves nothing of the chain under way. The
order does it: of one process's messages, replies on the connection come before what the server
holds, and that before what is on its way to the server (`OrderOK`), and all of these come after
what is done (`LiveOK`). The other parts:

* `ChainOK`, `FreeOK`: the chain of `p` has the numbers 1 to its length, the rest is free, and the
  queue has what is not done, but for what is about to be linked in;
* `AnsweredOK`: a reply to a request in use has been delivered or is on the connection;
* `MessageOK`: a flush names the request of its chain, and a lost connection carries nothing to the
  server;
* `HeirOK`: without a reader, a sleeper has an heir that will come to the gate rather than find its
  reply; a process that has still to send its request is none, as the request may be too big;
* on a lost connection the order is claimed only of transactions begun before the loss (`Honest`):
  later ones use tags that the server may have answered, as `TagSafe` allows.

Almost all of it is about one process (`Mine`). A step that leaves a process alone keeps what is
said of it (`Keeps`), so every lemma has one process to look at.

### Only model-checked

* Liveness: `WaiterReturns`, `WaiterServed`, `SleeperReturns`, `SleeperRuns`, `AcquirerRuns`,
  `TransactionEnds`, `GarbageFreed`, `Settles`, `WriteEnds`. Fairness is beyond
  the prover.
* What is defined by recursion or a fold over data, which would need induction: `OneOwner` and
  `QueueIntact` of `QLock`, whose queue is followed through `qnext` (`Walk`); `Accounting`,
  `QueueBounded` and `IsByteStream` of `Qio`, which add up and join blocks; the properties of
  `DisChan`, whose queues lose all entries of a process at once (`SelectSeq`).
* What depends on the instance and is false beyond it (see Findings): `GateNotLost` on a lost
  connection, `InOrder` of `Il`, `Durable` and `NeverFull` of `Ftl`, and
  `QueuesExact` of `DisChan` for an `alt` that names a channel twice. `ReaderIsWoken` of `Qio` is
  claimed for the run's ways of use only.

## What is not modelled

The repository has some 900 000 lines, most of them applications, compilers, fonts, drivers,
graphics and copies of the same code for a dozen machines. The models cover the parts in which
order and failure matter, a fraction of a percent of those lines; the definitions of `PROJECT.json`
say which.

Of the modelled parts: priorities, affinity and deadlines of the scheduler; `qbypass`,
`qcopy` and the operations on block lists outside a queue; version negotiation, attach, walk,
read-ahead, write-behind and malformed replies of the mount driver; process groups of Progs; `altgone`; `marklist`'s
second look at the elements of a list, and the frames of the Dis machine, which are a fixed set of
variables in `Gc`; IL's round-trip estimate, checksums and hash table, and the interleaving of a
packet with a timer tick or a write on the same conversation, which take no common lock and are
one step each in `Il`; partitions, wear levelling and device errors of the flash. Time does not
appear: a timeout is a step that may come at any moment. Memory is sequentially consistent, as the
spin locks with their fences make it for data they protect; the unlocked reads that the code makes
are separate steps.

Of the parts without a model, timers and alarms, process creation and exit, channels and name
spaces, and the export of a name space have the kind of hazard that a model would reach; they
would be next. The interpreter and the compilers, the memory pools, most drivers, TCP,
cryptography, graphics, tools and applications are sequential, specific to a device, or too large:
`PROJECT.json` gives the reason for each.
