---------------------------- MODULE DisSchedSteps -----------------------------
(***************************************************************************)
(* The scheduler of the Dis virtual machine, for any number of interpreter *)
(* processes, kernel processes and Progs: the invariant that orders it,    *)
(* and the steps that take the machine, keep it or are made without it.    *)
(* The steps that give it away, and what follows, are in DisSchedProof.    *)
(***************************************************************************)
EXTENDS DisSched, TLAPS

\* z is on the queue q; nothing is on q twice.
Has(q, z) == \E i \in 1 .. Len(q) : q[i] = z
Once(q) == \A i, j \in 1 .. Len(q) : q[i] = q[j] => i = j

\* An empty queue.
LEMMA EmptyQueue == Once(<<>>) /\ \A z : ~Has(<<>>, z)
  BY DEF Once, Has

\* One joins at the tail.
LEMMA JoinTail ==
    ASSUME NEW S, NEW q \in Seq(S), NEW p \in S
    PROVE  /\ Append(q, p) \in Seq(S) /\ Append(q, p) # <<>>
           /\ \A z : Has(Append(q, p), z) <=> Has(q, z) \/ z = p
           /\ Once(q) /\ ~Has(q, p) => Once(Append(q, p))
           /\ Head(Append(q, p)) = IF q = <<>> THEN p ELSE Head(q)
<1> DEFINE a == Append(q, p)
<1>1. /\ a \in Seq(S) /\ Len(a) = Len(q) + 1 /\ a[Len(q) + 1] = p /\ Len(q) \in Nat
      /\ \A i \in 1 .. Len(q) : a[i] = q[i]
  OBVIOUS
<1>2. \A z : Has(a, z) <=> Has(q, z) \/ z = p
  <2>1. ASSUME NEW i \in 1 .. Len(a) PROVE i = Len(q) + 1 \/ i \in 1 .. Len(q)  BY <1>1
  <2>2. Len(q) + 1 \in 1 .. Len(a) /\ \A i \in 1 .. Len(q) : i \in 1 .. Len(a)  BY <1>1
  <2> HIDE DEF a
  <2> QED  BY <1>1, <2>1, <2>2 DEF Has
<1>3. Once(q) /\ ~Has(q, p) => Once(a)
  <2>1. ASSUME NEW i \in 1 .. Len(a) PROVE i = Len(q) + 1 \/ i \in 1 .. Len(q)  BY <1>1
  <2> HIDE DEF a
  <2> QED  BY <1>1, <2>1 DEF Has, Once
<1>4. a # <<>> /\ Head(a) = IF q = <<>> THEN p ELSE Head(q)
  <2>1. a # <<>> /\ Head(a) = a[1]  OBVIOUS
  <2>2. CASE q = <<>>  BY <1>1, <2>1, <2>2
  <2>3. CASE q # <<>>  BY <1>1, <2>1, <2>3
  <2> QED  BY <2>1, <2>2, <2>3
<1> QED  BY <1>1, <1>2, <1>3, <1>4

\* One joins at the head.
LEMMA JoinHead ==
    ASSUME NEW S, NEW q \in Seq(S), NEW p \in S
    PROVE  /\ <<p>> \o q \in Seq(S) /\ <<p>> \o q # <<>> /\ Head(<<p>> \o q) = p
           /\ Tail(<<p>> \o q) = q
           /\ \A z : Has(<<p>> \o q, z) <=> Has(q, z) \/ z = p
           /\ Once(q) /\ ~Has(q, p) => Once(<<p>> \o q)
<1> DEFINE a == <<p>> \o q
<1>1. /\ a \in Seq(S) /\ Len(a) = Len(q) + 1 /\ a[1] = p /\ Len(q) \in Nat
      /\ \A i \in 1 .. Len(q) : a[i + 1] = q[i]
  OBVIOUS
<1>2. ASSUME NEW i \in 1 .. Len(a) PROVE i = 1 \/ (i - 1 \in 1 .. Len(q) /\ a[i] = q[i - 1])
  <2>1. i = 1 \/ i - 1 \in 1 .. Len(q)  BY <1>1
  <2>2. i = (i - 1) + 1  OBVIOUS
  <2> HIDE DEF a
  <2> QED  BY <1>1, <2>1, <2>2
<1>3. 1 \in 1 .. Len(a) /\ \A i \in 1 .. Len(q) : i + 1 \in 1 .. Len(a)  BY <1>1
<1>4. ASSUME NEW z PROVE Has(a, z) <=> Has(q, z) \/ z = p
  <2> HIDE DEF a
  <2>1. ASSUME NEW i \in 1 .. Len(a), a[i] = z PROVE Has(q, z) \/ z = p
    BY <1>1, <1>2, <2>1 DEF Has
  <2>2. ASSUME NEW i \in 1 .. Len(q), q[i] = z PROVE Has(a, z)  BY <1>1, <1>3, <2>2 DEF Has
  <2>3. Has(a, p)  BY <1>1, <1>3 DEF Has
  <2> QED  BY <2>1, <2>2, <2>3 DEF Has
<1>5. ASSUME Once(q), ~Has(q, p) PROVE Once(a)
  <2> HIDE DEF a
  <2>1. ASSUME NEW i \in 1 .. Len(a), a[i] = p PROVE i = 1
    <3>1. CASE i # 1
      <4>1. i - 1 \in 1 .. Len(q) /\ q[i - 1] = p  BY <1>2, <2>1, <3>1
      <4> QED  BY <1>5, <4>1, Zenon DEF Has
    <3> QED  BY <3>1
  <2>2. ASSUME NEW i \in 1 .. Len(a), NEW j \in 1 .. Len(a), a[i] = a[j], i # 1, j # 1
        PROVE  i = j
    <3>1. /\ i - 1 \in 1 .. Len(q) /\ a[i] = q[i - 1]
          /\ j - 1 \in 1 .. Len(q) /\ a[j] = q[j - 1]
      BY <1>2, <2>2
    <3>2. i - 1 = j - 1  BY <1>5, <2>2, <3>1, Zenon DEF Once
    <3> QED  BY <3>2
  <2> QED  BY <1>1, <2>1, <2>2 DEF Once
<1>6. a # <<>> /\ Head(a) = p  OBVIOUS
<1>7. Tail(a) = q  BY <1>1
<1> QED  BY <1>1, <1>4, <1>5, <1>6, <1>7, Zenon

\* The first leaves.
LEMMA LeaveHead ==
    ASSUME NEW S, NEW q \in Seq(S), q # <<>>
    PROVE  /\ Head(q) \in S /\ Tail(q) \in Seq(S) /\ Has(q, Head(q))
           /\ \A z : Has(q, z) <=> Has(Tail(q), z) \/ z = Head(q)
           /\ Once(q) => Once(Tail(q)) /\ ~Has(Tail(q), Head(q))
<1> DEFINE t == Tail(q)
<1>1. /\ Head(q) \in S /\ t \in Seq(S) /\ Len(q) \in Nat /\ Len(q) > 0
      /\ Len(t) = Len(q) - 1 /\ Head(q) = q[1]
  OBVIOUS
<1>2. \A i \in 1 .. Len(t) : i + 1 \in 1 .. Len(q) /\ t[i] = q[i + 1]
  BY <1>1
<1>3. ASSUME NEW i \in 1 .. Len(q) PROVE i = 1 \/ (i - 1 \in 1 .. Len(t) /\ q[i] = t[i - 1])
  <2>1. i = 1 \/ i - 1 \in 1 .. Len(t)  BY <1>1
  <2>2. i = (i - 1) + 1  OBVIOUS
  <2> HIDE DEF t
  <2> QED  BY <1>2, <2>1, <2>2
<1>4. 1 \in 1 .. Len(q)  BY <1>1
<1>5. ASSUME NEW z PROVE Has(q, z) <=> Has(t, z) \/ z = Head(q)
  <2> HIDE DEF t
  <2>1. ASSUME NEW i \in 1 .. Len(q), q[i] = z PROVE Has(t, z) \/ z = Head(q)
    BY <1>1, <1>3, <2>1 DEF Has
  <2>2. ASSUME NEW i \in 1 .. Len(t), t[i] = z PROVE Has(q, z)  BY <1>2, <2>2 DEF Has
  <2>3. Has(q, Head(q))  BY <1>1, <1>4 DEF Has
  <2> QED  BY <2>1, <2>2, <2>3 DEF Has
<1>6. ASSUME Once(q) PROVE Once(t) /\ ~Has(t, Head(q))
  <2> HIDE DEF t
  <2>1. ASSUME NEW i \in 1 .. Len(t), NEW j \in 1 .. Len(t), t[i] = t[j] PROVE i = j
    <3>1. i + 1 = j + 1  BY <1>2, <1>6, <2>1 DEF Once
    <3> QED  BY <3>1
  <2>2. ASSUME NEW i \in 1 .. Len(t), t[i] = Head(q) PROVE FALSE
    <3>1. i + 1 = 1  BY <1>1, <1>2, <1>4, <1>6, <2>2 DEF Once
    <3> QED  BY <3>1
  <2> QED  BY <2>1, <2>2 DEF Once, Has
<1>7. Has(q, Head(q))  BY <1>1, <1>4 DEF Has
<1> QED  BY <1>1, <1>5, <1>6, <1>7

-----------------------------------------------------------------------------
\* Who owns the machine: it runs it, or was taken off a queue and is about to.
Owns(p) == \/ pc[p] \in {"loop", "isleep", "irend", "yield", "xec", "gc", "vm"}
           \/ (pc[p] \in Queued /\ ~Has(vmq, p))
           \/ (pc[p] \in {"idle", "new"} /\ ~Has(idlevmq, p))

\* Interpreters and kernel processes have places of their own in the code.
VmPCs == {"unborn", "startup", "loop", "isleep", "irend", "yield", "idle", "new", "xec", "gc",
          "out"} \cup Queued
KindOK == /\ \A v \in Vms : pc[v] \in VmPCs
          /\ \A k \in Kprocs : pc[k] \in {"out", "vm", "csleep", "cwait", "cback"} \cup Queued

\* The queues hold processes that wait and have no token, each once.
QueuesOK ==
    /\ Once(vmq) /\ Once(idlevmq)
    /\ \A p \in Procs : Has(vmq, p) => pc[p] \in Queued /\ sem[p] = 0
    /\ \A p \in Procs : Has(idlevmq, p) => pc[p] \in {"idle", "new"} /\ sem[p] = 0

\* A token is for a process that waits, and who waits without one is where it will be
\* found: on a queue, in isched.irend, or with its addrun set.
TokenOK == \A p \in Procs :
    /\ pc[p] \in Queued => Has(vmq, p) \/ sem[p] = 1
    /\ pc[p] \in {"idle", "new"} => Has(idlevmq, p) \/ sem[p] = 1
    /\ pc[p] = "irend" => irend = p \/ sem[p] = 1
    /\ irend = p => pc[p] = "irend" /\ sem[p] = 0
    /\ pc[p] = "cwait" => (p \in addrun <=> sem[p] = 0)
    /\ p \in addrun => pc[p] \in {"csleep", "cwait", "cback"} \cup Queued
    /\ sem[p] = 1 => pc[p] \in Queued \cup {"idle", "new", "irend", "cwait"}

\* The machine has one owner, or is idle and an interpreter is being made for it; one
\* is made at a time.
OwnOK ==
    /\ \A p, q \in Procs : Owns(p) /\ Owns(q) => p = q
    /\ idle <=> \A p \in Procs : ~Owns(p)
    /\ idle => vmq = <<>> /\ idlevmq = <<>> /\ creating
    /\ creating <=> \E v \in Vms : pc[v] = "startup"
    /\ \A u, v \in Vms : pc[u] = "startup" /\ pc[v] = "startup" => u = v

\* A Prog is on the run queue, in one iprog, or off, and in one of these only.
PlaceOK ==
    /\ Once(runq)
    /\ \A g \in Progs : g \in off => ~Has(runq, g)
    /\ \A v \in Vms : iprog[v] # Nil => ~Has(runq, iprog[v]) /\ iprog[v] \notin off
    /\ \A u, v \in Vms : iprog[u] # Nil /\ iprog[u] = iprog[v] => u = v
    /\ \A g \in Progs : g \in off \/ Has(runq, g) \/ \E v \in Vms : iprog[v] = g

\* An interpreter has a saved Prog from release to the end of acquire, but for the release
\* in the collector's turn.
SavedOK == \A v \in Vms :
    /\ iprog[v] # Nil <=> pc[v] \in {"out"} \cup Queued /\ type[v] = "Interp"
    /\ iprog[v] # Nil => cur[v] = iprog[v]

\* The collector's turn lasts until the interpreter has the machine again, and one
\* interpreter at a time is without it in its turn.
GcOK ==
    /\ \A v \in Vms : type[v] # "Interp" => pc[v] \in {"gc", "out"} \cup Queued
    /\ \A v \in Vms : pc[v] = "gc" => type[v] # "Interp"
    /\ \A u, v \in Vms : /\ type[u] # "Interp" /\ pc[u] # "gc"
                         /\ type[v] # "Interp" /\ pc[v] # "gc"
                         => u = v

\* Who runs the machine has its own Prog at the head of the run queue, and the up->prog of
\* no other process is there.
HeadOK ==
    /\ \A v \in Vms : pc[v] = "xec" => runq # <<>> /\ Head(runq) = cur[v] /\ cur[v] \in Progs
    /\ \A p \in Procs : Has(runq, p) => pc[p] \in {"gc", "vm"}
    /\ \A p \in Procs : pc[p] \in {"gc", "vm"} => runq # <<>> /\ Head(runq) = p

\* At most two interpreters more than there are Progs: the interpreters that were made have
\* Progs of their own but for the one that runs the machine and the one that closes a file
\* for the collector (Nil and Boot stand for theirs).
BornOK == \E f \in [Vms \ Unborn -> Progs \cup {Nil, Boot}] :
    \A u, v \in Vms \ Unborn : f[u] = f[v] => u = v

IInv == /\ TypeOK /\ KindOK /\ QueuesOK /\ TokenOK /\ OwnOK /\ PlaceOK /\ SavedOK /\ GcOK
        /\ HeadOK /\ BornOK

-----------------------------------------------------------------------------
\* A step that leaves the Progs where they are.
LEMMA PlaceFrame == ASSUME IInv, UNCHANGED <<runq, off, iprog>> PROVE PlaceOK'
  BY DEF IInv, PlaceOK

\* A step that only puts an up->prog on the run queue or takes one off.
LEMMA PlaceSame ==
    ASSUME IInv, UNCHANGED <<off, iprog>>, Once(runq'),
           \A z \in Progs : Has(runq', z) <=> Has(runq, z)
    PROVE  PlaceOK'
<1>1. \A v \in Vms : iprog[v] # Nil => iprog[v] \in Progs  BY DEF IInv, TypeOK
<1> QED  BY <1>1 DEF IInv, PlaceOK

\* A step that makes no interpreter.
LEMMA BornFrame ==
    ASSUME IInv, \A v \in Vms : pc'[v] = "unborn" <=> pc[v] = "unborn" PROVE BornOK'
<1>1. Unborn' = Unborn  BY DEF Unborn
<1> QED  BY <1>1 DEF IInv, BornOK

\* A function that changes at one place.
LEMMA At ==
    ASSUME NEW S, NEW T, NEW f \in [S -> T], NEW x \in S, NEW y
    PROVE  /\ [f EXCEPT ![x] = y][x] = y
           /\ \A z \in S : z # x => [f EXCEPT ![x] = y][z] = f[z]
           /\ y \in T => [f EXCEPT ![x] = y] \in [S -> T]
  OBVIOUS

PCs == {"unborn", "startup", "loop", "isleep", "irend", "yield", "idle", "new",
        "xec", "gc", "out", "vm", "csleep", "cwait", "cback"} \cup Queued

\* The initial states.
LEMMA InitKeeps == Init => IInv
<1> SUFFICES ASSUME Init PROVE IInv  OBVIOUS
<1> USE DisSchedAssumption DEF Init
<1>1. PICK g \in Progs : runq = <<g>> /\ off = Progs \ {g}  OBVIOUS
<1>2. /\ \A v \in Vms : /\ pc[v] = IF v = Boot THEN "loop" ELSE "unborn"
                        /\ iprog[v] = Nil /\ cur[v] = Nil /\ type[v] = "Interp"
      /\ \A k \in Kprocs : pc[k] = "out"
      /\ \A p \in Procs : sem[p] = 0 /\ (p \in Vms \/ p \in Kprocs)
  BY DEF Procs
<1>3. TypeOK
  <2>1. idle \in BOOLEAN /\ creating \in BOOLEAN  BY Zenon
  <2>2. runq \in Seq(Progs \cup Procs) /\ off \subseteq Progs  BY <1>1
  <2>3. pc \in [Procs -> PCs]  BY DEF PCs
  <2>4. /\ iprog \in [Vms -> Progs \cup {Nil}] /\ cur \in [Vms -> Progs \cup {Nil}]
        /\ cycles \in [Vms -> 0 .. 2] /\ sem \in [Procs -> 0 .. 1]
        /\ type \in [Vms -> {"Interp", "IdleGC", "BusyGC"}]
    OBVIOUS
  <2> QED  BY <2>1, <2>2, <2>3, <2>4 DEF TypeOK, PCs
<1>4. KindOK /\ QueuesOK /\ TokenOK
  <2>1. KindOK  BY <1>2 DEF KindOK, VmPCs
  <2>2. QueuesOK  BY EmptyQueue DEF QueuesOK
  <2>3. TokenOK  BY <1>2 DEF TokenOK, Queued
  <2> QED  BY <2>1, <2>2, <2>3
<1>5. OwnOK  BY <1>2, Zenon DEF OwnOK, Owns, Queued, Procs
<1>6. \A z : Has(runq, z) <=> z = g  BY <1>1 DEF Has
<1>7. PlaceOK  BY <1>1, <1>2, <1>6 DEF PlaceOK, Once
<1>8. SavedOK /\ GcOK /\ HeadOK
  <2>1. SavedOK /\ GcOK  BY <1>2 DEF SavedOK, GcOK, Queued
  <2>2. g \notin Procs  BY DEF Procs
  <2>3. HeadOK  BY <1>2, <1>6, <2>2 DEF HeadOK, Procs
  <2> QED  BY <2>1, <2>3
<1>9. BornOK
  <2>1. Vms \ Unborn = {Boot}  BY <1>2 DEF Unborn
  <2>2. [x \in Vms \ Unborn |-> Nil] \in [Vms \ Unborn -> Progs \cup {Nil, Boot}]  OBVIOUS
  <2> QED  BY <2>1, <2>2, Zenon DEF BornOK
<1> QED  BY <1>3, <1>4, <1>5, <1>7, <1>8, <1>9 DEF IInv

\* The end of acquire, with nobody else in the machine: the Prog of the process becomes
\* the head of the run queue.
LEMMA EnterKeeps ==
    ASSUME IInv, NEW p \in Procs, pc[p] \in {"out", "cback"} \cup Queued, Enter(p),
           UNCHANGED <<off, cur, type>>, \A q \in Procs : q # p => ~Owns(q)
    PROVE  /\ runq' \in Seq(Progs \cup Procs) /\ iprog' \in [Vms -> Progs \cup {Nil}]
           /\ pc' \in [Procs -> PCs] /\ pc'[p] \in {"xec", "gc", "vm"}
           /\ \A q \in Procs : q # p => pc'[q] = pc[q]
           /\ KindOK' /\ PlaceOK' /\ SavedOK' /\ GcOK' /\ HeadOK' /\ BornOK'
<1> USE DisSchedAssumption
<1>1. /\ runq \in Seq(Progs \cup Procs) /\ iprog \in [Vms -> Progs \cup {Nil}]
      /\ pc \in [Procs -> PCs]
  BY DEF IInv, TypeOK, PCs
<1>2. (p \in Vms \/ p \in Kprocs) /\ \A q : q \in Procs => q \notin Progs  BY DEF Procs
<1>3. \A q \in Procs : pc[q] \notin {"xec", "gc", "vm"} /\ ~Has(runq, q)
  BY DEF IInv, HeadOK, Owns, Queued
<1>4. \A v \in Vms : v \in Procs /\ v \notin Kprocs  BY DEF Procs
<1>5. CASE p \in Interps
  <2>1. PICK g : g = iprog[p]  OBVIOUS
  <2>2. /\ pc' = [pc EXCEPT ![p] = "xec"] /\ iprog' = [iprog EXCEPT ![p] = Nil]
        /\ runq' = <<g>> \o runq /\ p \in Vms /\ type[p] = "Interp"
    BY <1>5, <2>1 DEF Enter, Goto, Interps
  <2>3. pc[p] \in {"out"} \cup Queued  BY <2>2 DEF IInv, KindOK, VmPCs, Queued
  <2>4. g \in Progs /\ g # Nil /\ cur[p] = g /\ ~Has(runq, g) /\ g \notin off
    BY <1>1, <2>1, <2>2, <2>3 DEF IInv, SavedOK, PlaceOK
  <2>5. /\ runq' \in Seq(Progs \cup Procs) /\ runq' # <<>> /\ Head(runq') = g
        /\ \A z : Has(runq', z) <=> Has(runq, z) \/ z = g
        /\ Once(runq) => Once(runq')
    BY <1>1, <2>2, <2>4, JoinHead
  <2>6. /\ pc'[p] = "xec" /\ pc' \in [Procs -> PCs]
        /\ \A q \in Procs : q # p => pc'[q] = pc[q]
        /\ iprog'[p] = Nil /\ iprog' \in [Vms -> Progs \cup {Nil}]
        /\ \A v \in Vms : v # p => iprog'[v] = iprog[v]
    BY <1>1, <2>2 DEF PCs
  <2>7. KindOK'  BY <1>2, <1>3, <1>4, <2>2, <2>6 DEF IInv, KindOK, VmPCs, Procs
  <2>8. PlaceOK'  BY <2>1, <2>2, <2>4, <2>5, <2>6 DEF IInv, PlaceOK
  <2>9. SavedOK'  BY <1>4, <2>2, <2>6 DEF IInv, SavedOK, Queued
  <2>10. GcOK'  BY <1>4, <2>2, <2>3, <2>6 DEF IInv, GcOK, Queued
  <2>11. HeadOK'
    <3>1. \A q \in Procs : ~Has(runq', q) /\ pc'[q] \notin {"gc", "vm"}
      BY <1>2, <1>3, <2>4, <2>5, <2>6
    <3> QED  BY <1>3, <1>4, <2>4, <2>5, <2>6, <3>1 DEF HeadOK
  <2>12. BornOK'  BY <1>4, <2>3, <2>6, BornFrame DEF Queued
  <2> QED  BY <2>5, <2>6, <2>7, <2>8, <2>9, <2>10, <2>11, <2>12
<1>6. CASE p \notin Interps
  <2>1. PICK a \in {"gc", "vm"} : pc' = [pc EXCEPT ![p] = a] /\ (a = "gc" <=> p \in Vms)
    BY <1>6 DEF Enter, Goto
  <2>2. iprog' = iprog /\ runq' = <<p>> \o runq /\ (p \in Vms => type[p] # "Interp")
    BY <1>6 DEF Enter, Interps
  <2>3. /\ runq' \in Seq(Progs \cup Procs) /\ runq' # <<>> /\ Head(runq') = p
        /\ \A z : Has(runq', z) <=> Has(runq, z) \/ z = p
        /\ Once(runq) => Once(runq')
    BY <1>1, <1>3, <2>2, JoinHead
  <2>4. /\ pc'[p] = a /\ pc' \in [Procs -> PCs]
        /\ \A q \in Procs : q # p => pc'[q] = pc[q]
    BY <1>1, <2>1 DEF PCs
  <2>5. KindOK'  BY <1>2, <1>4, <2>1, <2>4 DEF IInv, KindOK, VmPCs, Procs
  <2>6. PlaceOK'
    <3>1. Once(runq') /\ \A z \in Progs : Has(runq', z) <=> Has(runq, z)
      BY <1>2, <2>3 DEF IInv, PlaceOK
    <3> QED  BY <2>2, <3>1, PlaceSame
  <2>7. SavedOK'  BY <1>4, <2>1, <2>2, <2>4 DEF IInv, SavedOK
  <2>8. GcOK'  BY <1>4, <2>1, <2>2, <2>4 DEF IInv, GcOK
  <2>9. HeadOK'  BY <1>3, <1>4, <2>3, <2>4 DEF HeadOK
  <2>10. \A v \in Vms : pc'[v] = "unborn" <=> pc[v] = "unborn"  BY <1>4, <2>4 DEF Queued
  <2>11. BornOK'  BY <2>10, BornFrame
  <2> QED  BY <1>1, <2>2, <2>3, <2>4, <2>5, <2>6, <2>7, <2>8, <2>9, <2>11
<1> QED  BY <1>5, <1>6

\* acquire of an idle machine.
LEMMA AcquireIdleStep == ASSUME IInv, NEW p \in Procs, AcquireIdle(p) PROVE IInv'
<1> USE DisSchedAssumption
<1>1. /\ pc[p] \in {"out", "cback"} /\ idle /\ idle' = FALSE /\ Enter(p)
      /\ UNCHANGED <<creating, vmq, idlevmq, off, irend, cur, cycles, type, sem>>
      /\ addrun' = addrun \ {p}
  BY DEF AcquireIdle, Enter
<1>2. /\ \A q \in Procs : ~Owns(q)
      /\ vmq = <<>> /\ idlevmq = <<>>
  BY <1>1 DEF IInv, OwnOK
<1>3. /\ runq' \in Seq(Progs \cup Procs) /\ iprog' \in [Vms -> Progs \cup {Nil}]
      /\ pc' \in [Procs -> PCs] /\ pc'[p] \in {"xec", "gc", "vm"}
      /\ \A q \in Procs : q # p => pc'[q] = pc[q]
      /\ KindOK' /\ PlaceOK' /\ SavedOK' /\ GcOK' /\ HeadOK' /\ BornOK'
  BY <1>1, <1>2, EnterKeeps
<1>4. TypeOK'
  <2>1. idle' \in BOOLEAN  BY <1>1, Zenon
  <2> QED  BY <1>1, <1>3, <2>1 DEF IInv, TypeOK, PCs
<1>5. QueuesOK'  BY <1>1, <1>2, EmptyQueue DEF IInv, QueuesOK
<1>6. TokenOK'  BY <1>1, <1>2, <1>3, EmptyQueue DEF IInv, TokenOK, Queued, Procs
<1>7. OwnOK'
  <2>1. \A q \in Procs : Owns(q)' <=> q = p  BY <1>1, <1>2, <1>3 DEF Owns, Queued
  <2>2. \A v \in Vms : pc'[v] = "startup" <=> pc[v] = "startup"  BY <1>1, <1>3 DEF Procs
  <2> QED  BY <1>1, <2>1, <2>2 DEF IInv, OwnOK
<1> QED  BY <1>3, <1>4, <1>5, <1>6, <1>7 DEF IInv

\* acquire of a machine in use.
LEMMA AcquireQueueStep == ASSUME IInv, NEW p \in Procs, AcquireQueue(p) PROVE IInv'
<1> USE DisSchedAssumption
<1>1. PICK a \in Queued : pc' = [pc EXCEPT ![p] = a]
  BY Zenon DEF AcquireQueue, Goto, Queued
<1>2. /\ pc[p] \in {"out", "cback"} /\ ~idle /\ vmq' = Append(vmq, p)
      /\ UNCHANGED <<idle, creating, idlevmq, runq, off, irend, iprog, cur, cycles, type, addrun,
                     sem>>
      /\ vmq \in Seq(Procs) /\ pc \in [Procs -> PCs]
  BY DEF AcquireQueue, IInv, TypeOK, PCs
<1>3. /\ pc' \in [Procs -> PCs] /\ pc'[p] \in Queued
      /\ \A q \in Procs : q # p => pc'[q] = pc[q]
  BY <1>1, <1>2 DEF PCs
<1>4. ~Has(vmq, p) /\ sem[p] = 0 /\ irend # p
  <2>1. sem[p] = 0 \/ sem[p] = 1  BY DEF IInv, TypeOK
  <2> QED  BY <1>2, <2>1 DEF IInv, QueuesOK, TokenOK, Queued
<1>5. /\ vmq' \in Seq(Procs) /\ \A z : Has(vmq', z) <=> Has(vmq, z) \/ z = p
      /\ Once(vmq) => Once(vmq')
  BY <1>2, <1>4, JoinTail
<1>6. TypeOK'  BY <1>2, <1>3, <1>5 DEF IInv, TypeOK, PCs
<1>7. KindOK'  BY <1>3 DEF IInv, KindOK, VmPCs, Procs
<1>8. QueuesOK'  BY <1>2, <1>3, <1>4, <1>5 DEF IInv, QueuesOK, Queued
<1>9. TokenOK'  BY <1>2, <1>3, <1>4, <1>5 DEF IInv, TokenOK, Queued
<1>10. \A q \in Procs : Owns(q)' <=> Owns(q)  BY <1>2, <1>3, <1>5 DEF Owns, Queued
<1>11. \A v \in Vms : /\ pc'[v] = "startup" <=> pc[v] = "startup"
                      /\ pc'[v] = "unborn" <=> pc[v] = "unborn"
                      /\ pc'[v] \in {"out"} \cup Queued <=> pc[v] \in {"out"} \cup Queued
  BY <1>2, <1>3 DEF IInv, KindOK, VmPCs, Procs, Queued
<1>12. OwnOK'  BY <1>2, <1>10, <1>11 DEF IInv, OwnOK
<1>13. SavedOK'  BY <1>2, <1>11 DEF IInv, SavedOK
<1>14. HeadOK'  BY <1>2, <1>3 DEF IInv, HeadOK, Procs, Queued
<1>15. GcOK'  BY <1>2, <1>3, <1>11 DEF IInv, GcOK, Procs, Queued
<1> QED  BY <1>2, <1>6, <1>7, <1>8, <1>9, <1>11, <1>12, <1>13, <1>14, <1>15, PlaceFrame, BornFrame
         DEF IInv

\* acquire: the owner asleep on isched.irend is given its token.
LEMMA AcquireWakeupStep == ASSUME IInv, NEW p \in Procs, AcquireWakeup(p) PROVE IInv'
<1> USE DisSchedAssumption
<1>1. /\ pc[p] = "acqwake" /\ pc' = [pc EXCEPT ![p] = "acqblock"] /\ irend' = Nil
      /\ UNCHANGED <<sched, runq, off, iprog, cur, cycles, type, addrun>>
      /\ UNCHANGED <<idle, creating, vmq, idlevmq>>
      /\ pc \in [Procs -> PCs] /\ sem \in [Procs -> 0 .. 1] /\ irend \in Vms \cup {Nil}
      /\ irend # Nil => sem' = [sem EXCEPT ![irend] = sem[irend] + 1]
      /\ irend = Nil => sem' = sem
  BY DEF AcquireWakeup, IInv, TypeOK, PCs, Goto, osready, sched
<1>2. irend # Nil => irend \in Procs /\ pc[irend] = "irend" /\ sem[irend] = 0
  BY <1>1 DEF IInv, TokenOK, Procs
<1>3. /\ pc' \in [Procs -> PCs] /\ pc'[p] = "acqblock"
      /\ \A q \in Procs : q # p => pc'[q] = pc[q]
  BY <1>1 DEF PCs, Queued
<1>4. /\ sem' \in [Procs -> 0 .. 1]
      /\ \A q \in Procs : sem'[q] = IF q = irend THEN 1 ELSE sem[q]
  <2>1. CASE irend = Nil  BY <1>1, <2>1 DEF Procs
  <2>2. CASE irend # Nil
    <3>1. irend \in Procs /\ sem' = [sem EXCEPT ![irend] = 1]  BY <1>1, <1>2, <2>2
    <3> QED  BY <1>1, <3>1
  <2> QED  BY <2>1, <2>2
<1>5. TypeOK'  BY <1>1, <1>3, <1>4 DEF IInv, TypeOK, PCs
<1>6. KindOK'  BY <1>1, <1>3 DEF IInv, KindOK, VmPCs, Procs, Queued
<1>7. QueuesOK'  BY <1>1, <1>2, <1>3, <1>4 DEF IInv, QueuesOK, Queued
<1>8. TokenOK'
  <2>1. p # irend  BY <1>1, <1>2 DEF IInv, TokenOK
  <2>2. Nil \notin Procs  BY DEF Procs
  <2> QED  BY <1>1, <1>2, <1>3, <1>4, <2>1, <2>2 DEF IInv, TokenOK, Queued
<1>9. \A q \in Procs : Owns(q)' <=> Owns(q)  BY <1>1, <1>3 DEF Owns, Queued
<1>10. \A v \in Vms : /\ pc'[v] = "startup" <=> pc[v] = "startup"
                      /\ pc'[v] = "unborn" <=> pc[v] = "unborn"
                      /\ pc'[v] \in {"out"} \cup Queued <=> pc[v] \in {"out"} \cup Queued
  BY <1>1, <1>3 DEF Procs, Queued
<1>11. OwnOK'  BY <1>1, <1>9, <1>10 DEF IInv, OwnOK
<1>12. SavedOK'  BY <1>1, <1>10 DEF IInv, SavedOK
<1>13. HeadOK'  BY <1>1, <1>3 DEF IInv, HeadOK, Procs
<1>14. GcOK'  BY <1>1, <1>3, <1>10 DEF IInv, GcOK, Procs, Queued
<1> QED  BY <1>1, <1>5, <1>6, <1>7, <1>8, <1>10, <1>11, <1>12, <1>13, <1>14, PlaceFrame, BornFrame
         DEF IInv

\* osblock in acquire returns: the process was taken off isched.vmq and has the machine.
LEMMA AcquireDoneStep == ASSUME IInv, NEW p \in Procs, AcquireDone(p) PROVE IInv'
<1> USE DisSchedAssumption
<1>1. /\ pc[p] = "acqblock" /\ sem[p] > 0 /\ sem' = [sem EXCEPT ![p] = sem[p] - 1]
      /\ Enter(p)
      /\ UNCHANGED <<idle, creating, vmq, idlevmq, off, irend, cur, cycles, type>>
      /\ sem \in [Procs -> 0 .. 1] /\ addrun' = addrun \ {p}
  BY DEF AcquireDone, Enter, osblock, sched, IInv, TypeOK
<1>2. sem[p] = 1 /\ ~Has(vmq, p) /\ Owns(p)
  BY <1>1 DEF IInv, QueuesOK, Owns, Queued
<1>3. \A q \in Procs : q # p => ~Owns(q)  BY <1>2 DEF IInv, OwnOK
<1>4. /\ runq' \in Seq(Progs \cup Procs) /\ iprog' \in [Vms -> Progs \cup {Nil}]
      /\ pc' \in [Procs -> PCs] /\ pc'[p] \in {"xec", "gc", "vm"}
      /\ \A q \in Procs : q # p => pc'[q] = pc[q]
      /\ KindOK' /\ PlaceOK' /\ SavedOK' /\ GcOK' /\ HeadOK' /\ BornOK'
  BY <1>1, <1>3, EnterKeeps DEF Queued
<1>5. /\ sem' \in [Procs -> 0 .. 1] /\ sem'[p] = 0
      /\ \A q \in Procs : q # p => sem'[q] = sem[q]
  BY <1>1, <1>2
<1>6. TypeOK'  BY <1>1, <1>4, <1>5 DEF IInv, TypeOK, PCs
<1>7. QueuesOK'  BY <1>1, <1>2, <1>4, <1>5 DEF IInv, QueuesOK, Queued
<1>8. TokenOK'  BY <1>1, <1>2, <1>4, <1>5 DEF IInv, TokenOK, Queued
<1>9. OwnOK'
  <2>1. \A q \in Procs : Owns(q)' <=> Owns(q)  BY <1>1, <1>2, <1>4 DEF Owns, Queued
  <2>2. \A v \in Vms : pc'[v] = "startup" <=> pc[v] = "startup"  BY <1>1, <1>4 DEF Procs
  <2> QED  BY <1>1, <2>1, <2>2 DEF IInv, OwnOK
<1> QED  BY <1>4, <1>6, <1>7, <1>8, <1>9 DEF IInv

\* While an interpreter owns the machine no other process has its up->prog on the run queue.
LEMMA NoOther ==
    ASSUME IInv, NEW v \in Vms, Owns(v)
    PROVE  /\ \A q \in Procs : q # v => pc[q] \notin {"xec", "gc", "vm"} /\ ~Has(runq, q)
           /\ pc[v] # "gc" => ~Has(runq, v)
           /\ runq # <<>> /\ pc[v] # "gc" => Head(runq) \in Progs
<1>1. v \in Procs /\ \A q \in Procs : q # v => ~Owns(q)  BY DEF IInv, OwnOK, Procs
<1>2. \A q \in Procs : q # v => pc[q] \notin {"xec", "gc", "vm"} /\ ~Has(runq, q)
  BY <1>1 DEF Owns, IInv, HeadOK
<1>3. pc[v] # "gc" => ~Has(runq, v)
  <2>1. pc[v] # "vm"  BY DEF IInv, KindOK, VmPCs, Queued
  <2> QED  BY <1>1, <2>1 DEF IInv, HeadOK
<1>4. ASSUME runq # <<>>, pc[v] # "gc" PROVE Head(runq) \in Progs
  <2>1. runq \in Seq(Progs \cup Procs)  BY DEF IInv, TypeOK
  <2>2. Head(runq) \in Progs \cup Procs /\ Has(runq, Head(runq))  BY <1>4, <2>1, LeaveHead
  <2> QED  BY <1>2, <1>3, <1>4, <2>2
<1> QED  BY <1>2, <1>3, <1>4

\* The interpreter v owns the machine and goes on with no token.
Goes(v) == /\ Owns(v) /\ irend # v /\ sem' \in [Procs -> 0 .. 1] /\ sem'[v] = 0
           /\ \A q \in Procs : q # v => sem'[q] = sem[q]

\* osblock returns to an interpreter with the machine.
LEMMA TokenTaken ==
    ASSUME IInv, NEW v \in Vms, osblock(v), pc[v] \in {"irend", "idle", "new"} PROVE Goes(v)
<1>1. v \in Procs /\ sem \in [Procs -> 0 .. 1]  BY DEF IInv, TypeOK, Procs
<1>2. sem[v] = 1 /\ sem' = [sem EXCEPT ![v] = 0]
  <2>1. sem[v] > 0 /\ sem' = [sem EXCEPT ![v] = sem[v] - 1]  BY DEF osblock
  <2>2. sem[v] = 1  BY <1>1, <2>1
  <2> QED  BY <2>1, <2>2
<1>3. Owns(v) /\ irend # v  BY <1>1, <1>2 DEF IInv, TokenOK, QueuesOK, Owns
<1> QED  BY <1>1, <1>2, <1>3 DEF Goes

\* Where an interpreter that runs the machine can be.
Running == {"loop", "isleep", "irend", "yield", "xec", "gc"}

\* An interpreter that runs the machine has no token and is not in isched.irend.
LEMMA NoToken ==
    ASSUME IInv, NEW v \in Vms, pc[v] \in Running, pc[v] # "irend", sem' = sem PROVE Goes(v)
<1>1. v \in Procs /\ sem \in [Procs -> 0 .. 1]  BY DEF IInv, TypeOK, Procs
<1>2. sem[v] = 0 \/ sem[v] = 1  BY <1>1
<1> QED  BY <1>1, <1>2 DEF IInv, TokenOK, Owns, Queued, Goes, Running

\* A step of the interpreter that owns the machine and keeps it.
OwnerMove(v, a) ==
    /\ pc[v] \in Running \cup {"idle", "new"} /\ pc' = [pc EXCEPT ![v] = a]
    /\ irend' = IF a = "irend" THEN v ELSE irend
    /\ \A u \in Vms : u # v => cur'[u] = cur[u] /\ type'[u] = type[u]
    /\ type' \in [Vms -> {"Interp", "IdleGC", "BusyGC"}] /\ (a = "gc" <=> type'[v] # "Interp")
    /\ \A z : Has(runq', z) => Has(runq, z) \/ z = v
    /\ Has(runq', v) => a = "gc"
    /\ a = "xec" => runq' # <<>> /\ cur'[v] = Head(runq') /\ cur'[v] \in Progs
    /\ a = "gc" => runq' # <<>> /\ Head(runq') = v
    /\ UNCHANGED <<idle, creating, vmq, idlevmq, addrun, iprog>>

\* What it leaves to show of the invariant.
Kept == /\ pc' \in [Procs -> PCs] /\ irend' \in Vms \cup {Nil} /\ sem' \in [Procs -> 0 .. 1]
        /\ type' \in [Vms -> {"Interp", "IdleGC", "BusyGC"}]
        /\ KindOK' /\ QueuesOK' /\ TokenOK' /\ OwnOK' /\ SavedOK' /\ GcOK' /\ HeadOK' /\ BornOK'

\* The interpreter that owns the machine goes on.
LEMMA OwnerKeeps ==
    ASSUME IInv, NEW v \in Vms, NEW a \in Running, Goes(v), OwnerMove(v, a) PROVE Kept
<1>1. v \in Procs /\ v \notin Kprocs /\ pc \in [Procs -> PCs] /\ v # Nil
  BY DisSchedAssumption DEF IInv, TypeOK, PCs, Procs
<1>2. /\ pc' \in [Procs -> PCs] /\ pc'[v] = a /\ \A q \in Procs : q # v => pc'[q] = pc[q]
      /\ pc[v] \in Running \cup {"idle", "new"}
  BY <1>1 DEF OwnerMove, PCs, Running
<1>3. /\ Owns(v) /\ irend # v /\ sem' \in [Procs -> 0 .. 1] /\ sem'[v] = 0
      /\ \A q \in Procs : q # v => sem'[q] = sem[q]
  BY DEF Goes
<1>4. UNCHANGED <<idle, creating, vmq, idlevmq, addrun, iprog>>  BY DEF OwnerMove
<1>5. ~Has(vmq, v) /\ ~Has(idlevmq, v)
  BY <1>1, <1>2, <1>3 DEF IInv, QueuesOK, Owns, Running, Queued
<1>6. KindOK'  BY <1>1, <1>2 DEF IInv, KindOK, VmPCs, Procs, Running
<1>7. QueuesOK'  BY <1>1, <1>2, <1>3, <1>4, <1>5 DEF IInv, QueuesOK
<1>8. TokenOK'
  <2>1. v \notin addrun  BY <1>1 DEF IInv, TypeOK
  <2>2. \A q \in Procs : q # v => pc[q] # "irend" /\ irend # q
    BY <1>1, <1>3 DEF IInv, OwnOK, Owns, TokenOK
  <2>3. \A q \in Procs : irend' = q <=> q = v /\ a = "irend"
    BY <1>3, <2>2 DEF OwnerMove
  <2> QED  BY <1>1, <1>2, <1>3, <1>4, <1>5, <2>1, <2>2, <2>3 DEF IInv, TokenOK, Running, Queued
<1>9. OwnOK'
  <2>1. \A q \in Procs : Owns(q)' <=> Owns(q)
    BY <1>1, <1>2, <1>3, <1>4 DEF Owns, Running
  <2>2. \A u \in Vms : pc'[u] = "startup" <=> pc[u] = "startup"
    BY <1>1, <1>2 DEF Procs, Running
  <2> QED  BY <1>4, <2>1, <2>2 DEF IInv, OwnOK
<1>10. \A u \in Vms : u # v => pc'[u] = pc[u]  BY <1>2 DEF Procs
<1>11. SavedOK'
  <2>1. iprog[v] = Nil  BY <1>2 DEF IInv, SavedOK, Running, Queued
  <2>2. \A u \in Vms : u # v => cur'[u] = cur[u] /\ type'[u] = type[u]  BY DEF OwnerMove
  <2> QED  BY <1>2, <1>4, <1>10, <2>1, <2>2 DEF IInv, SavedOK, Running, Queued
<1>12. HeadOK'
  <2>1. \A q \in Procs : q # v => pc'[q] \notin {"xec", "gc", "vm"} /\ ~Has(runq', q)
    BY <1>2, <1>3, NoOther DEF OwnerMove
  <2>2. \A u \in Vms : u \in Procs  BY DEF Procs
  <2> QED  BY <1>2, <2>1, <2>2 DEF HeadOK, OwnerMove, Running
<1>13. BornOK'  BY <1>2, <1>10, BornFrame DEF Running
<1>14. irend' \in Vms \cup {Nil}  BY DEF OwnerMove, IInv, TypeOK
<1>15. GcOK'
  <2>1. \A u \in Vms : u # v => type'[u] = type[u]  BY DEF OwnerMove
  <2>2. (a = "gc" <=> type'[v] # "Interp")  BY DEF OwnerMove
  <2> QED  BY <1>2, <1>10, <2>1, <2>2 DEF IInv, GcOK
<1>16. type' \in [Vms -> {"Interp", "IdleGC", "BusyGC"}]  BY DEF OwnerMove
<1> QED  BY <1>2, <1>3, <1>6, <1>7, <1>8, <1>9, <1>11, <1>12, <1>13, <1>14, <1>15, <1>16 DEF Kept

\* Such a step, when it leaves the Progs where they are.
LEMMA OwnerStays ==
    ASSUME IInv, Kept, UNCHANGED <<idle, creating, vmq, idlevmq, runq, off, iprog, addrun>>,
           cur' \in [Vms -> Progs \cup {Nil}], cycles' \in [Vms -> 0 .. 2]
    PROVE  IInv'
<1>1. TypeOK'  BY DEF Kept, IInv, TypeOK, PCs
<1>2. PlaceOK'  BY PlaceFrame
<1> QED  BY <1>1, <1>2 DEF Kept, IInv

\* Such a step, when it leaves the Progs where they are, its up->prog aside.
LEMMA OwnerPushes ==
    ASSUME IInv, Kept, UNCHANGED <<idle, creating, vmq, idlevmq, off, iprog, addrun>>,
           cur' \in [Vms -> Progs \cup {Nil}], cycles' \in [Vms -> 0 .. 2],
           runq' \in Seq(Progs \cup Procs), Once(runq'),
           \A z \in Progs : Has(runq', z) <=> Has(runq, z)
    PROVE  IInv'
<1>1. TypeOK'  BY DEF Kept, IInv, TypeOK, PCs
<1>2. PlaceOK'  BY PlaceSame
<1> QED  BY <1>1, <1>2 DEF Kept, IInv

\* A step that changes no more than where it is, and isched.irend, is one, if it is in no
\* turn of the collector.
LEMMA OwnerSame ==
    ASSUME IInv, NEW v \in Vms, pc[v] \in Running \cup {"idle", "new"}, pc[v] # "gc", Goes(v),
           NEW a \in Running \ {"xec", "gc"}, pc' = [pc EXCEPT ![v] = a],
           irend' = IF a = "irend" THEN v ELSE irend,
           UNCHANGED <<idle, creating, vmq, idlevmq, runq, iprog, cur, type, addrun>>
    PROVE  OwnerMove(v, a)
<1>1. ~Has(runq, v)  BY NoOther DEF Goes
<1>2. type[v] = "Interp" /\ type \in [Vms -> {"Interp", "IdleGC", "BusyGC"}]
  BY DEF IInv, GcOK, TypeOK, Running, Queued
<1> QED  BY <1>1, <1>2 DEF OwnerMove, Running

\* startup: osblock returns.
LEMMA StartupDoneStep == ASSUME IInv, NEW v \in Vms, StartupDone(v) PROVE IInv'
<1>1. /\ pc[v] = "new" /\ osblock(v) /\ pc' = [pc EXCEPT ![v] = "loop"]
      /\ UNCHANGED <<idle, creating, vmq, idlevmq, runq, off, irend, iprog, cur, cycles, type,
                     addrun>>
  BY DEF StartupDone, Goto, sched
<1>0. Goes(v)  BY <1>1, TokenTaken
<1>2. OwnerMove(v, "loop")  BY <1>0, <1>1, OwnerSame DEF Running
<1>3. Kept  BY <1>0, <1>2, OwnerKeeps DEF Running
<1>4. cur' \in [Vms -> Progs \cup {Nil}] /\ cycles' \in [Vms -> 0 .. 2]  BY <1>1 DEF IInv, TypeOK
<1> QED  BY <1>1, <1>3, <1>4, OwnerStays

\* The interpreter puts its up->prog at the head of the run queue q, which has the Progs of
\* the run queue or fewer, for a turn of the collector.
LEMMA CollectMoves ==
    ASSUME IInv, NEW v \in Vms, pc[v] \in {"loop", "xec"}, Goes(v), NEW t \in {"IdleGC", "BusyGC"},
           NEW q \in Seq(Progs \cup Procs), Once(q), \A z : Has(q, z) => Has(runq, z),
           Collect(v, t, q), \A u \in Vms : u # v => cur'[u] = cur[u],
           UNCHANGED <<idle, creating, vmq, idlevmq, irend, iprog, addrun>>
    PROVE  /\ OwnerMove(v, "gc") /\ runq' \in Seq(Progs \cup Procs) /\ Once(runq')
           /\ \A z \in Progs : Has(runq', z) <=> Has(q, z)
<1>1. /\ runq' = <<v>> \o q /\ type' = [type EXCEPT ![v] = t] /\ pc' = [pc EXCEPT ![v] = "gc"]
      /\ type \in [Vms -> {"Interp", "IdleGC", "BusyGC"}] /\ v \in Procs /\ v \notin Progs
  BY DisSchedAssumption DEF Collect, Goto, IInv, TypeOK, Procs
<1>2. ~Has(q, v)  BY NoOther DEF Goes
<1>3. /\ runq' \in Seq(Progs \cup Procs) /\ runq' # <<>> /\ Head(runq') = v /\ Once(runq')
      /\ \A z : Has(runq', z) <=> Has(q, z) \/ z = v
  BY <1>1, <1>2, JoinHead
<1>4. /\ type' \in [Vms -> {"Interp", "IdleGC", "BusyGC"}] /\ type'[v] # "Interp"
      /\ \A u \in Vms : u # v => type'[u] = type[u]
  BY <1>1
<1>5. OwnerMove(v, "gc")  BY <1>1, <1>3, <1>4 DEF OwnerMove, Running
<1> QED  BY <1>1, <1>3, <1>5

\* vmachine finds something to do, or has the collector run.
LEMMA LoopStep == ASSUME IInv, NEW v \in Vms, Loop(v) PROVE IInv'
<1>1. /\ pc[v] = "loop" /\ sem' = sem
      /\ UNCHANGED <<idle, creating, vmq, idlevmq, off, irend, iprog, cur, cycles, addrun>>
      /\ \/ pc' = [pc EXCEPT ![v] = "yield"] /\ UNCHANGED <<runq, type>>
         \/ Collect(v, "IdleGC", runq)
  BY DEF Loop, Goto, sched
<1>2. Goes(v)  BY <1>1, NoToken DEF Running
<1>3. /\ cur' \in [Vms -> Progs \cup {Nil}] /\ cycles' \in [Vms -> 0 .. 2] /\ Once(runq)
      /\ runq \in Seq(Progs \cup Procs)
  BY <1>1 DEF IInv, TypeOK, PlaceOK
<1>4. CASE pc' = [pc EXCEPT ![v] = "yield"] /\ UNCHANGED <<runq, type>>
  <2>1. OwnerMove(v, "yield")  BY <1>1, <1>2, <1>4, OwnerSame DEF Running
  <2>2. Kept  BY <1>2, <2>1, OwnerKeeps DEF Running
  <2> QED  BY <1>1, <1>3, <1>4, <2>2, OwnerStays
<1>5. CASE Collect(v, "IdleGC", runq)
  <2>1. /\ OwnerMove(v, "gc") /\ runq' \in Seq(Progs \cup Procs) /\ Once(runq')
        /\ \A z \in Progs : Has(runq', z) <=> Has(runq, z)
    BY <1>1, <1>2, <1>3, <1>5, CollectMoves
  <2>2. Kept  BY <1>2, <2>1, OwnerKeeps DEF Running
  <2> QED  BY <1>1, <1>3, <2>1, <2>2, OwnerPushes
<1> QED  BY <1>1, <1>4, <1>5

\* The collector's turn ends.
LEMMA CollectEndStep == ASSUME IInv, NEW v \in Vms, CollectEnd(v) PROVE IInv'
<1>1. PICK a \in {"isleep", "loop"} : pc' = [pc EXCEPT ![v] = a]  BY DEF CollectEnd, Goto
<1>2. /\ pc[v] = "gc" /\ sem' = sem /\ runq' = Tail(runq)
      /\ type' = [type EXCEPT ![v] = "Interp"]
      /\ UNCHANGED <<idle, creating, vmq, idlevmq, off, irend, iprog, cur, cycles, addrun>>
      /\ type \in [Vms -> {"Interp", "IdleGC", "BusyGC"}] /\ v \in Procs /\ v \notin Progs
      /\ runq \in Seq(Progs \cup Procs) /\ Once(runq)
  BY DisSchedAssumption DEF CollectEnd, sched, IInv, TypeOK, PlaceOK, Procs
<1>3. Goes(v)  BY <1>2, NoToken DEF Running
<1>4. runq # <<>> /\ Head(runq) = v  BY <1>2 DEF IInv, HeadOK
<1>5. /\ runq' \in Seq(Progs \cup Procs) /\ Once(runq') /\ ~Has(runq', v)
      /\ \A z : Has(runq, z) <=> Has(runq', z) \/ z = v
  BY <1>2, <1>4, LeaveHead
<1>6. /\ type' \in [Vms -> {"Interp", "IdleGC", "BusyGC"}] /\ type'[v] = "Interp"
      /\ \A u \in Vms : u # v => type'[u] = type[u]
  BY <1>2
<1>7. a \in Running /\ OwnerMove(v, a)  BY <1>1, <1>2, <1>5, <1>6 DEF OwnerMove, Running
<1>8. Kept  BY <1>3, <1>7, OwnerKeeps
<1>9. cur' \in [Vms -> Progs \cup {Nil}] /\ cycles' \in [Vms -> 0 .. 2]  BY <1>2 DEF IInv, TypeOK
<1>10. \A z \in Progs : Has(runq', z) <=> Has(runq, z)  BY <1>2, <1>5
<1> QED  BY <1>2, <1>5, <1>8, <1>9, <1>10, OwnerPushes

\* vmachine finds something to do after execatidle, or sleeps on isched.irend.
LEMMA LoopSleepStep == ASSUME IInv, NEW v \in Vms, LoopSleep(v) PROVE IInv'
<1>1. PICK a \in {"yield", "irend"} :
         pc' = [pc EXCEPT ![v] = a] /\ irend' = IF a = "irend" THEN v ELSE irend
  BY DEF LoopSleep, Goto
<1>2. /\ pc[v] = "isleep" /\ sem' = sem
      /\ UNCHANGED <<idle, creating, vmq, idlevmq, runq, off, iprog, cur, cycles, type, addrun>>
  BY DEF LoopSleep, sched
<1>3. Goes(v)  BY <1>2, NoToken DEF Running
<1>4. a \in Running /\ OwnerMove(v, a)  BY <1>1, <1>2, <1>3, OwnerSame DEF Running
<1>5. Kept  BY <1>3, <1>4, OwnerKeeps
<1>6. cur' \in [Vms -> Progs \cup {Nil}] /\ cycles' \in [Vms -> 0 .. 2]  BY <1>2 DEF IInv, TypeOK
<1> QED  BY <1>2, <1>5, <1>6, OwnerStays

\* vmachine: Sleep on isched.irend returns.
LEMMA LoopWokenStep == ASSUME IInv, NEW v \in Vms, LoopWoken(v) PROVE IInv'
<1>1. /\ pc[v] = "irend" /\ osblock(v) /\ pc' = [pc EXCEPT ![v] = "yield"]
      /\ UNCHANGED <<idle, creating, vmq, idlevmq, runq, off, irend, iprog, cur, cycles, type,
                     addrun>>
  BY DEF LoopWoken, Goto, sched
<1>0. Goes(v)  BY <1>1, TokenTaken
<1>2. OwnerMove(v, "yield")  BY <1>0, <1>1, OwnerSame DEF Running
<1>3. Kept  BY <1>0, <1>2, OwnerKeeps DEF Running
<1>4. cur' \in [Vms -> Progs \cup {Nil}] /\ cycles' \in [Vms -> 0 .. 2]  BY <1>1 DEF IInv, TypeOK
<1> QED  BY <1>1, <1>3, <1>4, OwnerStays

\* vmachine goes on at r = isched.runhd, or back to the loop: after iyield and without.
Resumes(v) ==
    IF runq # <<>>
    THEN cur' = [cur EXCEPT ![v] = Head(runq)] /\ pc' = [pc EXCEPT ![v] = "xec"]
    ELSE pc' = [pc EXCEPT ![v] = "loop"] /\ UNCHANGED cur

\* It has the Prog at the head of the run queue, if there is one.
LEMMA Runs ==
    ASSUME IInv, NEW v \in Vms, pc[v] \in {"yield", "idle"}, Goes(v), Resumes(v),
           cycles' \in [Vms -> 0 .. 2],
           UNCHANGED <<idle, creating, vmq, idlevmq, runq, off, irend, iprog, type, addrun>>
    PROVE  IInv'
<1>1. cur \in [Vms -> Progs \cup {Nil}]  BY DEF IInv, TypeOK
<1>2. PICK a \in {"xec", "loop"} :
         /\ pc' = [pc EXCEPT ![v] = a]
         /\ a = "xec" => runq # <<>> /\ cur' = [cur EXCEPT ![v] = Head(runq)]
         /\ a = "loop" => cur' = cur
  BY DEF Resumes
<1>3. ~Has(runq, v) /\ (runq # <<>> => Head(runq) \in Progs)  BY NoOther DEF Goes
<1>4. /\ cur' \in [Vms -> Progs \cup {Nil}]
      /\ \A u \in Vms : u # v => cur'[u] = cur[u]
      /\ a = "xec" => runq # <<>> /\ cur'[v] = Head(runq) /\ cur'[v] \in Progs
  BY <1>1, <1>2, <1>3
<1>5. a \in Running /\ OwnerMove(v, a)
  <2>1. type[v] = "Interp" /\ type \in [Vms -> {"Interp", "IdleGC", "BusyGC"}]
    BY DEF IInv, GcOK, TypeOK, Queued
  <2> QED  BY <1>2, <1>3, <1>4, <2>1 DEF OwnerMove, Running
<1>6. Kept  BY <1>5, OwnerKeeps
<1> QED  BY <1>4, <1>6, OwnerStays

\* iyield: osblock returns.
LEMMA IyieldDoneStep == ASSUME IInv, NEW v \in Vms, IyieldDone(v) PROVE IInv'
<1>1. /\ pc[v] = "idle" /\ osblock(v) /\ Resumes(v)
      /\ UNCHANGED <<idle, creating, vmq, idlevmq, runq, off, irend, iprog, cycles, type, addrun>>
      /\ cycles \in [Vms -> 0 .. 2]
  BY DEF IyieldDone, Resumes, Goto, sched, IInv, TypeOK
<1>2. Goes(v)  BY <1>1, TokenTaken
<1> QED  BY <1>1, <1>2, Runs

\* vmachine: iyield to the first process that wants the machine.
LEMMA IyieldStep ==
    ASSUME IInv, NEW v \in Vms, pc[v] = "yield", vmq # <<>>, Iyield(v) PROVE IInv'
<1> USE DisSchedAssumption
<1>1. /\ vmq' = Tail(vmq) /\ sem' = [sem EXCEPT ![Head(vmq)] = sem[Head(vmq)] + 1]
      /\ idlevmq' = <<v>> \o idlevmq /\ cycles' = [cycles EXCEPT ![v] = 0]
      /\ pc' = [pc EXCEPT ![v] = "idle"]
      /\ UNCHANGED <<idle, creating, runq, off, irend, iprog, cur, type, addrun>>
  BY DEF Iyield, osready, Goto
<1>2. /\ pc \in [Procs -> PCs] /\ sem \in [Procs -> 0 .. 1] /\ vmq \in Seq(Procs)
      /\ idlevmq \in Seq(Vms) /\ cycles \in [Vms -> 0 .. 2] /\ v \in Procs /\ v \notin Kprocs
  BY DEF IInv, TypeOK, PCs, Procs
<1>3. PICK h \in Procs : h = Head(vmq)  BY <1>2, LeaveHead
<1>4. /\ Has(vmq, h) /\ vmq' \in Seq(Procs) /\ \A z : Has(vmq, z) <=> Has(vmq', z) \/ z = h
      /\ Once(vmq') /\ ~Has(vmq', h)
  BY <1>1, <1>2, <1>3, LeaveHead DEF IInv, QueuesOK
<1>5. pc[h] \in Queued /\ sem[h] = 0 /\ h # v  BY <1>4 DEF IInv, QueuesOK, Queued
<1>6. Owns(v) /\ irend # v /\ sem[v] = 0 /\ ~Has(idlevmq, v) /\ ~Has(vmq, v)
  <2>1. sem[v] = 0 \/ sem[v] = 1  BY <1>2
  <2> QED  BY <1>2, <2>1 DEF IInv, Owns, TokenOK, QueuesOK, Queued
<1>7. /\ idlevmq' \in Seq(Vms) /\ Once(idlevmq')
      /\ \A z : Has(idlevmq', z) <=> Has(idlevmq, z) \/ z = v
  <2>1. Once(idlevmq)  BY DEF IInv, QueuesOK
  <2> QED  BY <1>1, <1>2, <1>6, <2>1, JoinHead
<1>8. /\ pc' \in [Procs -> PCs] /\ pc'[v] = "idle"
      /\ \A q \in Procs : q # v => pc'[q] = pc[q]
      /\ cycles' \in [Vms -> 0 .. 2]
  BY <1>1, <1>2 DEF PCs
<1>9. sem' \in [Procs -> 0 .. 1] /\ \A q \in Procs : sem'[q] = IF q = h THEN 1 ELSE sem[q]
  <2>1. sem' = [sem EXCEPT ![h] = 1]  BY <1>1, <1>3, <1>5
  <2> QED  BY <1>2, <2>1
<1>10. TypeOK'  BY <1>1, <1>4, <1>7, <1>8, <1>9 DEF IInv, TypeOK, PCs
<1>11. KindOK'  BY <1>2, <1>8, Zenon DEF IInv, KindOK, VmPCs, Procs
<1>12. QueuesOK'  BY <1>4, <1>5, <1>6, <1>7, <1>8, <1>9 DEF IInv, QueuesOK, Queued
<1>13. TokenOK'
  <2>1. v \notin addrun  BY <1>2 DEF IInv, TypeOK
  <2> QED  BY <1>1, <1>4, <1>5, <1>6, <1>7, <1>8, <1>9, <2>1 DEF IInv, TokenOK, Queued
<1>14. OwnOK'
  <2>1. \A q \in Procs : q # v => ~Owns(q)  BY <1>2, <1>6 DEF IInv, OwnOK
  <2>2. \A q \in Procs : Owns(q)' <=> q = h
    BY <1>2, <1>4, <1>5, <1>7, <1>8, <2>1 DEF Owns, Queued
  <2>3. \A u \in Vms : pc'[u] = "startup" <=> pc[u] = "startup"  BY <1>8 DEF Procs
  <2>4. ~idle  BY <1>2, <1>6 DEF IInv, OwnOK
  <2> QED  BY <1>1, <2>2, <2>3, <2>4 DEF IInv, OwnOK
<1>15. SavedOK'  BY <1>1, <1>8 DEF IInv, SavedOK, Procs, Queued
<1>16. HeadOK'  BY <1>1, <1>2, <1>8 DEF IInv, HeadOK, Procs
<1>17. BornOK'  BY <1>8, BornFrame DEF Procs
<1>18. GcOK'  BY <1>1, <1>8 DEF IInv, GcOK, Procs, Queued
<1> QED  BY <1>1, <1>10, <1>11, <1>12, <1>13, <1>14, <1>15, <1>16, <1>17, <1>18, PlaceFrame
         DEF IInv

\* vmachine gives way to those that want the machine, or runs a Prog.
LEMMA YieldStep == ASSUME IInv, NEW v \in Vms, Yield(v) PROVE IInv'
<1>1. pc[v] = "yield"  BY DEF Yield
<1>2. CASE vmq # <<>> /\ (runq = <<>> \/ cycles[v] + 1 > 2)
  BY <1>1, <1>2, IyieldStep DEF Yield
<1>3. CASE ~(vmq # <<>> /\ (runq = <<>> \/ cycles[v] + 1 > 2))
  <2>1. cycles \in [Vms -> 0 .. 2]  BY DEF IInv, TypeOK
  <2>2. PICK n \in 0 .. 2 : Go(v, n)
    <3>1. Go(v, IF vmq # <<>> THEN cycles[v] + 1 ELSE cycles[v])  BY <1>3 DEF Yield
    <3>2. cycles[v] \in 0 .. 2  BY <2>1
    <3>3. CASE vmq # <<>>
      <4>1. cycles[v] + 1 \in 0 .. 2  BY <1>3, <3>2, <3>3
      <4> QED  BY <3>1, <3>3, <4>1
    <3>4. CASE vmq = <<>>  BY <3>1, <3>2, <3>4
    <3> QED  BY <3>3, <3>4
  <2>3. cycles' \in [Vms -> 0 .. 2]  BY <2>1, <2>2 DEF Go
  <2>4. /\ UNCHANGED <<idle, creating, vmq, idlevmq, runq, off, irend, iprog, type, addrun, sem>>
        /\ Resumes(v)
    BY <2>2 DEF Go, Goto, Resumes, sched
  <2>5. Goes(v)  BY <1>1, <2>4, NoToken DEF Running
  <2> QED  BY <1>1, <2>3, <2>4, <2>5, Runs
<1> QED  BY <1>2, <1>3

\* After xec the Prog g that was at the head of the run queue is still on it, or is off; the
\* collector may have a turn.
LEMMA XecKeeps ==
    ASSUME IInv, NEW v \in Vms, pc[v] = "xec", cur' = [cur EXCEPT ![v] = Nil],
           cycles' \in [Vms -> 0 .. 2],
           UNCHANGED <<idle, creating, vmq, idlevmq, irend, iprog, addrun, sem>>,
           NEW q \in Seq(Progs \cup Procs), Once(q), NEW g \in Progs, Has(runq, g),
           \/ off' = off /\ \A z : Has(q, z) <=> Has(runq, z)
           \/ off' = off \cup {g} /\ \A z : Has(q, z) <=> Has(runq, z) /\ z # g,
           \/ runq' = q /\ pc' = [pc EXCEPT ![v] = "loop"] /\ type' = type
           \/ Collect(v, "BusyGC", q)
    PROVE  IInv'
<1>1. Goes(v)  BY NoToken DEF Running
<1>2. /\ cur' \in [Vms -> Progs \cup {Nil}] /\ \A u \in Vms : u # v => cur'[u] = cur[u]
  BY DEF IInv, TypeOK
<1>3. \A z : Has(q, z) => Has(runq, z)  OBVIOUS
<1>4. PICK a \in {"loop", "gc"} :
         /\ OwnerMove(v, a) /\ runq' \in Seq(Progs \cup Procs) /\ Once(runq')
         /\ \A z \in Progs : Has(runq', z) <=> Has(q, z)
  <2>1. CASE runq' = q /\ pc' = [pc EXCEPT ![v] = "loop"] /\ type' = type
    <3>1. ~Has(runq, v)  BY <1>1, NoOther DEF Goes
    <3>2. type[v] = "Interp" /\ type \in [Vms -> {"Interp", "IdleGC", "BusyGC"}]
      BY DEF IInv, GcOK, TypeOK, Queued
    <3>3. OwnerMove(v, "loop")  BY <1>2, <1>3, <2>1, <3>1, <3>2 DEF OwnerMove, Running
    <3> QED  BY <2>1, <3>3
  <2>2. CASE Collect(v, "BusyGC", q)
    <3>1. /\ OwnerMove(v, "gc") /\ runq' \in Seq(Progs \cup Procs) /\ Once(runq')
          /\ \A z \in Progs : Has(runq', z) <=> Has(q, z)
      BY <1>1, <1>2, <1>3, <2>2, CollectMoves
    <3> QED  BY <3>1
  <2> QED  BY <2>1, <2>2
<1>5. Kept  BY <1>1, <1>4, OwnerKeeps DEF Running
<1>6. off' \subseteq Progs  BY DEF IInv, TypeOK
<1>7. TypeOK'  BY <1>2, <1>4, <1>5, <1>6 DEF IInv, TypeOK, PCs, Kept
<1>8. PlaceOK'
  <2>1. \A u \in Vms : iprog[u] # Nil => iprog[u] # g /\ iprog[u] \in Progs
    BY DEF IInv, PlaceOK, TypeOK
  <2>2. CASE off' = off /\ \A z : Has(q, z) <=> Has(runq, z)
    BY <1>4, <2>2, PlaceSame
  <2>3. CASE off' = off \cup {g} /\ \A z : Has(q, z) <=> Has(runq, z) /\ z # g
    BY <1>4, <2>1, <2>3 DEF IInv, PlaceOK
  <2> QED  BY <2>2, <2>3
<1> QED  BY <1>5, <1>7, <1>8 DEF IInv, Kept

\* xec returns and its Prog, at the head of the run queue, goes to the tail, stays or is
\* off.
LEMMA XecStep ==
    ASSUME IInv, NEW v \in Vms, XecEnd(v) \/ XecBlock(v) \/ XecError(v) PROVE IInv'
<1>1. /\ pc[v] = "xec" /\ cur' = [cur EXCEPT ![v] = Nil]
      /\ UNCHANGED <<idle, creating, vmq, idlevmq, irend, iprog, addrun, sem>>
      /\ cycles' = cycles \/ cycles' = [cycles EXCEPT ![v] = 0]
  BY DEF XecEnd, XecBlock, XecError, sched
<1>2. cycles' \in [Vms -> 0 .. 2]
  <2>1. cycles \in [Vms -> 0 .. 2] /\ 0 \in 0 .. 2  BY DEF IInv, TypeOK
  <2> QED  BY <1>1, <2>1
<1>3. /\ runq # <<>> /\ Head(runq) \in Progs /\ runq \in Seq(Progs \cup Procs)
      /\ Once(runq)
  BY <1>1 DEF IInv, HeadOK, TypeOK, PlaceOK
<1>4. PICK g \in Progs : g = Head(runq)  BY <1>3
<1>5. PICK t \in Seq(Progs \cup Procs) : t = Tail(runq)  BY <1>3, LeaveHead
<1>6. Once(t) /\ ~Has(t, g) /\ Has(runq, g) /\ \A z : Has(runq, z) <=> Has(t, z) \/ z = g
  BY <1>3, <1>4, <1>5, LeaveHead
<1>7. \A z : Has(t, z) <=> Has(runq, z) /\ z # g  BY <1>6
<1>8. CASE XecEnd(v)
  <2>1. g \in Progs \cup Procs  OBVIOUS
  <2>2. PICK q \in Seq(Progs \cup Procs) : q = Append(t, g)  BY <2>1, JoinTail
  <2>3. Once(q) /\ \A z : Has(q, z) <=> Has(runq, z)  BY <1>6, <2>1, <2>2, JoinTail
  <2>4. Turn(v, Append(Tail(runq), Head(runq))) /\ off' = off  BY <1>8, Zenon DEF XecEnd
  <2>5. Turn(v, q)  BY <1>4, <1>5, <2>2, <2>4
  <2>6. \/ runq' = q /\ pc' = [pc EXCEPT ![v] = "loop"] /\ type' = type
        \/ Collect(v, "BusyGC", q)
    BY <2>5, Zenon DEF Turn, Goto
  <2> QED  BY <1>1, <1>2, <1>6, <2>3, <2>4, <2>6, XecKeeps
<1>9. CASE XecBlock(v)
  <2>1. Turn(v, Tail(runq)) /\ off' = off \cup {Head(runq)}  BY <1>9, Zenon DEF XecBlock
  <2>2. Turn(v, t) /\ off' = off \cup {g}  BY <1>4, <1>5, <2>1
  <2>3. \/ runq' = t /\ pc' = [pc EXCEPT ![v] = "loop"] /\ type' = type
        \/ Collect(v, "BusyGC", t)
    BY <2>2, Zenon DEF Turn, Goto
  <2> QED  BY <1>1, <1>2, <1>6, <1>7, <2>2, <2>3, XecKeeps
<1>10. CASE XecError(v)
  <2>1. pc' = [pc EXCEPT ![v] = "loop"] /\ type' = type  BY <1>10 DEF XecError, Goto
  <2>2. CASE runq' = runq /\ off' = off
    BY <1>1, <1>2, <1>3, <1>6, <2>1, <2>2, XecKeeps
  <2>3. CASE runq' = Tail(runq) /\ off' = off \cup {Head(runq)}
    <3>1. runq' = t /\ off' = off \cup {g}  BY <1>4, <1>5, <2>3
    <3> QED  BY <1>1, <1>2, <1>6, <1>7, <2>1, <3>1, XecKeeps
  <2> QED  BY <1>10, <2>2, <2>3 DEF XecError
<1> QED  BY <1>8, <1>9, <1>10

\* A new interpreter takes the idle machine, or waits with those that have no work.
LEMMA StartupStep == ASSUME IInv, NEW v \in Vms, Startup(v) PROVE IInv'
<1> USE DisSchedAssumption
<1>1. /\ pc[v] = "startup" /\ creating' = FALSE
      /\ UNCHANGED <<vmq, runq, off, irend, iprog, cur, cycles, type, addrun, sem>>
      /\ pc \in [Procs -> PCs] /\ sem \in [Procs -> 0 .. 1] /\ idlevmq \in Seq(Vms)
      /\ v \in Procs /\ v \notin Kprocs /\ idle \in BOOLEAN /\ irend # v
  BY DEF Startup, IInv, TypeOK, TokenOK, PCs, Procs
<1>2. ~Owns(v) /\ sem[v] = 0 /\ ~Has(idlevmq, v) /\ v \notin addrun
  <2>1. sem[v] = 0 \/ sem[v] = 1  BY <1>1
  <2> QED  BY <1>1, <2>1 DEF IInv, Owns, TokenOK, QueuesOK, Queued
<1>3. PICK a \in {"loop", "new"} :
         /\ pc' = [pc EXCEPT ![v] = a] /\ (a = "loop" <=> idle)
         /\ a = "loop" => idle' = FALSE /\ idlevmq' = idlevmq
         /\ a = "new" => idle' = idle /\ idlevmq' = <<v>> \o idlevmq
  BY DEF Startup, Goto
<1>4. pc' \in [Procs -> PCs] /\ pc'[v] = a /\ \A q \in Procs : q # v => pc'[q] = pc[q]
  BY <1>1, <1>3 DEF PCs
<1>5. /\ idlevmq' \in Seq(Vms) /\ Once(idlevmq')
      /\ \A z : Has(idlevmq', z) <=> Has(idlevmq, z) \/ (a = "new" /\ z = v)
  <2>1. CASE a = "loop"  BY <1>1, <1>3, <2>1 DEF IInv, QueuesOK
  <2>2. CASE a = "new"
    <3>1. Once(idlevmq) /\ idlevmq' = <<v>> \o idlevmq  BY <1>3, <2>2 DEF IInv, QueuesOK
    <3> QED  BY <1>1, <1>2, <2>2, <3>1, JoinHead
  <2> QED  BY <2>1, <2>2
<1>6. TypeOK'
  <2>1. idle' \in BOOLEAN /\ creating' \in BOOLEAN  BY <1>1, <1>3, Zenon
  <2> QED  BY <1>1, <1>4, <1>5, <2>1 DEF IInv, TypeOK, PCs
<1>7. KindOK'  BY <1>1, <1>4 DEF IInv, KindOK, VmPCs, Procs
<1>8. QueuesOK'  BY <1>1, <1>2, <1>4, <1>5 DEF IInv, QueuesOK, Queued
<1>9. TokenOK'  BY <1>1, <1>2, <1>4, <1>5 DEF IInv, TokenOK, Queued
<1>10. OwnOK'
  <2>1. \A q \in Procs : Owns(q)' <=> Owns(q) \/ (q = v /\ a = "loop")
    BY <1>1, <1>4, <1>5 DEF Owns, Queued
  <2>2. \A u \in Vms : pc'[u] # "startup"  BY <1>1, <1>4 DEF IInv, OwnOK, Procs
  <2>3. CASE a = "loop"
    <3>1. idle /\ ~idle'  BY <1>3, <2>3, Zenon
    <3> QED  BY <1>1, <2>1, <2>2, <2>3, <3>1 DEF IInv, OwnOK
  <2>4. CASE a = "new"
    <3>1. ~idle /\ ~idle'  BY <1>3, <2>4
    <3> QED  BY <1>1, <2>1, <2>2, <2>4, <3>1 DEF IInv, OwnOK
  <2> QED  BY <2>3, <2>4
<1>11. SavedOK'  BY <1>1, <1>4 DEF IInv, SavedOK, Procs, Queued
<1>12. HeadOK'  BY <1>1, <1>4 DEF IInv, HeadOK, Procs
<1>13. BornOK'  BY <1>1, <1>4, BornFrame DEF Procs
<1>14. GcOK'  BY <1>1, <1>4 DEF IInv, GcOK, Procs, Queued
<1> QED  BY <1>1, <1>6, <1>7, <1>8, <1>9, <1>10, <1>11, <1>12, <1>13, <1>14, PlaceFrame DEF IInv
=============================================================================
