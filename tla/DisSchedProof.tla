---------------------------- MODULE DisSchedProof -----------------------------
(***************************************************************************)
(* The scheduler of the Dis virtual machine, for any number of interpreter *)
(* processes, kernel processes and Progs: release, and the theorems.  One  *)
(* process owns the machine, a Prog is in one place, and a process that    *)
(* sleeps in cblock can be woken.                                          *)
(***************************************************************************)
EXTENDS DisSchedSteps

\* The owner puts a Prog on the run queue.
LEMMA AddrunStep == ASSUME IInv, NEW p \in Procs, NEW g \in Progs, Addrun(p, g) PROVE IInv'
<1>1. /\ pc[p] \in {"xec", "vm"} /\ g \in off /\ off' = off \ {g} /\ runq' = Append(runq, g)
      /\ UNCHANGED <<idle, creating, vmq, idlevmq, irend, iprog, cur, cycles, type, addrun, sem, pc>>
      /\ runq \in Seq(Progs \cup Procs) /\ ~Has(runq, g) /\ g \notin Procs
  BY DisSchedAssumption DEF Addrun, sched, IInv, TypeOK, PlaceOK, Procs
<1>2. runq # <<>>  BY <1>1 DEF IInv, HeadOK, KindOK, Procs, Queued
<1>3. /\ runq' \in Seq(Progs \cup Procs) /\ runq' # <<>> /\ Head(runq') = Head(runq)
      /\ \A z : Has(runq', z) <=> Has(runq, z) \/ z = g
      /\ Once(runq) => Once(runq')
  BY <1>1, <1>2, JoinTail
<1>4. TypeOK' /\ KindOK' /\ QueuesOK' /\ TokenOK' /\ OwnOK' /\ SavedOK' /\ GcOK'
  <2>1. TypeOK'  BY <1>1, <1>3 DEF IInv, TypeOK
  <2>2. KindOK' /\ QueuesOK'  BY <1>1 DEF IInv, KindOK, QueuesOK
  <2>3. TokenOK' /\ SavedOK' /\ GcOK'  BY <1>1 DEF IInv, TokenOK, SavedOK, GcOK
  <2>4. OwnOK'  BY <1>1 DEF IInv, OwnOK, Owns
  <2> QED  BY <2>1, <2>2, <2>3, <2>4
<1>5. PlaceOK'
  <2>1. iprog' = iprog /\ off' = off \ {g} /\ g \in off /\ ~Has(runq, g)  BY <1>1
  <2>2. \A v \in Vms : iprog[v] # Nil => iprog[v] # g  BY <2>1 DEF IInv, PlaceOK
  <2> QED  BY <1>3, <2>1, <2>2 DEF IInv, PlaceOK
<1>6. HeadOK'  BY <1>1, <1>2, <1>3 DEF IInv, HeadOK
<1> QED  BY <1>1, <1>4, <1>5, <1>6, BornFrame DEF IInv

\* Steps of a kernel process in cblock, or on its way back, that does not have the machine,
\* and of those that make it ready.
CblockMove(k, a) ==
    /\ pc' = [pc EXCEPT ![k] = a]
    /\ pc[k] = a \/ (pc[k] \in {"csleep", "cwait"} /\ a \in {"csleep", "cwait", "cback"})
    /\ sem' \in [Procs -> 0 .. 1] /\ \A q \in Procs : q # k => sem'[q] = sem[q]
    /\ addrun' \subseteq Kprocs /\ \A q \in Procs : q # k => (q \in addrun' <=> q \in addrun)
    /\ a = "cwait" => (k \in addrun' <=> sem'[k] = 0)
    /\ a \in {"csleep", "cback"} => sem'[k] = 0
    /\ a \in Queued => sem'[k] = sem[k]
    /\ UNCHANGED <<idle, creating, vmq, idlevmq, runq, off, irend, iprog, cur, cycles, type>>

\* Such a step keeps the invariant.
LEMMA CblockKeeps ==
    ASSUME IInv, NEW k \in Kprocs, NEW a \in {"csleep", "cwait", "cback"} \cup Queued,
           CblockMove(k, a)
    PROVE  IInv'
<1>1. k \in Procs /\ k \notin Vms /\ pc \in [Procs -> PCs]
  BY DisSchedAssumption DEF IInv, TypeOK, PCs, Procs
<1>2. /\ pc' \in [Procs -> PCs] /\ pc'[k] = a /\ \A q \in Procs : q # k => pc'[q] = pc[q]
      /\ pc[k] = a \/ (pc[k] \in {"csleep", "cwait"} /\ a \in {"csleep", "cwait", "cback"})
  BY <1>1 DEF CblockMove, PCs
<1>3. UNCHANGED <<idle, creating, vmq, idlevmq, runq, off, irend, iprog, cur, cycles, type>>
  BY DEF CblockMove
<1>4. /\ sem' \in [Procs -> 0 .. 1] /\ \A q \in Procs : q # k => sem'[q] = sem[q]
      /\ a \in Queued => sem'[k] = sem[k]
  BY DEF CblockMove
<1>5. \A v \in Vms : pc'[v] = pc[v]  BY <1>1, <1>2 DEF Procs
<1>6. ~Has(idlevmq, k) /\ (a \notin Queued => ~Has(vmq, k))
  BY <1>1, <1>2 DEF IInv, QueuesOK, Queued
<1>7. TypeOK'
  <2>1. addrun' \subseteq Kprocs  BY DEF CblockMove
  <2> QED  BY <1>2, <1>3, <1>4, <2>1 DEF IInv, TypeOK, PCs
<1>8. KindOK' /\ SavedOK' /\ GcOK'
  <2>1. KindOK'  BY <1>2, <1>5 DEF IInv, KindOK, Procs
  <2>2. SavedOK' /\ GcOK'  BY <1>3, <1>5 DEF IInv, SavedOK, GcOK
  <2> QED  BY <2>1, <2>2
<1>9. QueuesOK'
  <2>1. a \in Queued => pc[k] = a  BY <1>2 DEF Queued
  <2> QED  BY <1>1, <1>2, <1>3, <1>4, <1>6, <2>1 DEF IInv, QueuesOK
<1>10. TokenOK'
  <2>1. irend # k  BY <1>1, <1>2 DEF IInv, TokenOK, Queued
  <2>2. /\ \A q \in Procs : q # k => (q \in addrun' <=> q \in addrun)
        /\ a = "cwait" => (k \in addrun' <=> sem'[k] = 0)
        /\ a \in {"csleep", "cback"} => sem'[k] = 0
    BY DEF CblockMove
  <2>3. a \in Queued => pc[k] = a  BY <1>2 DEF Queued
  <2> QED  BY <1>1, <1>2, <1>3, <1>4, <2>1, <2>2, <2>3 DEF IInv, TokenOK, Queued
<1>11. OwnOK'
  <2>1. \A q \in Procs : Owns(q)' <=> Owns(q)  BY <1>1, <1>2, <1>3 DEF Owns, Queued
  <2> QED  BY <1>3, <1>5, <2>1 DEF IInv, OwnOK
<1>12. HeadOK'  BY <1>1, <1>2, <1>3, <1>5 DEF IInv, HeadOK, Procs, Queued
<1>13. PlaceOK' /\ BornOK'  BY <1>3, <1>5, PlaceFrame, BornFrame
<1> QED  BY <1>7, <1>8, <1>9, <1>10, <1>11, <1>12, <1>13 DEF IInv

\* cblock goes to sleep, or finds that it was woken.
LEMMA CblockSleepStep == ASSUME IInv, NEW k \in Kprocs, CblockSleep(k) PROVE IInv'
<1>1. /\ pc[k] = "csleep" /\ k \in Procs /\ sem \in [Procs -> 0 .. 1]
      /\ UNCHANGED <<idle, creating, vmq, idlevmq, runq, off, irend, iprog, cur, cycles, type>>
      /\ UNCHANGED <<addrun, sem>>
  BY DEF CblockSleep, CblockGo, sched, Procs, IInv, TypeOK
<1>2. PICK a \in {"cwait", "cback"} :
         pc' = [pc EXCEPT ![k] = a] /\ (a = "cback" <=> k \notin addrun)
  BY Zenon DEF CblockSleep, CblockGo, Goto
<1>3. sem[k] = 0
  <2>1. sem[k] = 0 \/ sem[k] = 1  BY <1>1
  <2> QED  BY <1>1, <2>1 DEF IInv, TokenOK, Queued
<1>4. addrun \subseteq Kprocs  BY DEF IInv, TypeOK
<1>5. CblockMove(k, a)  BY <1>1, <1>2, <1>3, <1>4 DEF CblockMove, Queued
<1> QED  BY <1>5, CblockKeeps

\* cblock is woken, or interrupted.
LEMMA CblockWokenStep ==
    ASSUME IInv, NEW k \in Kprocs, CblockWoken(k) \/ CblockIntr(k) PROVE IInv'
<1>1. /\ pc[k] \in {"csleep", "cwait"} /\ k \in Procs /\ sem \in [Procs -> 0 .. 1]
      /\ pc' = [pc EXCEPT ![k] = "cback"]
      /\ UNCHANGED <<idle, creating, vmq, idlevmq, runq, off, irend, iprog, cur, cycles, type>>
      /\ addrun' = addrun
  BY DEF CblockWoken, CblockIntr, Goto, sched, Procs, IInv, TypeOK
<1>2. sem' = [sem EXCEPT ![k] = 0]
  <2>1. CASE CblockWoken(k)
    <3>1. sem[k] > 0 /\ sem' = [sem EXCEPT ![k] = sem[k] - 1]  BY <2>1 DEF CblockWoken, osblock
    <3>2. sem[k] = 1  BY <1>1, <3>1
    <3> QED  BY <3>1, <3>2
  <2> QED  BY <2>1 DEF CblockIntr
<1>3. /\ sem' \in [Procs -> 0 .. 1] /\ sem'[k] = 0
      /\ \A q \in Procs : q # k => sem'[q] = sem[q]
  BY <1>1, <1>2
<1>4. addrun \subseteq Kprocs  BY DEF IInv, TypeOK
<1>5. CblockMove(k, "cback")  BY <1>1, <1>3, <1>4 DEF CblockMove, Queued
<1> QED  BY <1>5, CblockKeeps

\* cwakeme: the process in cblock is made ready if it sleeps.
LEMMA CwakemeStep ==
    ASSUME IInv, NEW p \in Procs, NEW k \in Kprocs, Cwakeme(p, k) PROVE IInv'
<1>1. /\ k \in addrun /\ addrun' = addrun \ {k} /\ k \in Procs /\ sem \in [Procs -> 0 .. 1]
      /\ pc \in [Procs -> PCs] /\ pc' = pc
      /\ UNCHANGED <<idle, creating, vmq, idlevmq, runq, off, irend, iprog, cur, cycles, type>>
      /\ IF pc[k] = "cwait" THEN sem' = [sem EXCEPT ![k] = sem[k] + 1] ELSE sem' = sem
  BY DEF Cwakeme, osready, sched, Procs, IInv, TypeOK, PCs
<1>2. PICK a \in {"csleep", "cwait", "cback"} \cup Queued : pc[k] = a
  BY <1>1 DEF IInv, TokenOK
<1>3. a \notin Queued => sem[k] = 0
  <2>1. sem[k] = 0 \/ sem[k] = 1  BY <1>1
  <2> QED  BY <1>1, <1>2, <2>1 DEF IInv, TokenOK, Queued
<1>4. /\ sem' \in [Procs -> 0 .. 1] /\ \A q \in Procs : q # k => sem'[q] = sem[q]
      /\ sem'[k] = IF a = "cwait" THEN 1 ELSE sem[k]
  <2>1. CASE a = "cwait"
    <3>1. sem' = [sem EXCEPT ![k] = 1]  BY <1>1, <1>2, <1>3, <2>1 DEF Queued
    <3> QED  BY <1>1, <2>1, <3>1
  <2>2. CASE a # "cwait"  BY <1>1, <1>2, <2>2
  <2> QED  BY <2>1, <2>2
<1>5. pc' = [pc EXCEPT ![k] = a]  BY <1>1, <1>2
<1>6. /\ addrun' \subseteq Kprocs /\ k \notin addrun'
      /\ \A q \in Procs : q # k => (q \in addrun' <=> q \in addrun)
  BY <1>1 DEF IInv, TypeOK
<1>7. /\ a = "cwait" => (k \in addrun' <=> sem'[k] = 0)
      /\ a \in {"csleep", "cback"} => sem'[k] = 0
      /\ a \in Queued => sem'[k] = sem[k]
  BY <1>3, <1>4, <1>6 DEF Queued
<1>8. CblockMove(k, a)  BY <1>1, <1>2, <1>4, <1>5, <1>6, <1>7, Zenon DEF CblockMove
<1> QED  BY <1>8, CblockKeeps

\* release passes the machine to h, taken off a queue, or with h nil finds nobody and has
\* the interpreter n made, unless n is nil and one is being made.
Passes(p, l, h, n) ==
    /\ vmq' \in Seq(Procs) /\ idlevmq' \in Seq(Vms) /\ Once(vmq') /\ Once(idlevmq')
    /\ \A q \in Procs : Has(vmq', q) <=> Has(vmq, q) /\ q # h
    /\ \A q \in Procs : Has(idlevmq', q) <=> Has(idlevmq, q) /\ q # h
    /\ h # Nil => /\ (pc[h] \in Queued \/ pc[h] \in {"idle", "new"}) /\ sem[h] = 0
                  /\ idle' = idle /\ creating' = creating /\ n = Nil
    /\ h = Nil => /\ idle' = TRUE /\ creating' = TRUE /\ (n = Nil <=> creating)
                  /\ vmq = <<>> /\ idlevmq = <<>> /\ vmq' = <<>> /\ idlevmq' = <<>>
    /\ n # Nil => pc[n] = "unborn"
    /\ sem' \in [Procs -> 0 .. 1] /\ \A q \in Procs : sem'[q] = IF q = h THEN 1 ELSE sem[q]
    /\ pc' \in [Procs -> PCs] /\ pc'[p] = l
    /\ \A q \in Procs : q # p => pc'[q] = IF q = n THEN "startup" ELSE pc[q]

\* Every way through release is one of these.
LEMMA GivePasses ==
    ASSUME IInv, NEW p \in Procs, pc[p] \in {"xec", "gc", "vm"}, NEW l \in {"out", "csleep"}, Give(p, l)
    PROVE  \E h \in Procs \cup {Nil}, n \in Vms \cup {Nil} : Passes(p, l, h, n)
<1> USE DisSchedAssumption
<1>1. /\ vmq \in Seq(Procs) /\ idlevmq \in Seq(Vms) /\ Once(vmq) /\ Once(idlevmq)
      /\ pc \in [Procs -> PCs] /\ sem \in [Procs -> 0 .. 1] /\ Nil \notin Procs
      /\ \A v \in Vms : v \in Procs /\ v # Nil
  BY DEF IInv, TypeOK, QueuesOK, PCs, Procs
<1>2. /\ \A q \in Procs : Has(vmq, q) => pc[q] \in Queued /\ sem[q] = 0
      /\ \A q \in Procs : Has(idlevmq, q) => pc[q] \in {"idle", "new"} /\ sem[q] = 0
      /\ \A q \in Procs : ~(Has(vmq, q) /\ Has(idlevmq, q))
  BY DEF IInv, QueuesOK, Queued
<1>3. ASSUME pc' = [pc EXCEPT ![p] = l]
      PROVE  /\ pc' \in [Procs -> PCs] /\ pc'[p] = l
             /\ \A q \in Procs : q # p => pc'[q] = pc[q]
  BY <1>1, <1>3 DEF PCs
<1>4. ASSUME NEW h \in Procs, sem[h] = 0, sem' = [sem EXCEPT ![h] = sem[h] + 1]
      PROVE  /\ sem' \in [Procs -> 0 .. 1]
             /\ \A q \in Procs : sem'[q] = IF q = h THEN 1 ELSE sem[q]
  <2>1. sem' = [sem EXCEPT ![h] = 1]  BY <1>4
  <2> QED  BY <1>1, <2>1
<1>5. CASE vmq # <<>>
  <2>1. PICK h \in Procs : h = Head(vmq)  BY <1>1, <1>5, LeaveHead
  <2>2. /\ vmq' = Tail(vmq) /\ sem' = [sem EXCEPT ![h] = sem[h] + 1]
        /\ pc' = [pc EXCEPT ![p] = l] /\ UNCHANGED <<idle, creating, idlevmq>>
    BY <1>5, <2>1 DEF Give, Goto, osready
  <2>3. /\ vmq' \in Seq(Procs) /\ Once(vmq') /\ Has(vmq, h)
        /\ \A q \in Procs : Has(vmq', q) <=> Has(vmq, q) /\ q # h
    BY <1>1, <1>5, <2>1, <2>2, LeaveHead
  <2>4. Passes(p, l, h, Nil)  BY <1>1, <1>2, <1>3, <1>4, <2>2, <2>3 DEF Passes
  <2> QED  BY <2>4
<1>6. CASE vmq = <<>> /\ idlevmq # <<>>
  <2>1. PICK h \in Vms : h = Head(idlevmq)  BY <1>1, <1>6, LeaveHead
  <2>2. /\ idlevmq' = Tail(idlevmq) /\ sem' = [sem EXCEPT ![h] = sem[h] + 1]
        /\ pc' = [pc EXCEPT ![p] = l] /\ UNCHANGED <<idle, creating, vmq>>
    BY <1>6, <2>1 DEF Give, Goto, osready
  <2>3. /\ idlevmq' \in Seq(Vms) /\ Once(idlevmq') /\ Has(idlevmq, h) /\ h \in Procs
        /\ \A q \in Procs : Has(idlevmq', q) <=> Has(idlevmq, q) /\ q # h
    BY <1>1, <1>6, <2>1, <2>2, LeaveHead
  <2>4. Passes(p, l, h, Nil)  BY <1>1, <1>2, <1>3, <1>4, <2>2, <2>3 DEF Passes
  <2> QED  BY <2>3, <2>4
<1>7. CASE vmq = <<>> /\ idlevmq = <<>>
  <2>1. /\ idle' = TRUE /\ creating' = TRUE /\ UNCHANGED <<vmq, idlevmq, sem>>
        /\ IF creating THEN pc' = [pc EXCEPT ![p] = l]
           ELSE /\ Unborn # {}
                /\ pc' = [pc EXCEPT ![CHOOSE v \in Unborn : TRUE] = "startup", ![p] = l]
    BY <1>7 DEF Give, Goto
  <2>2. \A z : ~Has(vmq, z) /\ ~Has(idlevmq, z) /\ ~Has(vmq', z) /\ ~Has(idlevmq', z)
    BY <1>7, <2>1, EmptyQueue
  <2>3. CASE creating
    <3>1. pc' = [pc EXCEPT ![p] = l]  BY <2>1, <2>3
    <3>2. Passes(p, l, Nil, Nil)  BY <1>1, <1>3, <1>7, <2>1, <2>2, <2>3, <3>1 DEF Passes
    <3> QED  BY <3>2
  <2>4. CASE ~creating
    <3>1. PICK n \in Unborn : pc' = [pc EXCEPT ![n] = "startup", ![p] = l]  BY <2>1, <2>4
    <3>2. n \in Vms /\ pc[n] = "unborn" /\ n # p  BY <3>1 DEF Unborn
    <3>3. /\ pc' \in [Procs -> PCs] /\ pc'[p] = l
          /\ \A q \in Procs : q # p => pc'[q] = IF q = n THEN "startup" ELSE pc[q]
      BY <1>1, <3>1, <3>2 DEF PCs
    <3>4. Passes(p, l, Nil, n)  BY <1>1, <1>7, <2>1, <2>2, <2>4, <3>2, <3>3 DEF Passes
    <3> QED  BY <3>2, <3>4
  <2> QED  BY <2>3, <2>4
<1> QED  BY <1>5, <1>6, <1>7

\* What release does to the owner, the queues and the tokens.
LEMMA GiveKeeps ==
    ASSUME IInv, NEW p \in Procs, pc[p] \in {"xec", "gc", "vm"}, NEW l \in {"out", "csleep"},
           Give(p, l), l = "csleep" => p \in Kprocs, irend' = irend,
           addrun' = IF l = "csleep" THEN addrun \cup {p} ELSE addrun
    PROVE  /\ vmq' \in Seq(Procs) /\ idlevmq' \in Seq(Vms) /\ sem' \in [Procs -> 0 .. 1]
           /\ idle' \in BOOLEAN /\ creating' \in BOOLEAN /\ pc' \in [Procs -> PCs]
           /\ KindOK' /\ QueuesOK' /\ TokenOK' /\ OwnOK'
           /\ pc'[p] = l /\ \A q \in Procs : q # p => ~Owns(q)
           /\ \A q \in Procs : q # p =>
                 pc'[q] = pc[q] \/ (pc[q] = "unborn" /\ pc'[q] = "startup")
           /\ \/ \A v \in Vms : pc'[v] = "unborn" <=> pc[v] = "unborn"
              \/ \A v \in Vms : v # p => pc'[v] \in {"unborn", "startup", "out"}
<1> USE DisSchedAssumption
<1>1. PICK h \in Procs \cup {Nil}, n \in Vms \cup {Nil} : Passes(p, l, h, n)  BY GivePasses
<1>2. /\ vmq' \in Seq(Procs) /\ idlevmq' \in Seq(Vms) /\ sem' \in [Procs -> 0 .. 1]
      /\ pc' \in [Procs -> PCs] /\ pc'[p] = l
      /\ \A q \in Procs : q # p => pc'[q] = IF q = n THEN "startup" ELSE pc[q]
      /\ \A q \in Procs : sem'[q] = IF q = h THEN 1 ELSE sem[q]
      /\ \A q \in Procs : Has(vmq', q) <=> Has(vmq, q) /\ q # h
      /\ \A q \in Procs : Has(idlevmq', q) <=> Has(idlevmq, q) /\ q # h
  BY <1>1 DEF Passes
<1>3. /\ h # Nil => /\ (pc[h] \in Queued \/ pc[h] \in {"idle", "new"}) /\ sem[h] = 0
                    /\ idle' = idle /\ creating' = creating /\ n = Nil
      /\ h = Nil => /\ idle' = TRUE /\ creating' = TRUE /\ (n = Nil <=> creating)
                    /\ vmq = <<>> /\ idlevmq = <<>> /\ vmq' = <<>> /\ idlevmq' = <<>>
      /\ n # Nil => pc[n] = "unborn" /\ n \in Procs
  BY <1>1 DEF Passes, Procs
<1>4. idle' \in BOOLEAN /\ creating' \in BOOLEAN
  <2>1. idle \in BOOLEAN /\ creating \in BOOLEAN  BY DEF IInv, TypeOK
  <2>2. (idle' = idle /\ creating' = creating) \/ (idle' = TRUE /\ creating' = TRUE)  BY <1>3
  <2> QED  BY <2>1, <2>2, Zenon
<1>5. Owns(p) /\ h # p /\ n # p /\ (h = Nil \/ h \in Procs) /\ Nil \notin Procs
  <2>1. p # Nil /\ Nil \notin Procs  BY DEF Procs
  <2> QED  BY <1>3, <2>1 DEF Owns, Queued
<1>6. \A q \in Procs : q # p => ~Owns(q)  BY <1>5 DEF IInv, OwnOK
<1>7. /\ sem[p] = 0 /\ p \notin addrun /\ irend # p /\ ~Has(vmq, p) /\ ~Has(idlevmq, p)
      /\ Nil \notin Procs
  <2>1. sem[p] = 0 \/ sem[p] = 1  BY DEF IInv, TypeOK
  <2> QED  BY <2>1 DEF IInv, TokenOK, QueuesOK, Queued, Procs
<1>8. n # Nil => /\ sem[n] = 0 /\ n \notin addrun /\ irend # n
                 /\ ~Has(vmq, n) /\ ~Has(idlevmq, n)
  <2>1. n # Nil => sem[n] = 0 \/ sem[n] = 1  BY <1>3 DEF IInv, TypeOK
  <2> QED  BY <1>3, <2>1 DEF IInv, TokenOK, QueuesOK, Queued
<1>9. KindOK'
  <2>1. \A v \in Vms : v \in Procs /\ v \notin Kprocs  BY DEF Procs
  <2>2. \A k \in Kprocs : k \in Procs /\ k # n  BY DEF Procs
  <2> QED  BY <1>2, <2>1, <2>2 DEF IInv, KindOK, VmPCs
<1>10. QueuesOK'
  <2>1. Once(vmq') /\ Once(idlevmq')  BY <1>1 DEF Passes
  <2> QED  BY <1>2, <1>7, <1>8, <2>1 DEF IInv, QueuesOK
<1>11. TokenOK'
  <2>1. h # Nil => irend # h /\ pc[h] # "cwait" /\ h # n
    BY <1>3, <1>5 DEF IInv, TokenOK, Queued
  <2>2. \A q \in Procs : q # p => (q \in addrun' <=> q \in addrun)  OBVIOUS
  <2>3. p \in addrun' <=> l = "csleep"  BY <1>7
  <2>4. \A q \in Procs : q # p /\ q # n => pc'[q] = pc[q]  BY <1>2
  <2> QED
    BY <1>2, <1>3, <1>5, <1>7, <1>8, <2>1, <2>2, <2>3, <2>4 DEF IInv, TokenOK, Queued
<1>12. OwnOK'
  <2>1. \A q \in Procs : Owns(q)' <=> q = h
    BY <1>2, <1>3, <1>5, <1>6, <1>7, <1>8 DEF Owns, Queued
  <2>2. \A v \in Vms : pc'[v] = "startup" <=> pc[v] = "startup" \/ v = n
    BY <1>2, <1>3, <1>5 DEF Procs
  <2>3. ~idle /\ (n # Nil => n \in Vms /\ ~creating /\ h = Nil)  BY <1>3, <1>5 DEF IInv, OwnOK
  <2>4. CASE h = Nil  BY <1>3, <1>7, <2>1, <2>2, <2>3, <2>4 DEF IInv, OwnOK
  <2>5. CASE h # Nil  BY <1>3, <1>5, <2>1, <2>2, <2>3, <2>5 DEF IInv, OwnOK, Procs
  <2> QED  BY <2>4, <2>5
<1>13. \/ \A v \in Vms : pc'[v] = "unborn" <=> pc[v] = "unborn"
       \/ \A v \in Vms : v # p => pc'[v] \in {"unborn", "startup", "out"}
  <2>1. CASE n = Nil  BY <1>2, <1>5, <2>1 DEF Procs
  <2>2. CASE n # Nil
    <3>1. \A z : ~Has(vmq, z) /\ ~Has(idlevmq, z)  BY <1>3, <2>2, EmptyQueue
    <3>2. \A v \in Vms : v \in Procs /\ pc[v] \in VmPCs  BY DEF IInv, KindOK, Procs
    <3>3. \A v \in Vms : v # p => pc[v] \in {"unborn", "startup", "out"}
      BY <1>6, <3>1, <3>2 DEF Owns, VmPCs
    <3> QED  BY <1>2, <3>2, <3>3
  <2> QED  BY <2>1, <2>2
<1>14. \A q \in Procs : q # p => pc'[q] = pc[q] \/ (pc[q] = "unborn" /\ pc'[q] = "startup")
  BY <1>2, <1>3, <1>5
<1> QED  BY <1>2, <1>4, <1>6, <1>9, <1>10, <1>11, <1>12, <1>13, <1>14

\* release, and cblock as far as its release: the Prog at the head of the run queue is the
\* process's own, and leaves it.
LEMMA ReleaseKeeps ==
    ASSUME IInv, NEW p \in Procs, pc[p] \in {"xec", "gc", "vm"}, NEW l \in {"out", "csleep"},
           Give(p, l), l = "csleep" => p \in Kprocs, runq' = Tail(runq),
           iprog' = IF p \in Interps THEN [iprog EXCEPT ![p] = Head(runq)] ELSE iprog,
           addrun' = IF l = "csleep" THEN addrun \cup {p} ELSE addrun,
           pc[p] = "gc" => Vms \ {p} \subseteq Interps,
           UNCHANGED <<off, irend, cur, cycles, type>>
    PROVE  IInv'
<1> USE DisSchedAssumption
<1>1. /\ vmq' \in Seq(Procs) /\ idlevmq' \in Seq(Vms) /\ sem' \in [Procs -> 0 .. 1]
      /\ idle' \in BOOLEAN /\ creating' \in BOOLEAN /\ pc' \in [Procs -> PCs]
      /\ KindOK' /\ QueuesOK' /\ TokenOK' /\ OwnOK'
  BY GiveKeeps
<1>2. /\ pc'[p] = l /\ \A q \in Procs : q # p => ~Owns(q)
      /\ \A q \in Procs : q # p => pc'[q] = pc[q] \/ (pc[q] = "unborn" /\ pc'[q] = "startup")
      /\ \/ \A v \in Vms : pc'[v] = "unborn" <=> pc[v] = "unborn"
         \/ \A v \in Vms : v # p => pc'[v] \in {"unborn", "startup", "out"}
  BY GiveKeeps
<1>3. /\ runq \in Seq(Progs \cup Procs) /\ iprog \in [Vms -> Progs \cup {Nil}]
      /\ Once(runq) /\ runq # <<>>
      /\ (p \in Interps /\ Head(runq) = cur[p] /\ Head(runq) \in Progs)
         \/ (p \notin Interps /\ Head(runq) = p)
  <2>1. p \in Vms => pc[p] \in {"xec", "gc"}  BY DEF IInv, KindOK, VmPCs, Queued
  <2>2. p \in Interps <=> p \in Vms /\ pc[p] = "xec"  BY <2>1 DEF IInv, GcOK, Interps, Queued
  <2>3. p \notin Vms => pc[p] = "vm"  BY DEF IInv, KindOK, Queued, Procs
  <2> QED  BY <2>1, <2>2, <2>3 DEF IInv, TypeOK, PlaceOK, HeadOK
<1>4. PICK g \in Progs \cup Procs : g = Head(runq)  BY <1>3
<1>5. /\ Has(runq, g) /\ runq' \in Seq(Progs \cup Procs) /\ Once(runq') /\ ~Has(runq', g)
      /\ \A z : Has(runq, z) <=> Has(runq', z) \/ z = g
  BY <1>3, <1>4, LeaveHead
<1>6. /\ \A v \in Vms : v # p => iprog'[v] = iprog[v]
      /\ iprog' \in [Vms -> Progs \cup {Nil}]
      /\ p \in Interps => /\ p \in Vms /\ type[p] = "Interp" /\ g \in Progs /\ iprog'[p] = g
                         /\ cur[p] = g /\ l = "out" /\ iprog[p] = Nil
      /\ p \notin Interps => /\ g = p /\ p \notin Progs /\ iprog' = iprog
                            /\ (p \in Vms => type[p] # "Interp" /\ iprog[p] = Nil /\ l = "out")
  <2>1. CASE p \in Interps
    <3>1. g \in Progs /\ cur[p] = g /\ p \in Vms /\ type[p] = "Interp"  BY <1>3, <1>4, <2>1 DEF Interps
    <3>2. l = "out" /\ iprog[p] = Nil  BY <3>1 DEF IInv, SavedOK, Queued
    <3>3. iprog' = [iprog EXCEPT ![p] = g]  BY <1>4, <2>1
    <3> QED  BY <1>3, <2>1, <3>1, <3>2, <3>3
  <2>2. CASE p \notin Interps
    <3>1. g = p /\ p \notin Progs /\ iprog' = iprog  BY <1>3, <1>4, <2>2 DEF Procs
    <3>2. p \in Vms => type[p] # "Interp" /\ iprog[p] = Nil /\ l = "out"
      BY <2>2 DEF IInv, SavedOK, Interps, Queued
    <3> QED  BY <1>3, <2>2, <3>1, <3>2
  <2> QED  BY <2>1, <2>2
<1>7. TypeOK'  BY <1>1, <1>5, <1>6 DEF IInv, TypeOK, PCs
<1>8. PlaceOK'
  <2>1. \A v \in Vms : iprog[v] # Nil => iprog[v] # g /\ ~Has(runq', iprog[v])
    BY <1>5 DEF IInv, PlaceOK
  <2>2. g \in Progs => g \notin off  BY <1>5 DEF IInv, PlaceOK
  <2>3. CASE p \in Interps
    <3>1. \A z \in Progs : z \in off \/ Has(runq', z) \/ \E v \in Vms : iprog'[v] = z
      BY <1>5, <1>6, <2>3 DEF IInv, PlaceOK
    <3> QED  BY <1>5, <1>6, <2>1, <2>2, <2>3, <3>1 DEF IInv, PlaceOK
  <2>4. CASE p \notin Interps
    <3>1. iprog' = iprog /\ \A z \in Progs : Has(runq', z) <=> Has(runq, z)
      BY <1>5, <1>6, <2>4
    <3> QED  BY <1>5, <3>1, PlaceSame
  <2> QED  BY <2>3, <2>4
<1>9. \A v \in Vms : v \in Procs /\ v # Nil  BY DEF Procs
<1>10. SavedOK'
  <2>1. \A v \in Vms : v # p => /\ iprog'[v] = iprog[v]
                               /\ pc'[v] \in {"out"} \cup Queued <=> pc[v] \in {"out"} \cup Queued
    BY <1>2, <1>6, <1>9 DEF Queued
  <2>2. p \in Vms => /\ iprog'[p] # Nil <=> pc'[p] \in {"out"} \cup Queued /\ type[p] = "Interp"
                     /\ iprog'[p] # Nil => cur[p] = iprog'[p]
    BY <1>2, <1>6
  <2> QED  BY <2>1, <2>2 DEF IInv, SavedOK
<1>11. HeadOK'
  <2>1. \A q \in Procs : pc'[q] \notin {"xec", "gc", "vm"}  BY <1>2 DEF Owns
  <2>2. \A q \in Procs : ~Has(runq', q)
    <3>1. \A q \in Procs : Has(runq, q) => Owns(q)  BY DEF IInv, HeadOK, Owns
    <3>2. p \in Interps => ~Has(runq, p)
      <4>1. p \in Interps => pc[p] \notin {"gc", "vm"}
        BY DEF IInv, GcOK, KindOK, VmPCs, Interps, Queued
      <4> QED  BY <4>1 DEF IInv, HeadOK
    <3> QED  BY <1>2, <1>5, <1>6, <3>1, <3>2
  <2> QED  BY <1>9, <2>1, <2>2 DEF HeadOK
<1>12. GcOK'
  <2>1. \A v \in Vms : pc'[v] # "gc"  BY <1>2, <1>9 DEF Owns
  <2>2. \A v \in Vms : v # p => pc[v] # "gc"  BY <1>2, <1>9 DEF Owns
  <2>3. \A v \in Vms : v # p /\ type[v] # "Interp" => pc'[v] \in {"out"} \cup Queued
    BY <1>2, <1>9, <2>2 DEF IInv, GcOK, Queued
  <2>4. p \in Vms /\ type[p] # "Interp" =>
           /\ pc'[p] = "out" /\ \A v \in Vms : v # p => type[v] = "Interp"
    <3>1. p \in Vms /\ type[p] # "Interp" => pc[p] = "gc" /\ p \notin Interps
      BY DEF IInv, GcOK, Interps, Queued
    <3> QED  BY <1>2, <1>6, <3>1 DEF Interps
  <2>5. \A u, v \in Vms : type[u] # "Interp" /\ type[v] # "Interp" => u = v
    BY <2>2, <2>4 DEF IInv, GcOK
  <2> QED  BY <2>1, <2>3, <2>4, <2>5 DEF GcOK
<1>13. BornOK'
  <2>1. CASE \A v \in Vms : pc'[v] = "unborn" <=> pc[v] = "unborn"  BY <2>1, BornFrame
  <2>2. CASE \A v \in Vms : v # p => pc'[v] \in {"unborn", "startup", "out"}
    <3> DEFINE B == Vms \ Unborn'
               f == [v \in B |-> IF type[v] = "Interp" THEN iprog'[v] ELSE Boot]
    <3>1. f \in [B -> Progs \cup {Nil, Boot}]  BY <1>6
    <3>2. ASSUME NEW u \in B, NEW v \in B, f[u] = f[v] PROVE u = v
      <4>1. /\ pc'[u] \in {"startup", "out"} /\ pc'[v] \in {"startup", "out"}
            /\ u \in Vms /\ v \in Vms
        BY <1>2, <1>6, <2>2 DEF Unborn, Interps
      <4>2. Boot \notin Progs /\ Boot # Nil  OBVIOUS
      <4>3. CASE type[u] # "Interp" /\ type[v] # "Interp"
        BY <1>12, <4>1, <4>3 DEF GcOK
      <4>4. CASE type[u] = "Interp" /\ type[v] = "Interp"
        <5>1. iprog'[u] = iprog'[v]  BY <3>2, <4>4
        <5>2. CASE iprog'[u] # Nil  BY <1>8, <4>1, <5>1, <5>2 DEF PlaceOK
        <5>3. CASE iprog'[u] = Nil
          <6>1. pc'[u] = "startup" /\ pc'[v] = "startup"
            BY <1>10, <4>1, <4>4, <5>1, <5>3 DEF SavedOK
          <6> QED  BY <1>1, <4>1, <6>1 DEF OwnOK
        <5> QED  BY <5>2, <5>3
      <4>5. CASE type[u] = "Interp" /\ type[v] # "Interp"
        <5>1. iprog'[u] = Boot  BY <3>2, <4>5
        <5> QED  BY <1>6, <4>1, <4>2, <5>1
      <4>6. CASE type[u] # "Interp" /\ type[v] = "Interp"
        <5>1. iprog'[v] = Boot  BY <3>2, <4>6
        <5> QED  BY <1>6, <4>1, <4>2, <5>1
      <4> QED  BY <4>3, <4>4, <4>5, <4>6
    <3> QED  BY <3>1, <3>2 DEF BornOK
  <2> QED  BY <1>2, <2>1, <2>2
<1> QED  BY <1>1, <1>7, <1>8, <1>10, <1>11, <1>12, <1>13 DEF IInv

\* release by an interpreter, in xec or in the collector's turn, or by a kernel process, and
\* cblock.
LEMMA ReleaseStep ==
    /\ \A v \in Vms : IInv /\ (ReleaseVm(v) \/ ReleaseGc(v)) => IInv'
    /\ \A k \in Kprocs : IInv /\ (ReleaseKproc(k) \/ Cblock(k)) => IInv'
<1>1. \A v \in Vms : v \in Procs  BY DEF Procs
<1>2. \A k \in Kprocs : k \in Procs /\ k \notin Interps
  BY DisSchedAssumption DEF Procs, Interps
<1>3. ASSUME NEW v \in Vms, IInv, ReleaseVm(v) PROVE IInv'
  <2>1. v \in Interps  BY <1>3 DEF ReleaseVm, IInv, GcOK, Interps, Queued
  <2> QED  BY <1>1, <1>3, <2>1, ReleaseKeeps DEF ReleaseVm
<1>4. ASSUME NEW v \in Vms, IInv, ReleaseGc(v) PROVE IInv'
  <2>1. v \notin Interps  BY <1>4 DEF ReleaseGc, IInv, GcOK, Interps
  <2> QED  BY <1>1, <1>4, <2>1, ReleaseKeeps DEF ReleaseGc
<1>5. ASSUME NEW k \in Kprocs, IInv, ReleaseKproc(k) PROVE IInv'
  BY <1>2, <1>5, ReleaseKeeps DEF ReleaseKproc
<1>6. ASSUME NEW k \in Kprocs, IInv, Cblock(k) PROVE IInv'
  BY <1>2, <1>6, ReleaseKeeps DEF Cblock
<1> QED  BY <1>3, <1>4, <1>5, <1>6

\* No step of the scheduler breaks the invariant.
LEMMA NextKeeps == IInv /\ [Next]_vars => IInv'
<1> SUFFICES ASSUME IInv, [Next]_vars PROVE IInv'  OBVIOUS
<1>1. ASSUME NEW p \in Procs, Acquire(p) \/ AcquireOn(p) PROVE IInv'
  BY <1>1, AcquireIdleStep, AcquireQueueStep, AcquireWakeupStep, AcquireDoneStep
     DEF Acquire, AcquireOn
<1>2. ASSUME NEW p \in Procs, NEW g \in Progs, Addrun(p, g) PROVE IInv'  BY <1>2, AddrunStep
<1>3. ASSUME NEW p \in Procs, NEW k \in Kprocs, Cwakeme(p, k) PROVE IInv'
  BY <1>3, CwakemeStep
<1>4. ASSUME NEW v \in Vms, Vmachine(v) PROVE IInv'
  BY <1>4, StartupStep, StartupDoneStep, IyieldDoneStep, LoopStep, CollectEndStep,
     LoopSleepStep, LoopWokenStep, YieldStep DEF Vmachine
<1>5. ASSUME NEW v \in Vms, Xec(v) \/ ReleaseGc(v) PROVE IInv'
  BY <1>5, XecStep, ReleaseStep DEF Xec
<1>6. ASSUME NEW k \in Kprocs, Kproc(k) \/ CblockOn(k) \/ CblockIntr(k) PROVE IInv'
  BY <1>6, ReleaseStep, CblockSleepStep, CblockWokenStep DEF Kproc, CblockOn
<1>7. ASSUME UNCHANGED vars PROVE IInv'
  <2>1. UNCHANGED <<idle, creating, vmq, idlevmq, runq, off, irend, iprog, cur, cycles,
                    type, addrun, sem, pc>>
    BY <1>7 DEF vars, sched
  <2>2. TypeOK' /\ KindOK' /\ QueuesOK' /\ TokenOK'
    BY <2>1 DEF IInv, TypeOK, KindOK, QueuesOK, TokenOK
  <2>3. OwnOK' /\ SavedOK' /\ HeadOK'  BY <2>1 DEF IInv, OwnOK, Owns, SavedOK, HeadOK
  <2>4. GcOK'  BY <2>1 DEF IInv, GcOK
  <2> QED  BY <2>1, <2>2, <2>3, <2>4, PlaceFrame, BornFrame DEF IInv
<1> QED  BY <1>1, <1>2, <1>3, <1>4, <1>5, <1>6, <1>7 DEF Next

\* The invariant holds in every behaviour of the scheduler.
THEOREM Invariance == Spec => []IInv
  BY InitKeeps, NextKeeps, PTL DEF Spec

\* A kernel process asleep in cblock can be woken, however many processes there are and
\* whatever runs between its release of the machine and its Sleep.
THEOREM CblockWakes == Spec => []CblockIsWoken
<1>1. IInv => CblockIsWoken  BY DEF IInv, TokenOK, CblockIsWoken, Procs
<1> QED  BY <1>1, Invariance, PTL

-----------------------------------------------------------------------------
INSTANCE FiniteSetTheorems

\* A queue's range.
LEMMA HasRange == ASSUME NEW S, NEW q \in Seq(S), NEW z PROVE z \in Range(q) <=> Has(q, z)
<1>1. DOMAIN q = 1 .. Len(q)  OBVIOUS
<1> QED  BY <1>1 DEF Range, Has

\* How often a Prog is on a queue where nothing is twice.
LEMMA TimesOn ==
    ASSUME NEW S, NEW q \in Seq(S), Once(q), NEW g
    PROVE  Cardinality({i \in DOMAIN q : q[i] = g}) = IF Has(q, g) THEN 1 ELSE 0
<1> DEFINE A == {i \in DOMAIN q : q[i] = g}
<1>1. DOMAIN q = 1 .. Len(q)  OBVIOUS
<1>2. CASE Has(q, g)
  <2>1. PICK i \in 1 .. Len(q) : q[i] = g  BY <1>2 DEF Has
  <2>2. A = {i}  BY <1>1, <2>1 DEF Once
  <2> QED  BY <1>2, <2>2, FS_Singleton
<1>3. CASE ~Has(q, g)
  <2>1. A = {}  BY <1>1, <1>3 DEF Has
  <2> QED  BY <1>3, <2>1, FS_EmptySet
<1> QED  BY <1>2, <1>3

\* One process owns the virtual machine, or it is idle with an interpreter on its way, for
\* any number of interpreters, kernel processes and Progs.
THEOREM Ownership == Spec => []OneOwner
<1>1. ASSUME IInv PROVE OneOwner
  <2>1. Owners = {p \in Procs : Owns(p)}
    <3>1. vmq \in Seq(Procs) /\ idlevmq \in Seq(Vms)  BY <1>1 DEF IInv, TypeOK
    <3>2. \A p : /\ p \in Range(vmq) <=> Has(vmq, p)
                 /\ p \in Range(idlevmq) <=> Has(idlevmq, p)
      BY <3>1, HasRange
    <3> QED  BY <3>2, Zenon DEF Owners, Owns
  <2>2. idle \/ ~idle  OBVIOUS
  <2>3. ASSUME idle PROVE Owners = {}  BY <1>1, <2>1, <2>3 DEF IInv, OwnOK
  <2>4. ASSUME ~idle PROVE \E p : Owners = {p}
    <3>1. PICK p \in Procs : Owns(p)  BY <1>1, <2>4 DEF IInv, OwnOK
    <3>2. \A q \in Procs : Owns(q) => q = p  BY <1>1, <3>1 DEF IInv, OwnOK
    <3> QED  BY <2>1, <3>1, <3>2
  <2>5. Cardinality(Owners) = IF idle THEN 0 ELSE 1
    BY <2>2, <2>3, <2>4, FS_EmptySet, FS_Singleton
  <2>6. idle => vmq = <<>> /\ idlevmq = <<>> /\ \E v \in Vms : pc[v] = "startup"
    BY <1>1 DEF IInv, OwnOK
  <2> QED  BY <2>5, <2>6 DEF OneOwner
<1> QED  BY <1>1, Invariance, PTL

\* A Prog is in one place, who runs the machine, in the collector's turn too, finds its own
\* Prog at the head of the run queue, and release makes at most two interpreters more than
\* there are Progs, for any number of them.
THEOREM Formed == Spec => []WellFormed
<1>1. ASSUME IInv PROVE WellFormed
  <2>1. ASSUME NEW g \in Progs PROVE Places(g) = IF g \in off THEN 0 ELSE 1
    <3>1. Cardinality({i \in DOMAIN runq : runq[i] = g}) = IF Has(runq, g) THEN 1 ELSE 0
      <4>1. runq \in Seq(Progs \cup Procs) /\ Once(runq)  BY <1>1 DEF IInv, TypeOK, PlaceOK
      <4> QED  BY <4>1, TimesOn
    <3> DEFINE A == {v \in Vms : iprog[v] = g}
    <3>2. g # Nil  BY DisSchedAssumption
    <3>3. CASE \E v \in Vms : iprog[v] = g
      <4>1. PICK v \in Vms : iprog[v] = g  BY <3>3
      <4>2. ~Has(runq, g) /\ g \notin off  BY <1>1, <3>2, <4>1 DEF IInv, PlaceOK
      <4>3. A = {v}  BY <1>1, <3>2, <4>1 DEF IInv, PlaceOK
      <4>4. Cardinality(A) = 1  BY <4>3, FS_Singleton
      <4> QED  BY <3>1, <4>2, <4>4 DEF Places
    <3>4. CASE ~\E v \in Vms : iprog[v] = g
      <4>1. A = {}  BY <3>4
      <4>2. Cardinality(A) = 0  BY <4>1, FS_EmptySet
      <4>3. g \in off <=> ~Has(runq, g)  BY <1>1, <3>4 DEF IInv, PlaceOK
      <4> QED  BY <3>1, <4>2, <4>3 DEF Places
    <3> QED  BY <3>3, <3>4
  <2>2. \A v \in Vms \cap Owners : pc[v] \notin Queued => iprog[v] = Nil
    BY <1>1 DEF IInv, SavedOK, Owners, Queued
  <2>3. Cardinality(Vms \ Unborn) =< Cardinality(Progs) + 2
    <3> DEFINE P == Progs \cup {Nil}
    <3>1. PICK f \in [Vms \ Unborn -> Progs \cup {Nil, Boot}] :
             \A u, v \in Vms \ Unborn : f[u] = f[v] => u = v
      BY <1>1 DEF IInv, BornOK
    <3>2. f \in Injection(Vms \ Unborn, P \cup {Boot})
      <4>1. Progs \cup {Nil, Boot} = P \cup {Boot}  OBVIOUS
      <4> QED  BY <3>1, <4>1 DEF Injection, IsInjective
    <3>3. IsFiniteSet(P) /\ Cardinality(P) = Cardinality(Progs) + 1 /\ Boot \notin P
      BY DisSchedAssumption, FS_AddElement
    <3>4. /\ IsFiniteSet(P \cup {Boot}) /\ Cardinality(P \cup {Boot}) = Cardinality(P) + 1
          /\ Cardinality(Progs) \in Nat
      BY DisSchedAssumption, <3>3, FS_AddElement, FS_CardinalityType
    <3>5. Cardinality(Vms \ Unborn) =< Cardinality(P \cup {Boot})
      BY <3>2, <3>4, FS_Injection
    <3> QED  BY <3>3, <3>4, <3>5
  <2>4. /\ TypeOK
        /\ \A v \in Vms : pc[v] = "xec" => runq # <<>> /\ Head(runq) = cur[v] /\ cur[v] \in Progs
        /\ \A p \in Procs : pc[p] \in {"gc", "vm"} => runq # <<>> /\ Head(runq) = p
    BY <1>1 DEF IInv, HeadOK
  <2> QED  BY <2>1, <2>2, <2>3, <2>4 DEF WellFormed
<1> QED  BY <1>1, Invariance, PTL
=============================================================================
