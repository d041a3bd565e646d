----------------------------- MODULE RWLockProof -----------------------------
(***************************************************************************)
(* The reader/writer lock of the native kernel is exclusive for writers    *)
(* whatever the number of processes.  The inductive invariant says where   *)
(* each process is, what the queue holds, and who has the lock.            *)
(***************************************************************************)
EXTENDS RWLock, FiniteSetTheorems, SequenceTheorems, TLAPS

\* A process sleeps in sched() exactly when its state says so, q->use is held
\* by the waker of readers, and a hand-off is to a writer off the queue.
Coherent ==
    \A p \in Procs :
        /\ state[p] = "Running" <=> pc[p] \notin {"rsched", "wsched"}
        /\ state[p] = "QueueingR" => pc[p] = "rsched"
        /\ state[p] = "QueueingW" => pc[p] = "wsched"
        /\ pc[p] = "waking" <=> use = p
        /\ pc[p] # "panic"

\* The queue holds waiting processes, each once.
QueueOK ==
    /\ \A i \in 1..Len(queue) : state[queue[i]] \in {"QueueingR", "QueueingW"}
    /\ \A i, j \in 1..Len(queue) : queue[i] = queue[j] => i = j

\* At most one hand-off is under way, to a waiting writer off the queue.
HandoffOK ==
    /\ \A p \in Procs : pc[p] = "readying" =>
          /\ target[p] \in Procs
          /\ state[target[p]] = "QueueingW"
          /\ \A i \in 1..Len(queue) : queue[i] # target[p]
    /\ \A p, r \in Procs : pc[p] = "readying" /\ pc[r] = "readying" => p = r

\* q->writer stands for one process: a write holder, or one waking readers.
Busy(p) == p \in WriteHolders \/ pc[p] = "waking"
WriterOK ==
    /\ \A p, r \in Procs : Busy(p) /\ Busy(r) => p = r
    /\ writer <=> \E p \in Procs : Busy(p)
    /\ WriteHolders # {} => ReadHolders = {}

ReadersOK == readers = Cardinality(ReadHolders)

WaitingOK ==
    /\ readers = 0 /\ ~writer => queue = <<>>
    /\ readers > 0 /\ use = Nil /\ queue # <<>> => state[Head(queue)] = "QueueingW"
    /\ use # Nil => FirstReads \/ readers > 0

IInv == TypeOK /\ Coherent /\ QueueOK /\ HandoffOK /\ WriterOK /\ ReadersOK /\ WaitingOK

\* The readers that hold the lock can be counted.
LEMMA ReadersFinite ==
    ASSUME TypeOK
    PROVE  /\ IsFiniteSet(ReadHolders)
           /\ Cardinality(ReadHolders) \in Nat
           /\ Cardinality(ReadHolders) = 0 <=> ReadHolders = {}
<1>1. ReadHolders \subseteq Procs  BY DEF ReadHolders
<1>2. IsFiniteSet(ReadHolders)  BY <1>1, FS_Subset, RWLockAssumption
<1> QED  BY <1>2, FS_CardinalityType, FS_EmptySet

\* The queue after a process joins it, and after its first leaves it.
LEMMA QueueAppend ==
    ASSUME NEW q \in Seq(Procs), NEW p \in Procs
    PROVE  /\ Append(q, p) \in Seq(Procs)
           /\ Len(Append(q, p)) = Len(q) + 1
           /\ \A i \in 1..Len(q) : Append(q, p)[i] = q[i]
           /\ Append(q, p)[Len(q) + 1] = p
           /\ Append(q, p) # <<>>
           /\ q # <<>> => Head(Append(q, p)) = Head(q)
           /\ q = <<>> => Head(Append(q, p)) = p
  OBVIOUS

\* The first leaves the queue.
LEMMA QueueTail ==
    ASSUME NEW q \in Seq(Procs), q # <<>>
    PROVE  /\ Tail(q) \in Seq(Procs)
           /\ Len(q) \in Nat /\ Len(q) > 0
           /\ Len(Tail(q)) = Len(q) - 1
           /\ \A i \in 1..Len(Tail(q)) : i + 1 \in 1..Len(q) /\ Tail(q)[i] = q[i + 1]
           /\ Head(q) = q[1] /\ Head(q) \in Procs
           /\ Tail(q) # <<>> => Head(Tail(q)) = q[2] /\ 2 \in 1..Len(q)
<1>1. /\ Head(q) \in Procs /\ Tail(q) \in Seq(Procs)
      /\ Len(q) \in Nat /\ Len(q) > 0 /\ Len(Tail(q)) = Len(q) - 1
      /\ Head(q) = q[1]
  OBVIOUS
<1>2. \A i \in 1..Len(Tail(q)) : i + 1 \in 1..Len(q) /\ Tail(q)[i] = q[i + 1]
  BY <1>1, HeadTailProperties
<1>3. ASSUME Tail(q) # <<>>  PROVE Head(Tail(q)) = q[2] /\ 2 \in 1..Len(q)
  <2>1. Len(Tail(q)) \in Nat /\ Len(Tail(q)) > 0  BY <1>1, <1>3, EmptySeq
  <2>2. \A t \in Seq(Procs) : t # <<>> => Head(t) = t[1]  OBVIOUS
  <2> QED  BY <1>1, <1>2, <2>1, <2>2
<1> QED  BY <1>1, <1>2, <1>3

\* A new RWlock satisfies the invariant.
LEMMA InitIInv == Init => IInv
<1> SUFFICES ASSUME Init PROVE IInv  OBVIOUS
<1>1. /\ TypeOK
      /\ Coherent
      /\ QueueOK /\ HandoffOK /\ WaitingOK
  <2>1. TypeOK
    <3>1. queue \in Seq(Procs)  BY EmptySeq DEF Init
    <3>2. writer \in BOOLEAN  BY DEF Init
    <3>3. use \in Pointers /\ readers \in Nat /\ target \in [Procs -> Pointers]
      BY DEF Init, Pointers
    <3>4. state \in [Procs -> States] /\ pc \in [Procs -> PCs]  BY DEF Init, States, PCs
    <3> QED  BY <3>1, <3>2, <3>3, <3>4 DEF TypeOK
  <2>2. Coherent  BY RWLockAssumption DEF Init, Coherent
  <2>3. QueueOK /\ HandoffOK /\ WaitingOK  BY DEF Init, QueueOK, HandoffOK, WaitingOK
  <2> QED  BY <2>1, <2>2, <2>3
<1>2. ReadHolders = {} /\ WriteHolders = {}
  BY DEF Init, ReadHolders, WriteHolders
<1>3. WriterOK  BY <1>2 DEF Init, WriterOK, Busy
<1>4. ReadersOK  BY <1>2, FS_EmptySet DEF Init, ReadersOK
<1> QED  BY <1>1, <1>3, <1>4 DEF IInv

\* One lemma per action: the step preserves the invariant.

\* rlock or canrlock takes a lock that no writer has or waits for.
LEMMA RlockTakeStep == ASSUME NEW p \in Procs, IInv, RlockTake(p) PROVE IInv'
<1>1. TypeOK'
  BY RWLockAssumption DEF RlockTake, Goto, TypeOK, IInv, Pointers, States, PCs
<1>2. Coherent'
  BY RWLockAssumption DEF RlockTake, Goto, TypeOK, IInv, Coherent, QueueOK, HandoffOK,
     WaitingOK
<1>3. QueueOK'
  BY RWLockAssumption DEF RlockTake, Goto, TypeOK, IInv, QueueOK, Coherent, HandoffOK
<1>4. ReadHolders' = ReadHolders \cup {p}
  BY RWLockAssumption DEF RlockTake, Goto, TypeOK, IInv, ReadHolders, Coherent, QueueOK,
     HandoffOK, States, PCs
<1>5. HandoffOK'
  BY RWLockAssumption DEF RlockTake, Goto, TypeOK, IInv, HandoffOK, Coherent, QueueOK,
     WriterOK, Busy, WriteHolders, ReadHolders
<1>6. WriterOK'
  BY <1>4, ReadersFinite, RWLockAssumption DEF RlockTake, Goto, TypeOK, IInv, WriterOK,
     Busy, WriteHolders, Coherent, HandoffOK, QueueOK, ReadersOK
<1>7. ReadersOK'
  <2>1. p \notin ReadHolders  BY DEF RlockTake, ReadHolders
  <2>2. Cardinality(ReadHolders') = Cardinality(ReadHolders) + 1
    BY <1>4, <2>1, ReadersFinite, FS_AddElement DEF IInv
  <2> QED  BY <2>2 DEF RlockTake, IInv, ReadersOK
<1>8. WaitingOK'
  BY <1>4, ReadersFinite, RWLockAssumption DEF RlockTake, Goto, TypeOK, IInv, WaitingOK,
     FirstReads, ReadersOK, Coherent, QueueOK, ReadHolders, WriterOK, Busy, WriteHolders
<1> QED  BY <1>1, <1>2, <1>3, <1>5, <1>6, <1>7, <1>8 DEF IInv

\* rlock queues.
LEMMA RlockWaitStep == ASSUME NEW p \in Procs, IInv, RlockWait(p) PROVE IInv'
<1>1. TypeOK'
  BY QueueAppend, RWLockAssumption DEF RlockWait, Goto, TypeOK, IInv, Pointers, States,
     PCs
<1>2. Coherent'
  BY QueueAppend, RWLockAssumption DEF RlockWait, Goto, TypeOK, IInv, Coherent, QueueOK,
     HandoffOK, WaitingOK
<1>3. QueueOK'
  BY QueueAppend, RWLockAssumption DEF RlockWait, Goto, TypeOK, IInv, QueueOK, Coherent,
     HandoffOK
<1>4. ReadHolders' = ReadHolders
  BY QueueAppend, RWLockAssumption DEF RlockWait, Goto, TypeOK, IInv, ReadHolders,
     Coherent, QueueOK, HandoffOK, States, PCs
<1>5. HandoffOK'
  BY QueueAppend, RWLockAssumption DEF RlockWait, Goto, TypeOK, IInv, HandoffOK,
     Coherent, QueueOK, WriterOK, Busy, WriteHolders, ReadHolders
<1>6. WriterOK'
  BY QueueAppend, <1>4, ReadersFinite, RWLockAssumption DEF RlockWait, Goto, TypeOK,
     IInv, WriterOK, Busy, WriteHolders, Coherent, HandoffOK, QueueOK, ReadersOK
<1>7. ReadersOK'
  BY QueueAppend, <1>4, ReadersFinite, FS_AddElement, FS_RemoveElement,
     RWLockAssumption DEF RlockWait, Goto, TypeOK, IInv, ReadersOK, ReadHolders,
     Coherent, QueueOK
<1>8. WaitingOK'
  BY QueueAppend, <1>4, ReadersFinite, RWLockAssumption DEF RlockWait, Goto, TypeOK,
     IInv, WaitingOK, FirstReads, ReadersOK, Coherent, QueueOK, ReadHolders, WriterOK,
     Busy, WriteHolders
<1> QED  BY <1>1, <1>2, <1>3, <1>5, <1>6, <1>7, <1>8 DEF IInv

\* runlock with other readers left, or nobody waiting.
LEMMA RunlockLeaveStep == ASSUME NEW p \in Procs, IInv, RunlockLeave(p) PROVE IInv'
<1>a. readers \in Nat /\ readers # 0
  <2>1. p \in ReadHolders  BY DEF RunlockLeave, ReadHolders
  <2> QED  BY <2>1, ReadersFinite DEF IInv, TypeOK, ReadersOK
<1>1. TypeOK'  BY <1>a DEF RunlockLeave, Goto, TypeOK, IInv, Pointers, States, PCs
<1>2. Coherent'
  BY RWLockAssumption DEF RunlockLeave, Goto, TypeOK, IInv, Coherent, QueueOK,
     HandoffOK, WaitingOK
<1>3. QueueOK'
  BY RWLockAssumption DEF RunlockLeave, Goto, TypeOK, IInv, QueueOK, Coherent, HandoffOK
<1>4. ReadHolders' = ReadHolders \ {p}
  BY RWLockAssumption DEF RunlockLeave, Goto, TypeOK, IInv, ReadHolders, Coherent,
     QueueOK, HandoffOK, States, PCs
<1>5. HandoffOK'
  BY RWLockAssumption DEF RunlockLeave, Goto, TypeOK, IInv, HandoffOK, Coherent,
     QueueOK, WriterOK, Busy, WriteHolders, ReadHolders
<1>6. WriterOK'
  BY <1>4, ReadersFinite, RWLockAssumption DEF RunlockLeave, Goto, TypeOK, IInv,
     WriterOK, Busy, WriteHolders, Coherent, HandoffOK, QueueOK, ReadersOK
<1>7. ReadersOK'
  <2>1. p \in ReadHolders  BY DEF RunlockLeave, ReadHolders
  <2>2. Cardinality(ReadHolders') = Cardinality(ReadHolders) - 1
    BY <1>4, <2>1, ReadersFinite, FS_RemoveElement, SMTT(30) DEF IInv
  <2> QED  BY <2>2 DEF RunlockLeave, IInv, ReadersOK
<1>8. WaitingOK'
  BY <1>4, ReadersFinite, RWLockAssumption DEF RunlockLeave, Goto, TypeOK, IInv,
     WaitingOK, FirstReads, ReadersOK, Coherent, QueueOK, ReadHolders, WriterOK, Busy,
     WriteHolders
<1> QED  BY <1>1, <1>2, <1>3, <1>5, <1>6, <1>7, <1>8 DEF IInv

\* The last runlock hands the lock to the first waiting writer.
LEMMA RunlockLastStep == ASSUME NEW p \in Procs, IInv, RunlockLast(p) PROVE IInv'
<1>a. /\ ReadHolders # {} /\ WriteHolders = {}
      /\ readers = 1 /\ state[Head(queue)] = "QueueingW"
      /\ Head(queue) \in Procs /\ Head(queue) # p
  <2>1. p \in ReadHolders  BY DEF RunlockLast, ReadHolders
  <2>2. readers \in Nat /\ readers # 0  BY <2>1, ReadersFinite DEF IInv, ReadersOK
  <2>3. state[Head(queue)] = "QueueingW"  BY <2>2 DEF RunlockLast, IInv, WaitingOK
  <2>4. Head(queue) \in Procs  BY QueueTail DEF RunlockLast, IInv, TypeOK
  <2> QED  BY <2>1, <2>2, <2>3, <2>4 DEF RunlockLast, IInv, WriterOK, Coherent
<1>b. /\ queue' = Tail(queue) /\ writer' = TRUE /\ readers' = 0
      /\ target' = [target EXCEPT ![p] = Head(queue)]
      /\ pc' = [pc EXCEPT ![p] = "readying"]
      /\ UNCHANGED <<use, state>>
      /\ use = Nil /\ pc[p] = "reading" /\ queue # <<>>
  BY <1>a DEF RunlockLast, Goto
<1>c. \A i \in 1..Len(queue') : i + 1 \in 1..Len(queue) /\ queue'[i] = queue[i + 1]
  BY <1>b, QueueTail DEF IInv, TypeOK
<1>d. 1 \in 1..Len(queue) /\ Head(queue) = queue[1]  BY <1>b, QueueTail DEF IInv, TypeOK
<1>e. \A r \in Procs : pc[r] # "readying"
  BY <1>a DEF IInv, HandoffOK, WriteHolders
<1>1. TypeOK'
  <2>1. writer' \in BOOLEAN  BY <1>b
  <2>2. queue' \in Seq(Procs)  BY <1>b, QueueTail DEF IInv, TypeOK
  <2>3. use' \in Pointers /\ readers' \in Nat /\ state' \in [Procs -> States]
    BY <1>b DEF IInv, TypeOK
  <2>4. pc' \in [Procs -> PCs] /\ target' \in [Procs -> Pointers]
    BY <1>a, <1>b DEF IInv, TypeOK, PCs, Pointers
  <2> QED  BY <2>1, <2>2, <2>3, <2>4 DEF TypeOK
<1>2. Coherent'  BY <1>b, RWLockAssumption DEF IInv, TypeOK, Coherent
<1>3. QueueOK'
  <2>1. \A i \in 1..Len(queue') : state'[queue'[i]] \in {"QueueingR", "QueueingW"}
    BY <1>b, <1>c DEF IInv, QueueOK
  <2>2. \A i, j \in 1..Len(queue') : queue'[i] = queue'[j] => i + 1 = j + 1
    BY <1>c DEF IInv, QueueOK
  <2>3. \A i, j \in 1..Len(queue') : i + 1 = j + 1 => i = j  OBVIOUS
  <2> QED  BY <2>1, <2>2, <2>3 DEF QueueOK
<1>4. ReadHolders' = ReadHolders \ {p}
  BY <1>b DEF IInv, TypeOK, Coherent, ReadHolders
<1>5. HandoffOK'
  <2>1. \A r \in Procs : pc'[r] = "readying" => r = p  BY <1>b, <1>e DEF IInv, TypeOK
  <2>2. target'[p] = Head(queue)  BY <1>b DEF IInv, TypeOK
  <2>3. \A i \in 1..Len(queue') : queue'[i] # Head(queue)
    <3> SUFFICES ASSUME NEW i \in 1..Len(queue'), queue'[i] = Head(queue) PROVE FALSE
      OBVIOUS
    <3>1. i + 1 = 1  BY <1>c, <1>d DEF IInv, QueueOK
    <3> QED  BY <3>1
  <2> QED  BY <2>1, <2>2, <2>3, <1>a, <1>b DEF HandoffOK
<1>6. WriterOK'
  <2>1. WriteHolders' = {Head(queue)}
    BY <1>a, <1>b, <1>e DEF IInv, TypeOK, WriteHolders, Coherent
  <2>2. \A r \in Procs : pc'[r] # "waking"
    BY <1>b, RWLockAssumption DEF IInv, TypeOK, Coherent
  <2>3. ReadHolders' = {}
    <3>1. Cardinality(ReadHolders') = 0
      <4>1. p \in ReadHolders  BY <1>b DEF ReadHolders
      <4>2. Cardinality(ReadHolders) = 1  BY <1>a DEF IInv, ReadersOK
      <4> QED  BY <1>4, <4>1, <4>2, ReadersFinite, FS_RemoveElement DEF IInv
    <3>2. IsFiniteSet(ReadHolders')
      BY <1>4, ReadersFinite, FS_RemoveElement DEF IInv
    <3> QED  BY <3>1, <3>2, FS_EmptySet
  <2> QED  BY <2>1, <2>2, <2>3, <1>a, <1>b DEF WriterOK, Busy
<1>7. ReadersOK'
  <2>1. p \in ReadHolders  BY DEF RunlockLast, ReadHolders
  <2>2. Cardinality(ReadHolders') = Cardinality(ReadHolders) - 1
    BY <1>4, <2>1, ReadersFinite, FS_RemoveElement, SMTT(30) DEF IInv
  <2> QED  BY <2>2 DEF RunlockLast, IInv, ReadersOK
<1>8. WaitingOK'
  BY <1>b DEF WaitingOK
<1> QED  BY <1>1, <1>2, <1>3, <1>5, <1>6, <1>7, <1>8 DEF IInv

\* wlock takes a free lock.
LEMMA WlockTakeStep == ASSUME NEW p \in Procs, IInv, WlockTake(p) PROVE IInv'
<1>1. TypeOK'
  BY RWLockAssumption DEF WlockTake, Goto, TypeOK, IInv, Pointers, States, PCs
<1>2. Coherent'
  BY RWLockAssumption DEF WlockTake, Goto, TypeOK, IInv, Coherent, QueueOK, HandoffOK,
     WaitingOK
<1>3. QueueOK'
  BY RWLockAssumption DEF WlockTake, Goto, TypeOK, IInv, QueueOK, Coherent, HandoffOK
<1>4. ReadHolders' = ReadHolders
  BY RWLockAssumption DEF WlockTake, Goto, TypeOK, IInv, ReadHolders, Coherent, QueueOK,
     HandoffOK, States, PCs
<1>5. HandoffOK'
  BY RWLockAssumption DEF WlockTake, Goto, TypeOK, IInv, HandoffOK, Coherent, QueueOK,
     WriterOK, Busy, WriteHolders, ReadHolders
<1>6. WriterOK'
  BY <1>4, ReadersFinite, RWLockAssumption DEF WlockTake, Goto, TypeOK, IInv, WriterOK,
     Busy, WriteHolders, Coherent, HandoffOK, QueueOK, ReadersOK
<1>7. ReadersOK'
  BY <1>4, ReadersFinite, FS_AddElement, FS_RemoveElement, RWLockAssumption
     DEF WlockTake, Goto, TypeOK, IInv, ReadersOK, ReadHolders, Coherent, QueueOK
<1>8. WaitingOK'
  BY <1>4, ReadersFinite, RWLockAssumption DEF WlockTake, Goto, TypeOK, IInv, WaitingOK,
     FirstReads, ReadersOK, Coherent, QueueOK, ReadHolders, WriterOK, Busy, WriteHolders
<1> QED  BY <1>1, <1>2, <1>3, <1>5, <1>6, <1>7, <1>8 DEF IInv

\* wlock queues.
LEMMA WlockWaitStep == ASSUME NEW p \in Procs, IInv, WlockWait(p) PROVE IInv'
<1>1. TypeOK'
  BY QueueAppend, RWLockAssumption DEF WlockWait, Goto, TypeOK, IInv, Pointers, States,
     PCs
<1>2. Coherent'
  BY QueueAppend, RWLockAssumption DEF WlockWait, Goto, TypeOK, IInv, Coherent, QueueOK,
     HandoffOK, WaitingOK
<1>3. QueueOK'
  BY QueueAppend, RWLockAssumption DEF WlockWait, Goto, TypeOK, IInv, QueueOK, Coherent,
     HandoffOK
<1>4. ReadHolders' = ReadHolders
  BY QueueAppend, RWLockAssumption DEF WlockWait, Goto, TypeOK, IInv, ReadHolders,
     Coherent, QueueOK, HandoffOK, States, PCs
<1>5. HandoffOK'
  BY QueueAppend, RWLockAssumption DEF WlockWait, Goto, TypeOK, IInv, HandoffOK,
     Coherent, QueueOK, WriterOK, Busy, WriteHolders, ReadHolders
<1>6. WriterOK'
  BY QueueAppend, <1>4, ReadersFinite, RWLockAssumption DEF WlockWait, Goto, TypeOK,
     IInv, WriterOK, Busy, WriteHolders, Coherent, HandoffOK, QueueOK, ReadersOK
<1>7. ReadersOK'
  BY QueueAppend, <1>4, ReadersFinite, FS_AddElement, FS_RemoveElement,
     RWLockAssumption DEF WlockWait, Goto, TypeOK, IInv, ReadersOK, ReadHolders,
     Coherent, QueueOK
<1>8. WaitingOK'
  BY QueueAppend, <1>4, ReadersFinite, RWLockAssumption DEF WlockWait, Goto, TypeOK,
     IInv, WaitingOK, FirstReads, ReadersOK, Coherent, QueueOK, ReadHolders, WriterOK,
     Busy, WriteHolders
<1> QED  BY <1>1, <1>2, <1>3, <1>5, <1>6, <1>7, <1>8 DEF IInv

\* wunlock with nobody waiting.
LEMMA WunlockFreeStep == ASSUME NEW p \in Procs, IInv, WunlockFree(p) PROVE IInv'
<1>1. TypeOK'
  BY RWLockAssumption DEF WunlockFree, Goto, TypeOK, IInv, Pointers, States, PCs
<1>2. Coherent'
  BY RWLockAssumption DEF WunlockFree, Goto, TypeOK, IInv, Coherent, QueueOK, HandoffOK,
     WaitingOK
<1>3. QueueOK'
  BY RWLockAssumption DEF WunlockFree, Goto, TypeOK, IInv, QueueOK, Coherent, HandoffOK
<1>4. ReadHolders' = ReadHolders
  BY RWLockAssumption DEF WunlockFree, Goto, TypeOK, IInv, ReadHolders, Coherent,
     QueueOK, HandoffOK, States, PCs
<1>5. HandoffOK'
  BY RWLockAssumption DEF WunlockFree, Goto, TypeOK, IInv, HandoffOK, Coherent, QueueOK,
     WriterOK, Busy, WriteHolders, ReadHolders
<1>6. WriterOK'
  BY <1>4, ReadersFinite, RWLockAssumption DEF WunlockFree, Goto, TypeOK, IInv,
     WriterOK, Busy, WriteHolders, Coherent, HandoffOK, QueueOK, ReadersOK
<1>7. ReadersOK'
  BY <1>4, ReadersFinite, FS_AddElement, FS_RemoveElement, RWLockAssumption
     DEF WunlockFree, Goto, TypeOK, IInv, ReadersOK, ReadHolders, Coherent, QueueOK
<1>8. WaitingOK'
  BY <1>4, ReadersFinite, RWLockAssumption DEF WunlockFree, Goto, TypeOK, IInv,
     WaitingOK, FirstReads, ReadersOK, Coherent, QueueOK, ReadHolders, WriterOK, Busy,
     WriteHolders
<1> QED  BY <1>1, <1>2, <1>3, <1>5, <1>6, <1>7, <1>8 DEF IInv

\* wunlock hands the lock to a writer.
LEMMA WunlockWriterStep == ASSUME NEW p \in Procs, IInv, WunlockWriter(p) PROVE IInv'
<1>1. TypeOK'
  BY QueueTail, RWLockAssumption DEF WunlockWriter, Goto, TypeOK, IInv, Pointers,
     States, PCs
<1>2. Coherent'
  BY QueueTail, RWLockAssumption DEF WunlockWriter, Goto, TypeOK, IInv, Coherent,
     QueueOK, HandoffOK, WaitingOK
<1>3. QueueOK'
  BY QueueTail, RWLockAssumption DEF WunlockWriter, Goto, TypeOK, IInv, QueueOK,
     Coherent, HandoffOK
<1>4. ReadHolders' = ReadHolders
  BY QueueTail, RWLockAssumption DEF WunlockWriter, Goto, TypeOK, IInv, ReadHolders,
     Coherent, QueueOK, HandoffOK, States, PCs
<1>5. HandoffOK'
  <2>a. /\ queue' = Tail(queue) /\ target' = [target EXCEPT ![p] = Head(queue)]
        /\ pc' = [pc EXCEPT ![p] = "readying"] /\ state' = state
        /\ state[Head(queue)] = "QueueingW" /\ queue # <<>> /\ pc[p] = "writing"
    BY DEF WunlockWriter, Goto
  <2>b. \A i \in 1..Len(queue') : i + 1 \in 1..Len(queue) /\ queue'[i] = queue[i + 1]
    BY <2>a, QueueTail DEF IInv, TypeOK
  <2>c. 1 \in 1..Len(queue) /\ Head(queue) = queue[1] /\ Head(queue) \in Procs
    BY <2>a, QueueTail DEF IInv, TypeOK
  <2>d. \A r \in Procs : pc[r] # "readying"
    BY <2>a DEF IInv, HandoffOK, WriterOK, Busy, WriteHolders, Coherent
  <2>1. \A r \in Procs : pc'[r] = "readying" => r = p  BY <2>a, <2>d DEF IInv, TypeOK
  <2>2. target'[p] = Head(queue)  BY <2>a DEF IInv, TypeOK
  <2>3. \A i \in 1..Len(queue') : queue'[i] # Head(queue)
    <3> SUFFICES ASSUME NEW i \in 1..Len(queue'), queue'[i] = Head(queue) PROVE FALSE
      OBVIOUS
    <3>1. i + 1 = 1  BY <2>b, <2>c DEF IInv, QueueOK
    <3> QED  BY <3>1
  <2> QED  BY <2>1, <2>2, <2>3, <2>a, <2>c DEF HandoffOK
<1>6. WriterOK'
  BY QueueTail, <1>4, ReadersFinite, RWLockAssumption DEF WunlockWriter, Goto, TypeOK,
     IInv, WriterOK, Busy, WriteHolders, Coherent, HandoffOK, QueueOK, ReadersOK
<1>7. ReadersOK'
  BY QueueTail, <1>4, ReadersFinite, FS_AddElement, FS_RemoveElement,
     RWLockAssumption DEF WunlockWriter, Goto, TypeOK, IInv, ReadersOK, ReadHolders,
     Coherent, QueueOK
<1>8. WaitingOK'
  BY QueueTail, <1>4, ReadersFinite, RWLockAssumption DEF WunlockWriter, Goto, TypeOK,
     IInv, WaitingOK, FirstReads, ReadersOK, Coherent, QueueOK, ReadHolders, WriterOK,
     Busy, WriteHolders
<1> QED  BY <1>1, <1>2, <1>3, <1>5, <1>6, <1>7, <1>8 DEF IInv

\* wunlock begins to wake readers, with q->use held.
LEMMA WunlockReadersStep == ASSUME NEW p \in Procs, IInv, WunlockReaders(p) PROVE IInv'
<1>b. /\ pc[p] = "writing" /\ pc' = [pc EXCEPT ![p] = "waking"] /\ use' = p
      /\ UNCHANGED <<readers, writer, queue, state, target>>
  <2>1. state[Head(queue)] \in {"QueueingR", "QueueingW"}
    BY QueueTail DEF WunlockReaders, IInv, TypeOK, QueueOK
  <2> QED  BY <2>1 DEF WunlockReaders, Goto
<1>1. TypeOK'
  BY QueueTail, RWLockAssumption DEF WunlockReaders, Goto, TypeOK, IInv, Pointers,
     States, PCs
<1>2. Coherent'
  BY QueueTail, RWLockAssumption DEF WunlockReaders, Goto, TypeOK, IInv, Coherent,
     QueueOK, HandoffOK, WaitingOK
<1>3. QueueOK'
  BY QueueTail, RWLockAssumption DEF WunlockReaders, Goto, TypeOK, IInv, QueueOK,
     Coherent, HandoffOK
<1>4. ReadHolders' = ReadHolders
  BY QueueTail, RWLockAssumption DEF WunlockReaders, Goto, TypeOK, IInv, ReadHolders,
     Coherent, QueueOK, HandoffOK, States, PCs
<1>5. HandoffOK'
  <2>1. \A r \in Procs : pc'[r] = "readying" => pc[r] = "readying"
    BY DEF WunlockReaders, Goto, IInv, TypeOK
  <2> QED  BY <2>1 DEF WunlockReaders, IInv, HandoffOK
<1>6. WriterOK'
  <2>1. \A r \in Procs : Busy(r)' <=> Busy(r)
    BY <1>b DEF IInv, TypeOK, Busy, WriteHolders
  <2>2. WriteHolders' \subseteq WriteHolders
    BY <1>b DEF IInv, TypeOK, WriteHolders
  <2> QED  BY <1>4, <1>b, <2>1, <2>2 DEF IInv, WriterOK
<1>7. ReadersOK'
  BY QueueTail, <1>4, ReadersFinite, FS_AddElement, FS_RemoveElement,
     RWLockAssumption DEF WunlockReaders, Goto, TypeOK, IInv, ReadersOK, ReadHolders,
     Coherent, QueueOK
<1>8. WaitingOK'
  BY QueueTail, <1>4, ReadersFinite, RWLockAssumption DEF WunlockReaders, Goto, TypeOK,
     IInv, WaitingOK, FirstReads, ReadersOK, Coherent, QueueOK, ReadHolders, WriterOK,
     Busy, WriteHolders
<1> QED  BY <1>1, <1>2, <1>3, <1>5, <1>6, <1>7, <1>8 DEF IInv

\* The loop of wunlock wakes one reader.
LEMMA WakeReaderStep == ASSUME NEW p \in Procs, IInv, WakeReader(p) PROVE IInv'
<1>1. TypeOK'
  BY QueueTail, RWLockAssumption DEF WakeReader, Goto, TypeOK, IInv, FirstReads,
     Pointers, States, PCs
<1>2. Coherent'
  BY QueueTail, RWLockAssumption DEF WakeReader, Goto, TypeOK, IInv, FirstReads,
     Coherent, QueueOK, HandoffOK, WaitingOK
<1>3. QueueOK'
  BY QueueTail, RWLockAssumption DEF WakeReader, Goto, TypeOK, IInv, FirstReads,
     QueueOK, Coherent, HandoffOK
<1>4. ReadHolders' = ReadHolders \cup {Head(queue)}
  BY QueueTail, RWLockAssumption DEF WakeReader, Goto, TypeOK, IInv, FirstReads,
     ReadHolders, Coherent, QueueOK, HandoffOK, States, PCs
<1>5. HandoffOK'
  BY QueueTail, RWLockAssumption DEF WakeReader, Goto, TypeOK, IInv, FirstReads,
     HandoffOK, Coherent, QueueOK, WriterOK, Busy, WriteHolders, ReadHolders
<1>6. WriterOK'
  BY QueueTail, <1>4, ReadersFinite, RWLockAssumption DEF WakeReader, Goto, TypeOK,
     IInv, FirstReads, WriterOK, Busy, WriteHolders, Coherent, HandoffOK, QueueOK,
     ReadersOK
<1>7. ReadersOK'
  <2>1. Head(queue) \notin ReadHolders
    BY QueueTail DEF WakeReader, FirstReads, ReadHolders, IInv, TypeOK, Coherent
  <2>2. Cardinality(ReadHolders') = Cardinality(ReadHolders) + 1
    BY <1>4, <2>1, ReadersFinite, FS_AddElement DEF IInv
  <2> QED  BY <2>2 DEF WakeReader, IInv, ReadersOK
<1>8. WaitingOK'
  BY QueueTail, <1>4, ReadersFinite, RWLockAssumption DEF WakeReader, Goto, TypeOK,
     IInv, FirstReads, WaitingOK, FirstReads, ReadersOK, Coherent, QueueOK, ReadHolders,
     WriterOK, Busy, WriteHolders
<1> QED  BY <1>1, <1>2, <1>3, <1>5, <1>6, <1>7, <1>8 DEF IInv

\* The loop of wunlock ends and q->writer is cleared.
LEMMA WakeEndStep == ASSUME NEW p \in Procs, IInv, WakeEnd(p) PROVE IInv'
<1>1. TypeOK'
  BY QueueTail, RWLockAssumption DEF WakeEnd, Goto, TypeOK, IInv, FirstReads, Pointers,
     States, PCs
<1>2. Coherent'
  BY QueueTail, RWLockAssumption DEF WakeEnd, Goto, TypeOK, IInv, FirstReads, Coherent,
     QueueOK, HandoffOK, WaitingOK
<1>3. QueueOK'
  BY QueueTail, RWLockAssumption DEF WakeEnd, Goto, TypeOK, IInv, FirstReads, QueueOK,
     Coherent, HandoffOK
<1>4. ReadHolders' = ReadHolders
  BY QueueTail, RWLockAssumption DEF WakeEnd, Goto, TypeOK, IInv, FirstReads,
     ReadHolders, Coherent, QueueOK, HandoffOK, States, PCs
<1>5. HandoffOK'
  BY QueueTail, RWLockAssumption DEF WakeEnd, Goto, TypeOK, IInv, FirstReads, HandoffOK,
     Coherent, QueueOK, WriterOK, Busy, WriteHolders, ReadHolders
<1>6. WriterOK'
  BY QueueTail, <1>4, ReadersFinite, RWLockAssumption DEF WakeEnd, Goto, TypeOK, IInv,
     FirstReads, WriterOK, Busy, WriteHolders, Coherent, HandoffOK, QueueOK, ReadersOK
<1>7. ReadersOK'
  BY QueueTail, <1>4, ReadersFinite, FS_AddElement, FS_RemoveElement,
     RWLockAssumption DEF WakeEnd, Goto, TypeOK, IInv, FirstReads, ReadersOK,
     ReadHolders, Coherent, QueueOK
<1>8. WaitingOK'
  BY QueueTail, <1>4, ReadersFinite, RWLockAssumption DEF WakeEnd, Goto, TypeOK, IInv,
     FirstReads, WaitingOK, FirstReads, ReadersOK, Coherent, QueueOK, ReadHolders,
     WriterOK, Busy, WriteHolders
<1> QED  BY <1>1, <1>2, <1>3, <1>5, <1>6, <1>7, <1>8 DEF IInv

\* ready() of the writer that was given the lock, after q->use is released.
LEMMA ReadyWriterStep == ASSUME NEW p \in Procs, IInv, ReadyWriter(p) PROVE IInv'
<1>1. TypeOK'
  BY QueueTail, RWLockAssumption DEF ReadyWriter, Goto, TypeOK, IInv, Pointers, States,
     PCs
<1>2. Coherent'
  BY QueueTail, RWLockAssumption DEF ReadyWriter, Goto, TypeOK, IInv, Coherent, QueueOK,
     HandoffOK, WaitingOK
<1>3. QueueOK'
  BY QueueTail, RWLockAssumption DEF ReadyWriter, Goto, TypeOK, IInv, QueueOK, Coherent,
     HandoffOK
<1>4. ReadHolders' = ReadHolders
  BY QueueTail, RWLockAssumption DEF ReadyWriter, Goto, TypeOK, IInv, ReadHolders,
     Coherent, QueueOK, HandoffOK, States, PCs
<1>5. HandoffOK'
  BY QueueTail, RWLockAssumption DEF ReadyWriter, Goto, TypeOK, IInv, HandoffOK,
     Coherent, QueueOK, WriterOK, Busy, WriteHolders, ReadHolders
<1>6. WriterOK'
  BY QueueTail, <1>4, ReadersFinite, RWLockAssumption DEF ReadyWriter, Goto, TypeOK,
     IInv, WriterOK, Busy, WriteHolders, Coherent, HandoffOK, QueueOK, ReadersOK
<1>7. ReadersOK'
  BY QueueTail, <1>4, ReadersFinite, FS_AddElement, FS_RemoveElement,
     RWLockAssumption DEF ReadyWriter, Goto, TypeOK, IInv, ReadersOK, ReadHolders,
     Coherent, QueueOK
<1>8. WaitingOK'
  BY QueueTail, <1>4, ReadersFinite, RWLockAssumption DEF ReadyWriter, Goto, TypeOK,
     IInv, WaitingOK, FirstReads, ReadersOK, Coherent, QueueOK, ReadHolders, WriterOK,
     Busy, WriteHolders
<1> QED  BY <1>1, <1>2, <1>3, <1>5, <1>6, <1>7, <1>8 DEF IInv

\* A process made ready returns from sched().
LEMMA DispatchStep == ASSUME NEW p \in Procs, IInv, Dispatch(p) PROVE IInv'
<1>1. TypeOK'
  BY QueueTail, RWLockAssumption DEF Dispatch, Goto, TypeOK, IInv, Pointers, States, PCs
<1>2. Coherent'
  BY QueueTail, RWLockAssumption DEF Dispatch, Goto, TypeOK, IInv, Coherent, QueueOK,
     HandoffOK, WaitingOK
<1>3. QueueOK'
  BY QueueTail, RWLockAssumption DEF Dispatch, Goto, TypeOK, IInv, QueueOK, Coherent,
     HandoffOK
<1>4. ReadHolders' = ReadHolders
  BY QueueTail, RWLockAssumption DEF Dispatch, Goto, TypeOK, IInv, ReadHolders,
     Coherent, QueueOK, HandoffOK, States, PCs
<1>5. HandoffOK'
  BY QueueTail, RWLockAssumption DEF Dispatch, Goto, TypeOK, IInv, HandoffOK, Coherent,
     QueueOK, WriterOK, Busy, WriteHolders, ReadHolders
<1>6. WriterOK'
  BY QueueTail, <1>4, ReadersFinite, RWLockAssumption DEF Dispatch, Goto, TypeOK, IInv,
     WriterOK, Busy, WriteHolders, Coherent, HandoffOK, QueueOK, ReadersOK
<1>7. ReadersOK'
  BY QueueTail, <1>4, ReadersFinite, FS_AddElement, FS_RemoveElement,
     RWLockAssumption DEF Dispatch, Goto, TypeOK, IInv, ReadersOK, ReadHolders,
     Coherent, QueueOK
<1>8. WaitingOK'
  BY QueueTail, <1>4, ReadersFinite, RWLockAssumption DEF Dispatch, Goto, TypeOK, IInv,
     WaitingOK, FirstReads, ReadersOK, Coherent, QueueOK, ReadHolders, WriterOK, Busy,
     WriteHolders
<1> QED  BY <1>1, <1>2, <1>3, <1>5, <1>6, <1>7, <1>8 DEF IInv

\* Steps of others change nothing.
LEMMA StutterStep == ASSUME IInv, UNCHANGED vars PROVE IInv'
<1>1. ReadHolders' = ReadHolders /\ WriteHolders' = WriteHolders
  BY DEF vars, ReadHolders, WriteHolders
<1>2. (TypeOK /\ Coherent /\ QueueOK /\ HandoffOK)'
  BY DEF vars, IInv, TypeOK, Coherent, QueueOK, HandoffOK
<1>3. (WriterOK /\ ReadersOK /\ WaitingOK)'
  BY <1>1 DEF vars, IInv, WriterOK, Busy, ReadersOK, WaitingOK, FirstReads
<1> QED  BY <1>2, <1>3 DEF IInv

\* The invariant holds in every reachable state of the lock, for every number
\* of processes.
THEOREM Invariance == Spec => []IInv
<1>1. ASSUME IInv, [Next]_vars PROVE IInv'
  <2>1. CASE UNCHANGED vars  BY <1>1, <2>1, StutterStep
  <2>2. ASSUME Next PROVE IInv'
    <3>1. PICK p \in Procs :
            \/ RlockTake(p) \/ RlockWait(p) \/ RunlockLeave(p) \/ RunlockLast(p)
            \/ WlockTake(p) \/ WlockWait(p)
            \/ WunlockFree(p) \/ WunlockWriter(p) \/ WunlockReaders(p)
            \/ WakeReader(p) \/ WakeEnd(p)
            \/ ReadyWriter(p) \/ Dispatch(p)
      BY <2>2 DEF Next
    <3> QED
      BY <1>1, <3>1, RlockTakeStep, RlockWaitStep, RunlockLeaveStep, RunlockLastStep,
         WlockTakeStep, WlockWaitStep, WunlockFreeStep, WunlockWriterStep,
         WunlockReadersStep, WakeReaderStep, WakeEndStep, ReadyWriterStep, DispatchStep
  <2> QED  BY <1>1, <2>1, <2>2
<1> QED  BY InitIInv, <1>1, PTL DEF Spec

\* The fields keep their types; q->readers never goes below zero.
THEOREM TypeCorrect == Spec => []TypeOK
<1>1. IInv => TypeOK  BY DEF IInv
<1> QED  BY Invariance, <1>1, PTL

\* wlock gives exclusive access: a process given the lock for writing is the
\* only one that has it, whatever rlock, runlock, wlock and wunlock do.
THEOREM Exclusion == Spec => []WriterExclusive
<1>1. ASSUME IInv PROVE WriterExclusive
  <2>1. WriteHolders \subseteq Procs  BY DEF WriteHolders
  <2> QED  BY <1>1, <2>1 DEF IInv, WriterOK, Busy, WriterExclusive
<1> QED  BY Invariance, <1>1, PTL

\* q->readers is the number of processes reading, and q->writer is set exactly
\* while a writer has the lock or is handing it to readers.
THEOREM Counting == Spec => []CountsRight
<1>1. ASSUME IInv PROVE CountsRight
  <2>1. WriteHolders \subseteq Procs  BY DEF WriteHolders
  <2> QED  BY <1>1, <2>1 DEF IInv, ReadersOK, WriterOK, Busy, CountsRight
<1> QED  BY Invariance, <1>1, PTL

\* A lock that is neither read nor written has an empty queue, so wlock is
\* right to test only the counts.
THEOREM NoWaiterLeftBehind == Spec => []FreeMeansNoneWaiting
<1>1. IInv => FreeMeansNoneWaiting  BY DEF IInv, WaitingOK, FreeMeansNoneWaiting
<1> QED  BY Invariance, <1>1, PTL

\* The panics of runlock and wunlock are unreachable.
THEOREM PanicFree == Spec => []NoPanic
<1>1. IInv => NoPanic  BY DEF IInv, Coherent, WaitingOK, NoPanic
<1> QED  BY Invariance, <1>1, PTL
=============================================================================
