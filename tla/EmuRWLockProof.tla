--------------------------- MODULE EmuRWLockProof ----------------------------
(***************************************************************************)
(* The RWlock of the hosted system, for any number of processes: an        *)
(* invariant that each of its steps keeps.  It is stated for the lock as a *)
(* part of Emu, where other code uses the semaphores of the processes that *)
(* are idle here: nothing is asked of their tokens, except that a process  *)
(* comes to the lock without one.  EmuProof has the theorems.              *)
(***************************************************************************)
EXTENDS EmuRWLock, TLAPS

\* z is on the queue q; nothing is on q twice.
Has(q, z) == \E i \in 1 .. Len(q) : q[i] = z
Once(q) == \A i, j \in 1 .. Len(q) : q[i] = q[j] => i = j

\* An empty queue.
LEMMA EmptyQueue == Once(<<>>) /\ \A z : ~Has(<<>>, z)
  BY DEF Once, Has

\* One joins at the tail.
LEMMA JoinTail ==
    ASSUME NEW S, NEW q \in Seq(S), NEW p \in S
    PROVE  /\ Append(q, p) \in Seq(S) /\ Append(q, p) # <<>>
           /\ \A z : Has(Append(q, p), z) <=> Has(q, z) \/ z = p
           /\ Once(q) /\ ~Has(q, p) => Once(Append(q, p))
<1> DEFINE a == Append(q, p)
<1>1. /\ a \in Seq(S) /\ Len(a) = Len(q) + 1 /\ a[Len(q) + 1] = p /\ Len(q) \in Nat
      /\ \A i \in 1 .. Len(q) : a[i] = q[i]
  OBVIOUS
<1>2. \A z : Has(a, z) <=> Has(q, z) \/ z = p
  <2>1. ASSUME NEW i \in 1 .. Len(a) PROVE i = Len(q) + 1 \/ i \in 1 .. Len(q)  BY <1>1
  <2>2. Len(q) + 1 \in 1 .. Len(a) /\ \A i \in 1 .. Len(q) : i \in 1 .. Len(a)  BY <1>1
  <2> HIDE DEF a
  <2> QED  BY <1>1, <2>1, <2>2 DEF Has
<1>3. Once(q) /\ ~Has(q, p) => Once(a)
  <2>1. ASSUME NEW i \in 1 .. Len(a) PROVE i = Len(q) + 1 \/ i \in 1 .. Len(q)  BY <1>1
  <2> HIDE DEF a
  <2> QED  BY <1>1, <2>1 DEF Has, Once
<1>4. a # <<>> /\ Head(a) = a[1]  OBVIOUS
<1> QED  BY <1>1, <1>2, <1>3, <1>4

\* The first leaves.
LEMMA LeaveHead ==
    ASSUME NEW S, NEW q \in Seq(S), q # <<>>
    PROVE  /\ Head(q) \in S /\ Tail(q) \in Seq(S) /\ Has(q, Head(q))
           /\ \A z : Has(q, z) <=> Has(Tail(q), z) \/ z = Head(q)
           /\ Once(q) => Once(Tail(q)) /\ ~Has(Tail(q), Head(q))
<1> DEFINE t == Tail(q)
<1>1. /\ Head(q) \in S /\ t \in Seq(S) /\ Len(q) \in Nat /\ Len(q) > 0
      /\ Len(t) = Len(q) - 1 /\ Head(q) = q[1]
  OBVIOUS
<1>2. \A i \in 1 .. Len(t) : i + 1 \in 1 .. Len(q) /\ t[i] = q[i + 1]
  BY <1>1
<1>3. ASSUME NEW i \in 1 .. Len(q) PROVE i = 1 \/ (i - 1 \in 1 .. Len(t) /\ q[i] = t[i - 1])
  <2>1. i = 1 \/ i - 1 \in 1 .. Len(t)  BY <1>1
  <2>2. i = (i - 1) + 1  OBVIOUS
  <2> HIDE DEF t
  <2> QED  BY <1>2, <2>1, <2>2
<1>4. 1 \in 1 .. Len(q)  BY <1>1
<1>5. ASSUME NEW z PROVE Has(q, z) <=> Has(t, z) \/ z = Head(q)
  <2> HIDE DEF t
  <2>1. ASSUME NEW i \in 1 .. Len(q), q[i] = z PROVE Has(t, z) \/ z = Head(q)
    BY <1>1, <1>3, <2>1 DEF Has
  <2>2. ASSUME NEW i \in 1 .. Len(t), t[i] = z PROVE Has(q, z)  BY <1>2, <2>2 DEF Has
  <2>3. Has(q, Head(q))  BY <1>1, <1>4 DEF Has
  <2> QED  BY <2>1, <2>2, <2>3 DEF Has
<1>6. ASSUME Once(q) PROVE Once(t) /\ ~Has(t, Head(q))
  <2> HIDE DEF t
  <2>1. ASSUME NEW i \in 1 .. Len(t), NEW j \in 1 .. Len(t), t[i] = t[j] PROVE i = j
    <3>1. i + 1 = j + 1  BY <1>2, <1>6, <2>1 DEF Once
    <3> QED  BY <3>1
  <2>2. ASSUME NEW i \in 1 .. Len(t), t[i] = Head(q) PROVE FALSE
    <3>1. i + 1 = 1  BY <1>1, <1>2, <1>4, <1>6, <2>2 DEF Once
    <3> QED  BY <3>1
  <2> QED  BY <2>1, <2>2 DEF Once, Has
<1>7. Has(q, Head(q))  BY <1>1, <1>4 DEF Has
<1> QED  BY <1>1, <1>5, <1>6, <1>7

-----------------------------------------------------------------------------
\* Who has x: from the hand-off on, not only once it runs.  Who has k for writing.
\* The last reader, on its way to release k.
Owns(p) == \/ pc[p] \in {"rl", "rq", "wk", "wd", "wb", "writing", "vd", "vx"}
           \/ (pc[p] \in {"rx", "wx"} /\ ~Has(xq, p))
Writer(p) == pc[p] \in {"writing", "vd"} \/ (pc[p] = "wb" /\ ~Has(kq, p))
Draining(p) == pc[p] \in {"uk", "ud"}

\* The queues hold processes that wait and have no token, each once.
QueuesOK ==
    /\ Once(xq) /\ Once(kq)
    /\ \A p \in Procs : Has(xq, p) => pc[p] \in {"rx", "wx"} /\ sem[p] = 0
    /\ \A p \in Procs : Has(kq, p) => pc[p] = "wb" /\ sem[p] = 0

\* A token is for a process that waits, and who waits without one will be given one.
TokenOK == \A p \in Procs :
    /\ pc[p] # "idle" => sem[p] \in {0, 1}
    /\ pc[p] \in {"rx", "wx"} => sem[p] = 1 \/ Has(xq, p) \/ \E q \in Procs : target[q] = p
    /\ pc[p] = "wb" => sem[p] = 1 \/ Has(kq, p) \/ \E q \in Procs : target[q] = p
    /\ sem[p] > 0 => pc[p] \in {"idle", "rx", "wx", "wb"}

\* A qunlock is about to make ready a process that is off the queue and has no token,
\* and no two of them the same.  The one of wunlock finds nobody waiting for k.
TargetOK == \A q \in Procs :
    /\ target[q] # Nil <=> pc[q] \in {"rr", "ur", "vy"}
    /\ pc[q] # "vr"
    /\ pc[q] \in {"rr", "vy"} =>
          pc[target[q]] \in {"rx", "wx"} /\ ~Has(xq, target[q]) /\ sem[target[q]] = 0
    /\ pc[q] = "ur" =>
          pc[target[q]] = "wb" /\ ~Has(kq, target[q]) /\ sem[target[q]] = 0
    /\ \A p \in Procs : target[q] # Nil /\ target[p] = target[q] => p = q

\* x is locked while it has an owner, and has only one.
XOK ==
    /\ xlocked <=> \E p \in Procs : Owns(p)
    /\ \A p, q \in Procs : Owns(p) /\ Owns(q) => p = q

\* k is locked while there are readers, or the last of them has yet to release it, or
\* there is a writer; and these exclude each other.
KOK ==
    /\ klocked <=> readers > 0 \/ \E p \in Procs : Draining(p) \/ Writer(p)
    /\ readers > 0 => \A p \in Procs : ~Draining(p) /\ ~Writer(p)
    /\ \A p, q \in Procs : Draining(p) => ~Writer(q)

\* The spin locks are held between two steps by those that say so.
SpinOK == \A p \in Procs :
    /\ kuse = p <=> pc[p] \in {"ud", "wd", "vd"}
    /\ l = p <=> pc[p] \in {"uk", "ud", "ur", "ul"}

LockInv == TypeOK /\ QueuesOK /\ TokenOK /\ TargetOK /\ XOK /\ KOK /\ SpinOK

-----------------------------------------------------------------------------
\* What the tables of osblock and osready contain.
LEMMA Tables ==
    /\ DOMAIN Blocked = {"rx", "wx", "wb"}
    /\ Blocked["rx"] = "rl" /\ Blocked["wx"] = "wk" /\ Blocked["wb"] = "writing"
    /\ DOMAIN Readying = {"rr", "ur", "vr", "vy"}
    /\ Readying["rr"] = "reading" /\ Readying["ur"] = "ul" /\ Readying["vy"] = "idle"
  BY DEF Blocked, Readying

\* The initial states.
LEMMA InitKeeps == Nil \notin Procs /\ Init => LockInv
<1> SUFFICES ASSUME Nil \notin Procs, Init PROVE LockInv  OBVIOUS
<1>1. TypeOK
  <2>1. xlocked \in BOOLEAN /\ klocked \in BOOLEAN  BY Zenon DEF Init
  <2> QED  BY <2>1 DEF Init, TypeOK, Pointers, PCs
<1>2. QueuesOK /\ TokenOK /\ TargetOK  BY EmptyQueue DEF Init, QueuesOK, TokenOK, TargetOK
<1>3. XOK /\ KOK /\ SpinOK  BY DEF Init, XOK, KOK, SpinOK, Owns, Writer, Draining
<1> QED  BY <1>1, <1>2, <1>3 DEF LockInv

\* Where a process waits or is about to make another ready; and where it has x.
Waits == {"rx", "wx", "wb", "rr", "ur", "vr", "vy"}
XPCs == {"rl", "rq", "wk", "wd", "wb", "writing", "vd", "vx"}

\* A step that moves one process, which neither waits nor is about to make another
\* ready before or after it and brings no token, and leaves the queues and the tokens
\* as they are.
LEMMA PlainMove ==
    ASSUME LockInv, Nil \notin Procs, NEW p \in Procs, pc[p] \notin Waits,
           NEW a \in PCs \ Waits, pc' = [pc EXCEPT ![p] = a],
           UNCHANGED <<xq, kq, sem, target>>, pc[p] = "idle" => sem[p] = 0
    PROVE  /\ QueuesOK' /\ TokenOK' /\ TargetOK'
           /\ xlocked' = xlocked /\ (pc[p] \in XPCs <=> a \in XPCs) => XOK'
           /\ UNCHANGED <<klocked, readers>> /\ (pc[p] \in {"uk", "ud"} <=> a \in {"uk", "ud"})
              /\ (pc[p] \in {"writing", "vd"} <=> a \in {"writing", "vd"}) => KOK'
<1>1. pc \in [Procs -> PCs] /\ target \in [Procs -> Pointers]
  BY DEF LockInv, TypeOK
<1>2. \A q \in Procs : q # p => pc'[q] = pc[q]  BY <1>1
<1>3. pc'[p] = a  BY <1>1
<1> USE DEF LockInv, Waits
<1>4. QueuesOK'  BY <1>2, <1>3 DEF QueuesOK
<1>5. TokenOK'  BY <1>1, <1>2, <1>3 DEF TokenOK, TypeOK
<1>6. TargetOK'  BY <1>1, <1>2, <1>3 DEF TargetOK, Pointers
<1>7. ASSUME pc[p] \in XPCs <=> a \in XPCs PROVE \A q \in Procs : Owns(q)' <=> Owns(q)
  BY <1>2, <1>3, <1>7 DEF Owns, XPCs
<1>8. xlocked' = xlocked /\ (pc[p] \in XPCs <=> a \in XPCs) => XOK'  BY <1>7 DEF XOK
<1>9. ASSUME pc[p] \in {"uk", "ud"} <=> a \in {"uk", "ud"},
             pc[p] \in {"writing", "vd"} <=> a \in {"writing", "vd"}
      PROVE  \A q \in Procs : (Writer(q)' <=> Writer(q)) /\ (Draining(q)' <=> Draining(q))
  BY <1>2, <1>3, <1>9 DEF Writer, Draining
<1>10. UNCHANGED <<klocked, readers>> /\ (pc[p] \in {"uk", "ud"} <=> a \in {"uk", "ud"})
       /\ (pc[p] \in {"writing", "vd"} <=> a \in {"writing", "vd"}) => KOK'
  BY <1>9 DEF KOK
<1> QED  BY <1>4, <1>5, <1>6, <1>8, <1>10

\* The types of the lock's own variables after such a step.
LEMMA MoveTypes ==
    ASSUME LockInv, Nil \notin Procs, NEW p \in Procs, NEW a \in PCs, pc' = [pc EXCEPT ![p] = a],
           UNCHANGED <<xq, kq, sem, target>>, xlocked' \in BOOLEAN, klocked' \in BOOLEAN,
           kuse' \in Pointers, l' \in Pointers, readers' \in Nat
    PROVE  TypeOK'
  BY DEF LockInv, TypeOK

\* qlock(&l->x), of a reader or a writer.
LEMMA QlockXKeeps ==
    ASSUME LockInv, Nil \notin Procs, NEW p \in Procs, pc[p] = "idle", sem[p] = 0,
           NEW a \in {"rl", "wk"}, NEW b \in {"rx", "wx"}, QlockX(p, a, b)
    PROVE  LockInv'
<1> USE DEF LockInv
<1>1. /\ pc \in [Procs -> PCs] /\ xq \in Seq(Procs) /\ xlocked \in BOOLEAN
      /\ UNCHANGED <<kuse, klocked, kq, l, readers, sem, target>>
  BY DEF TypeOK, QlockX, kvars
<1>2. ASSUME ~xlocked PROVE xq' \in Seq(Procs) /\ QueuesOK' /\ TokenOK' /\ TargetOK' /\ XOK'
  <2>1. xlocked' = TRUE /\ xq' = xq /\ pc' = [pc EXCEPT ![p] = a]
    BY <1>2 DEF QlockX, Goto
  <2>2. a \in PCs \ Waits /\ "idle" \notin Waits  BY DEF PCs, Waits
  <2>3. QueuesOK' /\ TokenOK' /\ TargetOK'  BY <1>1, <2>1, <2>2, PlainMove, Zenon
  <2>4. \A q \in Procs : Owns(q)' <=> q = p  BY <1>1, <1>2, <2>1 DEF XOK, Owns, QueuesOK
  <2>5. XOK'  BY <2>1, <2>4 DEF XOK
  <2> QED  BY <1>1, <2>1, <2>3, <2>5
<1>3. ASSUME xlocked PROVE xq' \in Seq(Procs) /\ QueuesOK' /\ TokenOK' /\ TargetOK' /\ XOK'
  <2>1. xlocked' = TRUE /\ xq' = Append(xq, p) /\ pc' = [pc EXCEPT ![p] = b]
    BY <1>1, <1>3 DEF QlockX, Goto
  <2>2. Append(xq, p) \in Seq(Procs) /\ \A z : Has(Append(xq, p), z) <=> Has(xq, z) \/ z = p
    BY JoinTail, <1>1
  <2>3. ~Has(xq, p) /\ Once(Append(xq, p))  BY JoinTail, <1>1 DEF QueuesOK
  <2> USE <1>1, <1>3, <2>1, <2>2, <2>3
  <2>4. QueuesOK'  BY DEF QueuesOK, TokenOK
  <2>5. TokenOK' /\ TargetOK'  BY DEF TokenOK, TargetOK
  <2>6. \A q \in Procs : Owns(q)' <=> Owns(q)  BY DEF Owns
  <2>7. XOK'  BY <2>6 DEF XOK
  <2> QED  BY <2>4, <2>5, <2>7
<1>4. pc' \in [Procs -> PCs] /\ \A q \in Procs : q # p => pc'[q] = pc[q]
  BY <1>1 DEF QlockX, Goto, PCs
<1>5. pc'[p] \in {"rl", "wk", "rx", "wx"}  BY <1>1 DEF QlockX, Goto
<1>6. TypeOK'
  <2>1. xq' \in Seq(Procs)  BY <1>1, <1>2, <1>3
  <2>2. xlocked' \in BOOLEAN  BY <1>1, Zenon DEF QlockX
  <2> QED  BY <1>1, <1>4, <2>1, <2>2 DEF TypeOK
<1>7. KOK' /\ SpinOK'  BY <1>1, <1>4, <1>5 DEF KOK, Draining, Writer, SpinOK
<1> QED  BY <1>1, <1>2, <1>3, <1>6, <1>7

\* qunlock(&l->x), of a reader that is counted or of a writer that is done.
LEMMA QunlockXKeeps ==
    ASSUME LockInv, Nil \notin Procs, NEW p \in Procs, NEW a, NEW b, QunlockX(p, a, b),
           \/ pc[p] = "rq" /\ a = "reading" /\ b = "rr"
           \/ pc[p] = "vx" /\ a = "idle" /\ b = "vy"
    PROVE  LockInv'
<1> USE DEF LockInv
<1>1. /\ pc \in [Procs -> PCs] /\ xq \in Seq(Procs) /\ xlocked \in BOOLEAN
      /\ target \in [Procs -> Pointers]
      /\ UNCHANGED <<kuse, klocked, kq, l, readers, sem>>
  BY DEF TypeOK, QunlockX, kvars
<1>2. target[p] = Nil /\ Owns(p) /\ ~Has(xq, p) /\ ~Has(kq, p)
  BY DEF TargetOK, Owns, QueuesOK
<1>3. ASSUME xq # <<>>
      PROVE  /\ xq' \in Seq(Procs) /\ target' \in [Procs -> Pointers]
             /\ QueuesOK' /\ TokenOK' /\ TargetOK' /\ XOK'
  <2> DEFINE h == Head(xq)
  <2>1. /\ xlocked' = xlocked /\ xq' = Tail(xq) /\ pc' = [pc EXCEPT ![p] = b]
        /\ target' = [target EXCEPT ![p] = h]
    BY <1>3 DEF QunlockX, Goto
  <2>2. /\ h \in Procs /\ Tail(xq) \in Seq(Procs) /\ Has(xq, h)
        /\ \A z : Has(xq, z) <=> Has(Tail(xq), z) \/ z = h
        /\ Once(Tail(xq)) /\ ~Has(Tail(xq), h)
    BY LeaveHead, <1>1, <1>3 DEF QueuesOK
  <2> HIDE DEF h
  <2>3. h # p /\ pc[h] \in {"rx", "wx"} /\ sem[h] = 0  BY <1>2, <2>2 DEF QueuesOK
  <2>4. \A q \in Procs : target[q] # h  BY <2>2, <2>3 DEF TargetOK
  <2> USE <1>1, <1>2, <2>1, <2>2, <2>3
  <2>5. QueuesOK'  BY DEF QueuesOK
  <2>6. TokenOK'
    <3>1. ASSUME NEW z \in Procs, NEW q \in Procs, target[q] = z PROVE target'[q] = z
      BY <3>1
    <3>2. target'[p] = h  OBVIOUS
    <3> QED  BY <3>1, <3>2 DEF TokenOK
  <2>7. TargetOK'  BY <2>4 DEF TargetOK
  <2>8. \A q \in Procs : Owns(q)' <=> q = h  BY DEF Owns, XOK
  <2>9. XOK'  BY <2>8 DEF XOK
  <2>10. target' \in [Procs -> Pointers]  BY DEF Pointers
  <2> QED  BY <2>5, <2>6, <2>7, <2>9, <2>10
<1>4. ASSUME xq = <<>>
      PROVE  /\ xq' \in Seq(Procs) /\ target' \in [Procs -> Pointers]
             /\ QueuesOK' /\ TokenOK' /\ TargetOK' /\ XOK'
  <2>1. xlocked' = FALSE /\ xq' = xq /\ pc' = [pc EXCEPT ![p] = a] /\ target' = target
    BY <1>4 DEF QunlockX, Goto
  <2>2. a \in PCs \ Waits /\ pc[p] \notin Waits  BY DEF PCs, Waits
  <2>3. QueuesOK' /\ TokenOK' /\ TargetOK'  BY <1>1, <2>1, <2>2, PlainMove, Zenon
  <2>4. \A q \in Procs : ~Owns(q)'  BY <1>1, <1>2, <2>1 DEF Owns, XOK
  <2>5. XOK'  BY <2>1, <2>4 DEF XOK
  <2> QED  BY <1>1, <2>1, <2>3, <2>5
<1>5. pc' \in [Procs -> PCs] /\ \A q \in Procs : q # p => pc'[q] = pc[q]
  BY <1>1 DEF QunlockX, Goto, PCs
<1>6. pc'[p] \in {a, b}  BY <1>1 DEF QunlockX, Goto
<1>7. TypeOK'
  <2>1. xlocked' \in BOOLEAN  BY <1>1, Zenon DEF QunlockX
  <2> QED  BY <1>1, <1>3, <1>4, <1>5, <2>1 DEF TypeOK
<1>8. KOK' /\ SpinOK'  BY <1>1, <1>5, <1>6 DEF KOK, Draining, Writer, SpinOK
<1> QED  BY <1>3, <1>4, <1>7, <1>8

\* lock(&l->k.use), in qlock(&l->k) and in both releases of k.
LEMMA LockKuseKeeps ==
    ASSUME LockInv, Nil \notin Procs, NEW p \in Procs, NEW a, NEW b, LockKuse(p, b, a),
           <<b, a>> \in {<<"uk", "ud">>, <<"wk", "wd">>, <<"writing", "vd">>}
    PROVE  LockInv'
<1>1. /\ pc \in [Procs -> PCs] /\ pc' = [pc EXCEPT ![p] = a] /\ pc[p] = b
      /\ kuse = Nil /\ kuse' = p /\ kuse' \in Pointers
      /\ UNCHANGED <<xlocked, xq, klocked, kq, l, readers, sem, target>>
  BY DEF LockInv, TypeOK, Pointers, LockKuse, Goto, xvars
<1>2. a \in PCs \ Waits /\ b \notin Waits  BY DEF PCs, Waits
<1>3. TypeOK'  BY <1>1, <1>2, MoveTypes, Zenon DEF LockInv, TypeOK
<1>4. SpinOK'  BY <1>1 DEF LockInv, SpinOK
<1> QED  BY <1>1, <1>2, <1>3, <1>4, PlainMove, Zenon DEF LockInv, XPCs

\* A process that finds l free where rlock counts it: no last reader is on its way to
\* release k, nobody writes, and k.use is free.
LEMMA CountedAlone ==
    ASSUME LockInv, Nil \notin Procs, NEW p \in Procs, pc[p] = "rl", l = Nil
    PROVE  kuse = Nil /\ \A q \in Procs : ~Draining(q) /\ ~Writer(q)
<1> USE DEF LockInv
<1>1. \A q \in Procs : ~Draining(q)  BY DEF Draining, SpinOK
<1>2. ASSUME NEW q \in Procs, pc[q] \in {"wd", "vd", "writing", "wb"} PROVE FALSE
  BY <1>2 DEF XOK, Owns
<1>3. \A q \in Procs : ~Writer(q)  BY <1>2 DEF Writer
<1>4. kuse \in Procs \cup {Nil}  BY DEF TypeOK, Pointers
<1>5. kuse \notin Procs  BY <1>1, <1>2 DEF SpinOK, Draining
<1> QED  BY <1>1, <1>3, <1>4, <1>5

\* rlock's critical section of l: canqlock(&l->k) takes k for the first reader.
LEMMA RlockCountKeeps ==
    ASSUME LockInv, Nil \notin Procs, NEW p \in Procs, RlockCount(p)
    PROVE  LockInv'
<1>1. /\ pc \in [Procs -> PCs] /\ pc' = [pc EXCEPT ![p] = "rq"] /\ pc[p] = "rl"
      /\ l = Nil /\ readers' = readers + 1 /\ readers \in Nat
      /\ klocked \in BOOLEAN /\ klocked' = (klocked \/ Canqlock)
      /\ UNCHANGED <<xlocked, xq, kuse, kq, l, sem, target>>
  BY DEF LockInv, TypeOK, RlockCount, Goto, xvars
<1>2. kuse = Nil /\ \A q \in Procs : ~Draining(q) /\ ~Writer(q)  BY <1>1, CountedAlone
<1>3. readers > 0 \/ ~klocked  BY <1>1, <1>2 DEF LockInv, KOK
<1>4. readers > 0 => klocked  BY DEF LockInv, KOK
<1>5. klocked' = TRUE  BY <1>1, <1>2, <1>3, <1>4, Zenon DEF Canqlock
<1>6. "rq" \in PCs \ Waits /\ "rl" \notin Waits  BY DEF PCs, Waits
<1>7. TypeOK'
  <2>1. klocked' \in BOOLEAN /\ readers' \in Nat  BY <1>1, <1>5
  <2> QED  BY <1>1, <1>6, <2>1, MoveTypes, Zenon DEF LockInv, TypeOK
<1>8. \A q \in Procs : ~Writer(q)' /\ ~Draining(q)'  BY <1>1, <1>2 DEF Writer, Draining
<1>9. KOK'  BY <1>1, <1>5, <1>8 DEF KOK
<1>10. SpinOK'  BY <1>1 DEF LockInv, SpinOK
<1> QED  BY <1>1, <1>6, <1>7, <1>9, <1>10, PlainMove, Zenon DEF LockInv, XPCs

\* runlock: the last reader keeps l and goes on to release k.
LEMMA RunlockKeeps ==
    ASSUME LockInv, Nil \notin Procs, NEW p \in Procs, Runlock(p), readers > 0
    PROVE  LockInv'
<1>1. /\ pc \in [Procs -> PCs] /\ pc[p] = "reading" /\ l = Nil
      /\ readers' = readers - 1 /\ readers \in Nat
      /\ UNCHANGED <<xlocked, xq, kuse, klocked, kq, sem, target>>
  BY DEF LockInv, TypeOK, Runlock, xvars, kvars
<1>2. PICK a \in {"uk", "idle"} :
         /\ pc' = [pc EXCEPT ![p] = a]
         /\ a = "uk" => readers' = 0 /\ l' = p
         /\ a = "idle" => readers' > 0 /\ l' = l
  BY <1>1 DEF Runlock, Goto
<1>3. a \in PCs \ Waits /\ "reading" \notin Waits  BY DEF PCs, Waits
<1>4. l' \in Pointers /\ readers' \in Nat  BY <1>1, <1>2 DEF Pointers
<1>5. TypeOK'  BY <1>1, <1>2, <1>3, <1>4, MoveTypes, Zenon DEF LockInv, TypeOK
<1>6. \A q \in Procs : ~Draining(q) /\ ~Writer(q) /\ ~Writer(q)'
  BY <1>1, <1>2 DEF LockInv, KOK, Writer
<1>7. \A q \in Procs : Draining(q)' <=> q = p /\ a = "uk"  BY <1>1, <1>2, <1>6 DEF Draining
<1>8. klocked'  BY <1>1 DEF LockInv, KOK
<1>9. KOK'  BY <1>2, <1>4, <1>6, <1>7, <1>8 DEF KOK
<1>10. SpinOK'  BY <1>1, <1>2 DEF LockInv, SpinOK
<1> QED  BY <1>1, <1>2, <1>3, <1>5, <1>9, <1>10, PlainMove, Zenon DEF LockInv, XPCs

\* The last reader releases k, or hands it to the writer that waits for it.
LEMMA RunlockKKeeps ==
    ASSUME LockInv, Nil \notin Procs, NEW p \in Procs, RunlockK(p)
    PROVE  LockInv'
<1> USE DEF LockInv
<1>1. /\ pc \in [Procs -> PCs] /\ kq \in Seq(Procs) /\ target \in [Procs -> Pointers]
      /\ pc[p] = "ud" /\ kuse' = Nil /\ klocked \in BOOLEAN /\ readers \in Nat
      /\ UNCHANGED <<xlocked, xq, l, readers, sem>>
  BY DEF TypeOK, RunlockK, QunlockK, xvars
<1>2. /\ target[p] = Nil /\ Draining(p) /\ ~Has(xq, p) /\ ~Has(kq, p)
      /\ kuse = p /\ l = p /\ ~(readers > 0)
  BY <1>1 DEF TargetOK, Draining, QueuesOK, SpinOK, KOK
<1>3. \A q \in Procs : ~Writer(q) /\ (q # p => ~Draining(q))
  BY <1>1, <1>2 DEF KOK, SpinOK, Draining
<1>4. ASSUME kq # <<>>
      PROVE  /\ kq' \in Seq(Procs) /\ target' \in [Procs -> Pointers] /\ klocked' \in BOOLEAN
             /\ QueuesOK' /\ TokenOK' /\ TargetOK' /\ KOK'
  <2> DEFINE h == Head(kq)
  <2>1. /\ klocked' = klocked /\ kq' = Tail(kq) /\ pc' = [pc EXCEPT ![p] = "ur"]
        /\ target' = [target EXCEPT ![p] = h]
    BY <1>4 DEF RunlockK, QunlockK, Goto
  <2>2. /\ h \in Procs /\ Tail(kq) \in Seq(Procs) /\ Has(kq, h)
        /\ \A z : Has(kq, z) <=> Has(Tail(kq), z) \/ z = h
        /\ Once(Tail(kq)) /\ ~Has(Tail(kq), h)
    BY LeaveHead, <1>1, <1>4 DEF QueuesOK
  <2> HIDE DEF h
  <2>3. h # p /\ pc[h] = "wb" /\ sem[h] = 0  BY <1>2, <2>2 DEF QueuesOK
  <2>4. \A q \in Procs : target[q] # h  BY <2>2, <2>3 DEF TargetOK
  <2> USE <1>1, <1>2, <2>1, <2>2, <2>3
  <2>5. QueuesOK'  BY DEF QueuesOK
  <2>6. TokenOK'
    <3>1. ASSUME NEW z \in Procs, NEW q \in Procs, target[q] = z PROVE target'[q] = z
      BY <3>1
    <3>2. target'[p] = h  OBVIOUS
    <3> QED  BY <3>1, <3>2 DEF TokenOK
  <2>7. TargetOK'  BY <2>4 DEF TargetOK
  <2>8. \A q \in Procs : ~Draining(q)'  BY <1>3 DEF Draining
  <2>9. \A q \in Procs : q = h => Writer(q)'  BY DEF Writer
  <2>10. klocked' = TRUE  BY DEF KOK
  <2>11. KOK'  BY <2>8, <2>9, <2>10 DEF KOK
  <2>12. target' \in [Procs -> Pointers]  BY DEF Pointers
  <2> QED  BY <2>5, <2>6, <2>7, <2>11, <2>12
<1>5. ASSUME kq = <<>>
      PROVE  /\ kq' \in Seq(Procs) /\ target' \in [Procs -> Pointers] /\ klocked' \in BOOLEAN
             /\ QueuesOK' /\ TokenOK' /\ TargetOK' /\ KOK'
  <2>1. klocked' = FALSE /\ kq' = kq /\ pc' = [pc EXCEPT ![p] = "ul"] /\ target' = target
    BY <1>5 DEF RunlockK, QunlockK, Goto
  <2>2. "ul" \in PCs \ Waits /\ "ud" \notin Waits  BY DEF PCs, Waits
  <2>3. QueuesOK' /\ TokenOK' /\ TargetOK'  BY <1>1, <2>1, <2>2, PlainMove, Zenon
  <2>4. \A q \in Procs : ~Draining(q)' /\ ~Writer(q)'
    BY <1>1, <1>3, <2>1 DEF Draining, Writer
  <2>5. KOK'  BY <1>1, <1>2, <2>1, <2>4 DEF KOK
  <2> QED  BY <1>1, <2>1, <2>3, <2>5, Zenon
<1>6. pc' \in [Procs -> PCs] /\ \A q \in Procs : q # p => pc'[q] = pc[q]
  BY <1>1 DEF RunlockK, QunlockK, Goto, PCs
<1>7. pc'[p] \in {"ul", "ur"}  BY <1>1 DEF RunlockK, QunlockK, Goto
<1>8. TypeOK'  BY <1>1, <1>4, <1>5, <1>6 DEF TypeOK, Pointers
<1>9. \A q \in Procs : Owns(q)' <=> Owns(q)  BY <1>1, <1>6, <1>7 DEF Owns
<1>10. XOK'  BY <1>1, <1>9 DEF XOK
<1>11. SpinOK'  BY <1>1, <1>2, <1>6, <1>7 DEF SpinOK
<1> QED  BY <1>4, <1>5, <1>8, <1>10, <1>11

\* The end of runlock.
LEMMA RunlockEndKeeps ==
    ASSUME LockInv, Nil \notin Procs, NEW p \in Procs, RunlockEnd(p)
    PROVE  LockInv'
<1>1. /\ pc \in [Procs -> PCs] /\ pc' = [pc EXCEPT ![p] = "idle"] /\ pc[p] = "ul"
      /\ l' = Nil /\ l' \in Pointers
      /\ UNCHANGED <<xlocked, xq, kuse, klocked, kq, readers, sem, target>>
  BY DEF LockInv, TypeOK, Pointers, RunlockEnd, Goto, xvars, kvars
<1>2. "idle" \in PCs \ Waits /\ "ul" \notin Waits  BY DEF PCs, Waits
<1>3. TypeOK'  BY <1>1, <1>2, MoveTypes, Zenon DEF LockInv, TypeOK
<1>4. SpinOK'  BY <1>1 DEF LockInv, SpinOK
<1> QED  BY <1>1, <1>2, <1>3, <1>4, PlainMove, Zenon DEF LockInv, XPCs

\* qlock(&l->k) of a writer.
LEMMA WlockKKeeps ==
    ASSUME LockInv, Nil \notin Procs, NEW p \in Procs, WlockK(p)
    PROVE  LockInv'
<1> USE DEF LockInv
<1>1. /\ pc \in [Procs -> PCs] /\ kq \in Seq(Procs) /\ klocked \in BOOLEAN
      /\ pc[p] = "wd" /\ kuse' = Nil /\ readers \in Nat
      /\ UNCHANGED <<xlocked, xq, l, readers, sem, target>>
  BY DEF TypeOK, WlockK, xvars
<1>2. kuse = p /\ ~Has(kq, p)  BY <1>1 DEF SpinOK, QueuesOK
<1>3. ASSUME ~klocked
      PROVE  /\ kq' \in Seq(Procs) /\ klocked' \in BOOLEAN
             /\ QueuesOK' /\ TokenOK' /\ TargetOK' /\ KOK'
  <2>1. klocked' = TRUE /\ kq' = kq /\ pc' = [pc EXCEPT ![p] = "writing"]
    BY <1>3 DEF WlockK, Goto
  <2>2. "writing" \in PCs \ Waits /\ "wd" \notin Waits  BY DEF PCs, Waits
  <2>3. QueuesOK' /\ TokenOK' /\ TargetOK'  BY <1>1, <2>1, <2>2, PlainMove, Zenon
  <2> USE <1>1, <1>2, <2>1
  <2>5. ~(readers > 0) /\ \A q \in Procs : ~Draining(q)'  BY <1>3 DEF KOK, Draining
  <2>6. Writer(p)'  BY DEF Writer
  <2>7. KOK'  BY <2>5, <2>6 DEF KOK
  <2> QED  BY <2>3, <2>7
<1>4. ASSUME klocked
      PROVE  /\ kq' \in Seq(Procs) /\ klocked' \in BOOLEAN
             /\ QueuesOK' /\ TokenOK' /\ TargetOK' /\ KOK'
  <2>1. klocked' = TRUE /\ kq' = Append(kq, p) /\ pc' = [pc EXCEPT ![p] = "wb"]
    BY <1>1, <1>4 DEF WlockK, Goto
  <2>2. Append(kq, p) \in Seq(Procs) /\ \A z : Has(Append(kq, p), z) <=> Has(kq, z) \/ z = p
    BY JoinTail, <1>1
  <2>3. Once(Append(kq, p))  BY JoinTail, <1>1, <1>2 DEF QueuesOK
  <2> USE <1>1, <1>4, <2>1, <2>2, <2>3
  <2>4. QueuesOK'  BY DEF QueuesOK, TokenOK
  <2>5. TokenOK' /\ TargetOK'  BY DEF TokenOK, TargetOK
  <2>6. \A q \in Procs : (Writer(q)' <=> Writer(q)) /\ (Draining(q)' <=> Draining(q))
    BY <1>1 DEF Writer, Draining
  <2>7. KOK'  BY <2>6 DEF KOK
  <2> QED  BY <2>4, <2>5, <2>7
<1>5. pc' \in [Procs -> PCs] /\ \A q \in Procs : q # p => pc'[q] = pc[q]
  BY <1>1 DEF WlockK, Goto, PCs
<1>6. pc'[p] \in {"writing", "wb"}  BY <1>1 DEF WlockK, Goto
<1>7. TypeOK'  BY <1>1, <1>3, <1>4, <1>5 DEF TypeOK, Pointers
<1>8. \A q \in Procs : Owns(q)' <=> Owns(q)  BY <1>1, <1>5, <1>6 DEF Owns
<1>9. XOK'  BY <1>1, <1>8 DEF XOK
<1>10. SpinOK'  BY <1>1, <1>2, <1>5, <1>6 DEF SpinOK
<1> QED  BY <1>1, <1>3, <1>4, <1>7, <1>9, <1>10

\* qunlock(&l->k) of a writer: nobody waits for k, since whoever does holds x.
LEMMA WunlockKKeeps ==
    ASSUME LockInv, Nil \notin Procs, NEW p \in Procs, WunlockK(p)
    PROVE  LockInv'
<1>1. /\ pc \in [Procs -> PCs] /\ kq \in Seq(Procs) /\ pc[p] = "vd" /\ readers \in Nat
  BY DEF LockInv, TypeOK, WunlockK
<1>2. kq = <<>>
  <2>1. SUFFICES ASSUME kq # <<>> PROVE FALSE  OBVIOUS
  <2>2. Head(kq) \in Procs /\ Has(kq, Head(kq))  BY LeaveHead, <1>1, <2>1
  <2>3. pc[Head(kq)] = "wb"  BY <2>2 DEF LockInv, QueuesOK
  <2> QED  BY <1>1, <2>2, <2>3 DEF LockInv, XOK, Owns
<1>3. /\ pc' = [pc EXCEPT ![p] = "vx"] /\ kuse' = Nil /\ kuse' \in Pointers
      /\ klocked' = FALSE
      /\ UNCHANGED <<xlocked, xq, kq, l, readers, sem, target>>
  BY <1>2 DEF WunlockK, QunlockK, Goto, Pointers, xvars
<1>4. "vx" \in PCs \ Waits /\ "vd" \notin Waits  BY DEF PCs, Waits
<1>5. TypeOK'  BY <1>3, <1>4, MoveTypes, Zenon DEF LockInv, TypeOK
<1>6. ASSUME NEW q \in Procs, q # p PROVE ~Writer(q)
  BY <1>1, <1>6 DEF LockInv, XOK, Owns, Writer
<1>7. ~(readers > 0) /\ \A q \in Procs : ~Draining(q)  BY <1>1 DEF LockInv, KOK, Writer
<1>8. \A q \in Procs : ~Writer(q)' /\ ~Draining(q)'
  BY <1>1, <1>3, <1>6, <1>7 DEF Writer, Draining
<1>9. KOK'  BY <1>3, <1>7, <1>8 DEF KOK
<1>10. SpinOK'  BY <1>1, <1>3 DEF LockInv, SpinOK
<1> QED  BY <1>1, <1>3, <1>4, <1>5, <1>9, <1>10, PlainMove, Zenon DEF LockInv, XPCs

\* osblock returns: the process has its token, so that it is on no queue and nobody
\* is about to make it ready.
LEMMA OsblockKeeps ==
    ASSUME LockInv, Nil \notin Procs, NEW p \in Procs, Osblock(p)
    PROVE  LockInv'
<1> USE DEF LockInv
<1>0. sem[p] = 1  BY Tables DEF Osblock, TokenOK
<1>1. /\ pc \in [Procs -> PCs] /\ sem \in [Procs -> Nat]
      /\ target \in [Procs -> Pointers]
      /\ sem[p] = 1 /\ sem' = [sem EXCEPT ![p] = 0]
      /\ UNCHANGED <<xlocked, xq, kuse, klocked, kq, l, readers, target>>
  BY <1>0 DEF TypeOK, Osblock, xvars, kvars
<1>2. \/ pc[p] = "rx" /\ pc' = [pc EXCEPT ![p] = "rl"]
      \/ pc[p] = "wx" /\ pc' = [pc EXCEPT ![p] = "wk"]
      \/ pc[p] = "wb" /\ pc' = [pc EXCEPT ![p] = "writing"]
  BY Tables, Zenon DEF Osblock, Goto
<1>3. pc' \in [Procs -> PCs] /\ sem' \in [Procs -> Nat]  BY <1>1, <1>2 DEF PCs
<1>4. TypeOK'  BY <1>1, <1>3 DEF TypeOK
<1>5. /\ sem[p] = 1 /\ sem'[p] = 0 /\ \A q \in Procs : q # p => sem'[q] = sem[q]
      /\ \/ pc[p] = "rx" /\ pc'[p] = "rl"
         \/ pc[p] = "wx" /\ pc'[p] = "wk"
         \/ pc[p] = "wb" /\ pc'[p] = "writing"
      /\ \A q \in Procs : q # p => pc'[q] = pc[q]
      /\ \A q \in Procs : target[q] \in Procs \cup {Nil}
      /\ UNCHANGED <<xlocked, xq, kuse, klocked, kq, l, readers, target>>
  BY <1>1, <1>2 DEF Pointers
<1>6. ~Has(xq, p) /\ ~Has(kq, p) /\ \A q \in Procs : target[q] # p
  BY <1>5 DEF QueuesOK, TargetOK
<1>7. QueuesOK'  BY <1>5, <1>6 DEF QueuesOK
<1>8. TokenOK'  BY <1>5, <1>6 DEF TokenOK
<1>9. TargetOK'  BY <1>5, <1>6 DEF TargetOK
<1>10. \A q \in Procs : Owns(q)' <=> Owns(q)  BY <1>5, <1>6 DEF Owns
<1>11. \A q \in Procs : (Writer(q)' <=> Writer(q)) /\ (Draining(q)' <=> Draining(q))
  BY <1>5, <1>6 DEF Writer, Draining
<1>12. XOK' /\ KOK'  BY <1>5, <1>10, <1>11 DEF XOK, KOK
<1>13. SpinOK'  BY <1>5 DEF SpinOK
<1> QED  BY <1>4, <1>7, <1>8, <1>9, <1>12, <1>13

\* osready gives the token.
LEMMA OsreadyKeeps ==
    ASSUME LockInv, Nil \notin Procs, NEW p \in Procs, Osready(p)
    PROVE  LockInv'
<1> USE DEF LockInv
<1> DEFINE t == target[p]
<1>1. /\ pc \in [Procs -> PCs] /\ sem \in [Procs -> Nat]
      /\ target \in [Procs -> Procs \cup {Nil}] /\ target' = [target EXCEPT ![p] = Nil]
      /\ sem' = [sem EXCEPT ![t] = sem[t] + 1]
      /\ UNCHANGED <<xlocked, xq, kuse, klocked, kq, l, readers>>
  BY DEF TypeOK, Pointers, Osready, xvars, kvars
<1>2. \/ pc[p] = "rr" /\ pc' = [pc EXCEPT ![p] = "reading"]
      \/ pc[p] = "ur" /\ pc' = [pc EXCEPT ![p] = "ul"]
      \/ pc[p] = "vy" /\ pc' = [pc EXCEPT ![p] = "idle"]
  <2>1. pc[p] \in {"rr", "ur", "vy"}  BY Tables DEF Osready, TargetOK
  <2>2. pc' = [pc EXCEPT ![p] = Readying[pc[p]]]  BY DEF Osready, Goto
  <2> QED  BY <2>1, <2>2, Tables, Zenon
<1>3. t \in Procs /\ t # p /\ sem[t] = 0 /\ \A q \in Procs : q # p => target[q] # t
  BY <1>1, <1>2 DEF TargetOK
<1>4. pc[t] \in {"rx", "wx", "wb"} /\ ~Has(xq, t) /\ ~Has(kq, t)
  BY <1>2, <1>3 DEF TargetOK, QueuesOK
<1>5. pc' \in [Procs -> PCs] /\ sem' \in [Procs -> Nat] /\ target' \in [Procs -> Pointers]
  BY <1>1, <1>2, <1>3 DEF PCs, Pointers
<1>6. TypeOK'  BY <1>1, <1>5 DEF TypeOK
<1>7. PICK z \in Procs : z = target[p]  BY <1>3
<1>8. /\ z # p /\ sem[z] = 0 /\ sem'[z] = 1 /\ \A q \in Procs : q # z => sem'[q] = sem[q]
      /\ pc[z] \in {"rx", "wx", "wb"} /\ ~Has(xq, z) /\ ~Has(kq, z)
      /\ target'[p] = Nil /\ \A q \in Procs : q # p => target'[q] = target[q] /\ target[q] # z
      /\ \A q \in Procs : q # p => pc'[q] = pc[q]
      /\ \A q \in Procs : target[q] \in Procs \cup {Nil}
      /\ UNCHANGED <<xlocked, xq, kuse, klocked, kq, l, readers>>
  BY <1>1, <1>2, <1>3, <1>4, <1>7
<1>9. \/ pc[p] = "rr" /\ pc'[p] = "reading"
      \/ pc[p] = "ur" /\ pc'[p] = "ul"
      \/ pc[p] = "vy" /\ pc'[p] = "idle"
  BY <1>1, <1>2
<1> HIDE DEF t
<1>10. QueuesOK'
  <2>1. ~Has(xq, p) /\ ~Has(kq, p)  BY <1>9 DEF QueuesOK
  <2> QED  BY <1>8, <2>1 DEF QueuesOK
<1>11. TokenOK'  BY <1>7, <1>8, <1>9 DEF TokenOK
<1>12. TargetOK'  BY <1>8, <1>9 DEF TargetOK
<1>13. \A q \in Procs : Owns(q)' <=> Owns(q)  BY <1>8, <1>9 DEF Owns
<1>14. \A q \in Procs : (Writer(q)' <=> Writer(q)) /\ (Draining(q)' <=> Draining(q))
  BY <1>8, <1>9 DEF Writer, Draining
<1>15. XOK' /\ KOK'  BY <1>8, <1>13, <1>14 DEF XOK, KOK
<1>16. SpinOK'  BY <1>8, <1>9 DEF SpinOK
<1> QED  BY <1>6, <1>10, <1>11, <1>12, <1>15, <1>16

-----------------------------------------------------------------------------
\* Every step of the lock.  EmuProof shows from the count of the readers that runlock
\* finds it above zero.
LEMMA StepKeeps ==
    ASSUME LockInv, Nil \notin Procs, NEW p \in Procs, Enter(p) \/ Go(p),
           pc[p] = "idle" => sem[p] = 0, pc[p] = "reading" => readers > 0
    PROVE  LockInv'
<1>1. CASE Enter(p)
  <2>1. pc[p] = "idle" /\ (QlockX(p, "rl", "rx") \/ QlockX(p, "wk", "wx"))
    BY <1>1 DEF Enter, RlockX, CanrlockX, WlockX
  <2> QED  BY <2>1, QlockXKeeps
<1>2. CASE RlockCount(p)  BY <1>2, RlockCountKeeps
<1>3. CASE RlockRelease(p)  BY <1>3, QunlockXKeeps DEF RlockRelease
<1>4. CASE Runlock(p)
  <2>1. pc[p] = "reading"  BY <1>4 DEF Runlock
  <2> QED  BY <1>4, <2>1, RunlockKeeps
<1>5. CASE RunlockUse(p)  BY <1>5, LockKuseKeeps DEF RunlockUse
<1>6. CASE RunlockK(p)  BY <1>6, RunlockKKeeps
<1>7. CASE RunlockEnd(p)  BY <1>7, RunlockEndKeeps
<1>8. CASE WlockUse(p)  BY <1>8, LockKuseKeeps DEF WlockUse
<1>9. CASE WlockK(p)  BY <1>9, WlockKKeeps
<1>10. CASE WunlockUse(p)  BY <1>10, LockKuseKeeps DEF WunlockUse
<1>11. CASE WunlockK(p)  BY <1>11, WunlockKKeeps
<1>12. CASE WunlockX(p)  BY <1>12, QunlockXKeeps DEF WunlockX
<1>13. CASE Osblock(p)  BY <1>13, OsblockKeeps
<1>14. CASE Osready(p)  BY <1>14, OsreadyKeeps
<1> QED
  BY <1>1, <1>2, <1>3, <1>4, <1>5, <1>6, <1>7, <1>8, <1>9, <1>10, <1>11, <1>12, <1>13, <1>14
     DEF Go

\* A step of the lock moves one process, gives and takes tokens of waiting processes
\* only, and counts a process when it becomes a reader and when it ceases to be one.
LEMMA StepFrame ==
    ASSUME LockInv, Nil \notin Procs, NEW p \in Procs, Enter(p) \/ Go(p)
    PROVE  /\ \A q \in Procs : /\ q # p => pc'[q] = pc[q]
                               /\ pc[q] = "idle" => sem'[q] = sem[q]
           /\ pc'[p] = "idle" => sem'[p] = 0
           /\ \/ readers' = readers /\ (Reads(p)' <=> Reads(p))
              \/ readers' = readers + 1 /\ ~Reads(p) /\ Reads(p)'
              \/ readers' = readers - 1 /\ Reads(p) /\ ~Reads(p)'
<1> USE DEF Goto, Reads
<1>1. /\ pc \in [Procs -> PCs] /\ sem \in [Procs -> Nat]
      /\ pc[p] \in {"idle", "rx", "wx", "wb"} \/ sem[p] = 0
  BY DEF LockInv, TypeOK, TokenOK
<1>2. CASE Osready(p)
  <2>1. pc[p] \in {"rr", "ur", "vy"}  BY <1>2, Tables DEF Osready, LockInv, TargetOK
  <2>2. p # target[p] /\ \A q \in Procs : pc[q] = "idle" => q # target[p]
    BY <2>1 DEF LockInv, TargetOK
  <2>3. pc'[p] = Readying[pc[p]] /\ readers' = readers  BY <1>1, <1>2 DEF Osready
  <2>4. Reads(p)' <=> Reads(p)  BY <2>1, <2>3, Tables
  <2> QED  BY <1>1, <1>2, <2>1, <2>2, <2>3, <2>4 DEF Osready
<1>3. CASE Osblock(p)
  <2>1. pc[p] \in {"rx", "wx", "wb"}  BY <1>3, Tables DEF Osblock
  <2>2. pc'[p] = Blocked[pc[p]] /\ readers' = readers  BY <1>1, <1>3 DEF Osblock
  <2>3. ~Reads(p)' /\ ~Reads(p) /\ pc'[p] # "idle"  BY <2>1, <2>2, Tables
  <2> QED  BY <1>1, <1>3, <2>1, <2>2, <2>3 DEF Osblock
<1>4. CASE Enter(p)  BY <1>1, <1>4 DEF Enter, RlockX, CanrlockX, WlockX, QlockX
<1>5. CASE RlockCount(p) \/ Runlock(p)  BY <1>1, <1>5 DEF RlockCount, Runlock
<1>6. CASE RunlockEnd(p) \/ WlockK(p)  BY <1>1, <1>6 DEF RunlockEnd, WlockK
<1>7. CASE RlockRelease(p) \/ WunlockX(p)
  BY <1>1, <1>7 DEF RlockRelease, WunlockX, QunlockX
<1>8. CASE RunlockUse(p) \/ WlockUse(p) \/ WunlockUse(p)
  BY <1>1, <1>8 DEF RunlockUse, WlockUse, WunlockUse, LockKuse
<1>9. CASE RunlockK(p) \/ WunlockK(p)  BY <1>1, <1>9 DEF RunlockK, WunlockK, QunlockK
<1> QED  BY <1>2, <1>3, <1>4, <1>5, <1>6, <1>7, <1>8, <1>9 DEF Go

\* Steps of other code, which may use the semaphores of idle processes.
LEMMA OthersKeep ==
    ASSUME LockInv, Nil \notin Procs, sem' \in [Procs -> Nat],
           UNCHANGED <<xlocked, xq, kuse, klocked, kq, l, readers, target, pc>>,
           \A q \in Procs : pc[q] # "idle" => sem'[q] = sem[q]
    PROVE  LockInv'
<1> USE DEF LockInv
<1>1. TypeOK'  BY DEF TypeOK
<1>2. QueuesOK'  BY DEF QueuesOK
<1>3. TokenOK'  BY DEF TokenOK, TypeOK
<1>4. TargetOK'
  <2>1. target \in [Procs -> Procs \cup {Nil}]  BY DEF TypeOK, Pointers
  <2> QED  BY <2>1 DEF TargetOK
<1>5. XOK' /\ SpinOK'  BY DEF XOK, SpinOK, Owns
<1>6. KOK'  BY DEF KOK, Draining, Writer
<1> QED  BY <1>1, <1>2, <1>3, <1>4, <1>5, <1>6

-----------------------------------------------------------------------------
\* What a process waits for: it is on a queue, or a qunlock is about to make it ready.
Awaits(p) == (IF Has(xq, p) THEN 1 ELSE 0) + (IF Has(kq, p) THEN 1 ELSE 0)
               + (IF \E q \in Procs : target[q] = p THEN 1 ELSE 0)

\* A process that waits for the lock has a token or awaits one, never both or two.
LEMMA OneAwaited ==
    ASSUME LockInv, Nil \notin Procs, NEW p \in Procs
    PROVE  /\ \A q, z \in Procs : target[q] = p /\ target[z] = p => q = z
           /\ pc[p] = "idle" => Awaits(p) = 0
           /\ pc[p] # "idle" =>
                 sem[p] + Awaits(p) = IF pc[p] \in DOMAIN Blocked THEN 1 ELSE 0
<1> USE DEF LockInv
<1>1. \A q, z \in Procs : target[q] = p /\ target[z] = p => q = z  BY DEF TargetOK
<1>2. (\E q \in Procs : target[q] = p) =>
         pc[p] \in {"rx", "wx", "wb"} /\ sem[p] = 0 /\ ~Has(xq, p) /\ ~Has(kq, p)
  BY DEF TargetOK, QueuesOK
<1>3. ~(Has(xq, p) /\ Has(kq, p))  BY DEF QueuesOK
<1>4. CASE pc[p] \notin {"rx", "wx", "wb"}
  <2>1. Awaits(p) = 0  BY <1>2, <1>4 DEF Awaits, QueuesOK
  <2>2. pc[p] # "idle" => sem[p] = 0  BY <1>4 DEF TokenOK, TypeOK
  <2> QED  BY <1>1, <1>4, <2>1, <2>2, Tables
<1>5. CASE pc[p] \in {"rx", "wx", "wb"}
  <2>1. \/ sem[p] = 1 
        \/ sem[p] = 0 /\ (Has(xq, p) \/ Has(kq, p) \/ \E q \in Procs : target[q] = p)
    BY <1>5 DEF TokenOK
  <2>2. sem[p] + Awaits(p) = 1  BY <1>2, <1>3, <2>1 DEF Awaits, QueuesOK
  <2> QED  BY <1>1, <1>5, <2>2, Tables
<1> QED  BY <1>4, <1>5

\* A writer has the lock to itself, as far as l->readers tells; and canqlock(&l->k) does
\* for rlock what its caller counts on.
LEMMA WriterAmongReaders ==
    ASSUME LockInv, Nil \notin Procs
    PROVE  /\ \A p, q \in Procs : Writes(p) /\ Writes(q) => p = q
           /\ \A p \in Procs : Writes(p) => ~(readers > 0)
           /\ readers > 0 => klocked
           /\ \A p \in Procs : pc[p] = "rl" /\ l = Nil => (Canqlock <=> readers = 0)
<1> USE DEF LockInv
<1>1. ASSUME NEW p \in Procs, Writes(p) PROVE Writer(p)
  BY <1>1 DEF Writes, Writer, QueuesOK, TargetOK
<1>2. ASSUME NEW p \in Procs, NEW q \in Procs, Writer(p), Writer(q) PROVE p = q
  BY <1>2 DEF XOK, Owns, Writer
<1>3. ASSUME NEW p \in Procs, Writer(p) PROVE ~(readers > 0)  BY <1>3 DEF KOK
<1>4. ASSUME NEW p \in Procs, pc[p] = "rl", l = Nil PROVE Canqlock <=> readers = 0
  <2>1. readers \in Nat /\ klocked \in BOOLEAN  BY DEF TypeOK
  <2>2. kuse = Nil /\ \A q \in Procs : ~Draining(q) /\ ~Writer(q)  BY <1>4, CountedAlone
  <2> QED  BY <2>1, <2>2 DEF Canqlock, KOK
<1>5. readers > 0 => klocked  BY DEF KOK
<1> QED  BY <1>1, <1>2, <1>3, <1>4, <1>5
=============================================================================
