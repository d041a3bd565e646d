---------------------------- MODULE MountMuxProof ----------------------------
(***************************************************************************)
(* For any number of processes and flushes: the mount driver does not use  *)
(* a tag again while the server may still answer it, m->queue is exact, a  *)
(* reply that came before the Rflush is not lost, and on a connection that *)
(* stays somebody is always on the way to read it.                         *)
(*                                                                         *)
(* The argument: the messages of a process are numbered in the order of    *)
(* its chain, and replies, what the server holds and what is on the way to *)
(* it are, in this order, ever later in the chain.  A reply to the last    *)
(* flush of a chain therefore leaves nothing of the chain under way.       *)
(* Almost all of the invariant is about one process at a time, and a step  *)
(* leaves what it says of the others as it was (Keeps).                    *)
(***************************************************************************)
EXTENDS MountMux, TLAPS

\* z is on the queue q; nothing is on q twice.
Has(q, z) == \E i \in 1 .. Len(q) : q[i] = z
Once(q) == \A i, j \in 1 .. Len(q) : q[i] = q[j] => i = j

\* An empty queue.
LEMMA EmptyQueue == Once(<<>>) /\ \A z : ~Has(<<>>, z)
  BY DEF Once, Has

\* A member of a queue is of the queue's type; a queue with a member is not empty.
LEMMA HasType == ASSUME NEW S, NEW q \in Seq(S), NEW z, Has(q, z) PROVE z \in S /\ q # <<>>
  BY DEF Has

\* One joins at the tail.
LEMMA JoinTail ==
    ASSUME NEW S, NEW q \in Seq(S), NEW p \in S
    PROVE  /\ Append(q, p) \in Seq(S) /\ Append(q, p) # <<>>
           /\ \A z : Has(Append(q, p), z) <=> Has(q, z) \/ z = p
           /\ Once(q) /\ ~Has(q, p) => Once(Append(q, p))
           /\ Head(Append(q, p)) = IF q = <<>> THEN p ELSE Head(q)
<1> DEFINE a == Append(q, p)
<1>1. /\ a \in Seq(S) /\ Len(a) = Len(q) + 1 /\ a[Len(q) + 1] = p /\ Len(q) \in Nat
      /\ \A i \in 1 .. Len(q) : a[i] = q[i]
  OBVIOUS
<1>2. \A z : Has(a, z) <=> Has(q, z) \/ z = p
  <2>1. ASSUME NEW i \in 1 .. Len(a) PROVE i = Len(q) + 1 \/ i \in 1 .. Len(q)  BY <1>1
  <2>2. Len(q) + 1 \in 1 .. Len(a) /\ \A i \in 1 .. Len(q) : i \in 1 .. Len(a)  BY <1>1
  <2> HIDE DEF a
  <2> QED  BY <1>1, <2>1, <2>2 DEF Has
<1>3. Once(q) /\ ~Has(q, p) => Once(a)
  <2>1. ASSUME NEW i \in 1 .. Len(a) PROVE i = Len(q) + 1 \/ i \in 1 .. Len(q)  BY <1>1
  <2> HIDE DEF a
  <2> QED  BY <1>1, <2>1 DEF Has, Once
<1>4. a # <<>> /\ Head(a) = IF q = <<>> THEN p ELSE Head(q)
  <2>1. a # <<>> /\ Head(a) = a[1]  OBVIOUS
  <2>2. CASE q = <<>>  BY <1>1, <2>1, <2>2
  <2>3. CASE q # <<>>  BY <1>1, <2>1, <2>3
  <2> QED  BY <2>1, <2>2, <2>3
<1> QED  BY <1>1, <1>2, <1>3, <1>4

\* One joins at the head.
LEMMA JoinHead ==
    ASSUME NEW S, NEW q \in Seq(S), NEW p \in S
    PROVE  /\ <<p>> \o q \in Seq(S) /\ <<p>> \o q # <<>> /\ Head(<<p>> \o q) = p
           /\ Tail(<<p>> \o q) = q
           /\ \A z : Has(<<p>> \o q, z) <=> Has(q, z) \/ z = p
           /\ Once(q) /\ ~Has(q, p) => Once(<<p>> \o q)
<1> DEFINE a == <<p>> \o q
<1>1. /\ a \in Seq(S) /\ Len(a) = Len(q) + 1 /\ a[1] = p /\ Len(q) \in Nat
      /\ \A i \in 1 .. Len(q) : a[i + 1] = q[i]
  OBVIOUS
<1>2. ASSUME NEW i \in 1 .. Len(a) PROVE i = 1 \/ (i - 1 \in 1 .. Len(q) /\ a[i] = q[i - 1])
  <2>1. i = 1 \/ i - 1 \in 1 .. Len(q)  BY <1>1
  <2>2. i = (i - 1) + 1  OBVIOUS
  <2> HIDE DEF a
  <2> QED  BY <1>1, <2>1, <2>2
<1>3. 1 \in 1 .. Len(a) /\ \A i \in 1 .. Len(q) : i + 1 \in 1 .. Len(a)  BY <1>1
<1>4. ASSUME NEW z PROVE Has(a, z) <=> Has(q, z) \/ z = p
  <2> HIDE DEF a
  <2>1. ASSUME NEW i \in 1 .. Len(a), a[i] = z PROVE Has(q, z) \/ z = p
    BY <1>1, <1>2, <2>1 DEF Has
  <2>2. ASSUME NEW i \in 1 .. Len(q), q[i] = z PROVE Has(a, z)  BY <1>1, <1>3, <2>2 DEF Has
  <2>3. Has(a, p)  BY <1>1, <1>3 DEF Has
  <2> QED  BY <2>1, <2>2, <2>3 DEF Has
<1>5. ASSUME Once(q), ~Has(q, p) PROVE Once(a)
  <2> HIDE DEF a
  <2>1. ASSUME NEW i \in 1 .. Len(a), a[i] = p PROVE i = 1
    <3>1. CASE i # 1
      <4>1. i - 1 \in 1 .. Len(q) /\ q[i - 1] = p  BY <1>2, <2>1, <3>1
      <4> QED  BY <1>5, <4>1, Zenon DEF Has
    <3> QED  BY <3>1
  <2>2. ASSUME NEW i \in 1 .. Len(a), NEW j \in 1 .. Len(a), a[i] = a[j], i # 1, j # 1
        PROVE  i = j
    <3>1. /\ i - 1 \in 1 .. Len(q) /\ a[i] = q[i - 1]
          /\ j - 1 \in 1 .. Len(q) /\ a[j] = q[j - 1]
      BY <1>2, <2>2
    <3>2. i - 1 = j - 1  BY <1>5, <2>2, <3>1, Zenon DEF Once
    <3> QED  BY <3>2
  <2> QED  BY <1>1, <2>1, <2>2 DEF Once
<1>6. a # <<>> /\ Head(a) = p  OBVIOUS
<1>7. Tail(a) = q  BY <1>1
<1> QED  BY <1>1, <1>4, <1>5, <1>6, <1>7, Zenon

\* The first leaves.
LEMMA LeaveHead ==
    ASSUME NEW S, NEW q \in Seq(S), q # <<>>
    PROVE  /\ Head(q) \in S /\ Tail(q) \in Seq(S) /\ Has(q, Head(q))
           /\ \A z : Has(q, z) <=> Has(Tail(q), z) \/ z = Head(q)
           /\ Once(q) => Once(Tail(q)) /\ ~Has(Tail(q), Head(q))
<1> DEFINE t == Tail(q)
<1>1. /\ Head(q) \in S /\ t \in Seq(S) /\ Len(q) \in Nat /\ Len(q) > 0
      /\ Len(t) = Len(q) - 1 /\ Head(q) = q[1]
  OBVIOUS
<1>2. \A i \in 1 .. Len(t) : i + 1 \in 1 .. Len(q) /\ t[i] = q[i + 1]
  BY <1>1
<1>3. ASSUME NEW i \in 1 .. Len(q) PROVE i = 1 \/ (i - 1 \in 1 .. Len(t) /\ q[i] = t[i - 1])
  <2>1. i = 1 \/ i - 1 \in 1 .. Len(t)  BY <1>1
  <2>2. i = (i - 1) + 1  OBVIOUS
  <2> HIDE DEF t
  <2> QED  BY <1>2, <2>1, <2>2
<1>4. 1 \in 1 .. Len(q)  BY <1>1
<1>5. ASSUME NEW z PROVE Has(q, z) <=> Has(t, z) \/ z = Head(q)
  <2> HIDE DEF t
  <2>1. ASSUME NEW i \in 1 .. Len(q), q[i] = z PROVE Has(t, z) \/ z = Head(q)
    BY <1>1, <1>3, <2>1 DEF Has
  <2>2. ASSUME NEW i \in 1 .. Len(t), t[i] = z PROVE Has(q, z)  BY <1>2, <2>2 DEF Has
  <2>3. Has(q, Head(q))  BY <1>1, <1>4 DEF Has
  <2> QED  BY <2>1, <2>2, <2>3 DEF Has
<1>6. ASSUME Once(q) PROVE Once(t) /\ ~Has(t, Head(q))
  <2> HIDE DEF t
  <2>1. ASSUME NEW i \in 1 .. Len(t), NEW j \in 1 .. Len(t), t[i] = t[j] PROVE i = j
    <3>1. i + 1 = j + 1  BY <1>2, <1>6, <2>1 DEF Once
    <3> QED  BY <3>1
  <2>2. ASSUME NEW i \in 1 .. Len(t), t[i] = Head(q) PROVE FALSE
    <3>1. i + 1 = 1  BY <1>1, <1>2, <1>4, <1>6, <2>2 DEF Once
    <3> QED  BY <3>1
  <2> QED  BY <2>1, <2>2 DEF Once, Has
<1>7. Has(q, Head(q))  BY <1>1, <1>4 DEF Has
<1> QED  BY <1>1, <1>5, <1>6, <1>7

\* One leaves from the middle.
RemoveAt(q, i) == SubSeq(q, 1, i - 1) \o SubSeq(q, i + 1, Len(q))

\* The i-th leaves the queue.
LEMMA LeaveAt ==
    ASSUME NEW S, NEW q \in Seq(S), Once(q), NEW i \in 1 .. Len(q)
    PROVE  /\ RemoveAt(q, i) \in Seq(S) /\ Once(RemoveAt(q, i))
           /\ \A z : Has(RemoveAt(q, i), z) <=> Has(q, z) /\ z # q[i]
<1> DEFINE r == RemoveAt(q, i)
<1>1. /\ r \in Seq(S) /\ Len(r) = Len(q) - 1 /\ Len(q) \in Nat
      /\ \A j \in 1 .. Len(r) : r[j] = IF j < i THEN q[j] ELSE q[j + 1]
  <2> DEFINE a == SubSeq(q, 1, i - 1)
             b == SubSeq(q, i + 1, Len(q))
  <2>1. /\ a \in Seq(S) /\ Len(a) = i - 1 /\ \A j \in 1 .. i - 1 : a[j] = q[j]
        /\ b \in Seq(S) /\ Len(b) = Len(q) - i /\ \A j \in 1 .. Len(q) - i : b[j] = q[i + j]
    OBVIOUS
  <2>2. r = a \o b  BY DEF RemoveAt
  <2> HIDE DEF a, b, r
  <2>3. /\ a \o b \in Seq(S) /\ Len(a \o b) = Len(a) + Len(b)
        /\ \A j \in 1 .. Len(a) + Len(b) :
             (a \o b)[j] = IF j <= Len(a) THEN a[j] ELSE b[j - Len(a)]
    <3>1. a \in Seq(S) /\ b \in Seq(S)  BY <2>1
    <3> QED  BY <3>1
  <2>4. r \in Seq(S) /\ Len(q) \in Nat /\ Len(r) = Len(q) - 1  BY <2>1, <2>2, <2>3
  <2>5. ASSUME NEW j \in 1 .. Len(r) PROVE r[j] = IF j < i THEN q[j] ELSE q[j + 1]
    <3>1. /\ j \in 1 .. Len(a) + Len(b) /\ (j <= Len(a) <=> j < i)
          /\ j < i => j \in 1 .. i - 1
      BY <2>1, <2>4
    <3>2. r[j] = IF j < i THEN a[j] ELSE b[j - Len(a)]  BY <2>2, <2>3, <3>1
    <3>3. CASE j < i  BY <2>1, <3>1, <3>2, <3>3
    <3>4. CASE ~(j < i)
      <4>1. j - Len(a) \in 1 .. Len(q) - i /\ i + (j - Len(a)) = j + 1  BY <2>1, <2>4, <3>4
      <4> QED  BY <2>1, <3>2, <3>4, <4>1, Zenon
    <3> QED  BY <3>3, <3>4
  <2> QED  BY <2>4, <2>5
<1> HIDE DEF r
<1>2. \A j \in 1 .. Len(r) :
         LET k == IF j < i THEN j ELSE j + 1 IN k \in 1 .. Len(q) /\ k # i /\ r[j] = q[k]
  BY <1>1
<1>3. ASSUME NEW k \in 1 .. Len(q), k # i PROVE \E j \in 1 .. Len(r) : r[j] = q[k]
  <2>1. CASE k < i
    <3>1. k \in 1 .. Len(r)  BY <1>1, <2>1
    <3> QED  BY <1>1, <2>1, <3>1
  <2>2. CASE ~(k < i)
    <3>1. k - 1 \in 1 .. Len(r) /\ ~(k - 1 < i) /\ (k - 1) + 1 = k  BY <1>1, <1>3, <2>2
    <3>2. r[k - 1] = q[k]  BY <1>1, <3>1
    <3> QED  BY <3>1, <3>2
  <2> QED  BY <2>1, <2>2
<1>4. \A z : Has(r, z) <=> Has(q, z) /\ z # q[i]
  <2>1. ASSUME NEW z, Has(r, z) PROVE Has(q, z) /\ z # q[i]  BY <1>2, <2>1 DEF Has, Once
  <2>2. ASSUME NEW z, Has(q, z), z # q[i] PROVE Has(r, z)  BY <1>3, <2>2 DEF Has
  <2> QED  BY <2>1, <2>2
<1>5. ASSUME NEW j \in 1 .. Len(r), NEW k \in 1 .. Len(r), r[j] = r[k] PROVE j = k
  <2> DEFINE at(n) == IF n < i THEN n ELSE n + 1
  <2>1. /\ at(j) \in 1 .. Len(q) /\ r[j] = q[at(j)]
        /\ at(k) \in 1 .. Len(q) /\ r[k] = q[at(k)]
    BY <1>2
  <2>2. at(j) = at(k)
    <3> HIDE DEF at
    <3> QED  BY <1>5, <2>1, Zenon DEF Once
  <2> QED  BY <2>2
<1> QED  BY <1>1, <1>4, <1>5 DEF Once, r

\* Queues of pairs: those with one first component come in the order of the second.
Rising(s) == \A i, j \in 1 .. Len(s) : i < j /\ s[i][1] = s[j][1] => s[i][2] < s[j][2]

\* The first leaves such a queue: it comes before those it shares a component with.
LEMMA RisingTail ==
    ASSUME NEW S, NEW q \in Seq(S), q # <<>>, Rising(q)
    PROVE  /\ Rising(Tail(q))
           /\ \A z : Has(Tail(q), z) /\ Head(q)[1] = z[1] => Head(q)[2] < z[2]
<1>1. /\ Len(q) \in Nat /\ Len(q) > 0 /\ Head(q) = q[1] /\ Len(Tail(q)) = Len(q) - 1
      /\ \A i \in 1 .. Len(Tail(q)) : i + 1 \in 1 .. Len(q) /\ Tail(q)[i] = q[i + 1]
  OBVIOUS
<1>2. ASSUME NEW i \in 1 .. Len(Tail(q)), NEW j \in 1 .. Len(Tail(q)), i < j
      PROVE  i + 1 < j + 1
  BY <1>2
<1>3. 1 \in 1 .. Len(q) /\ \A i \in 1 .. Len(Tail(q)) : 1 < i + 1  BY <1>1
<1> QED  BY <1>1, <1>2, <1>3 DEF Rising, Has

\* One joins such a queue at the tail, after those it shares a component with.
LEMMA RisingAppend ==
    ASSUME NEW S, NEW q \in Seq(S), NEW t \in S, Rising(q),
           \A z : Has(q, z) /\ z[1] = t[1] => z[2] < t[2]
    PROVE  Rising(Append(q, t))
<1> DEFINE a == Append(q, t)
<1>1. /\ Len(q) \in Nat /\ Len(a) = Len(q) + 1 /\ a[Len(q) + 1] = t
      /\ \A i \in 1 .. Len(q) : a[i] = q[i]
  OBVIOUS
<1>2. ASSUME NEW i \in 1 .. Len(a), NEW j \in 1 .. Len(a), i < j
      PROVE  i \in 1 .. Len(q) /\ (j = Len(q) + 1 \/ j \in 1 .. Len(q))
  BY <1>1, <1>2
<1> HIDE DEF a
<1>3. Rising(a)  BY <1>1, <1>2 DEF Rising, Has
<1> QED  BY <1>3 DEF a

-----------------------------------------------------------------------------
\* The chain of p: its Mntrpcs with the numbers N(p), ..., 1.
N(p) == Len(chain[p])
ChainOK(p) ==
    /\ N(p) <= MaxChain
    /\ \A i \in 1 .. N(p) : chain[p][i] = <<p, N(p) + 1 - i>>
    /\ (N(p) = 0 <=> pc[p] = "idle")
    /\ pc[p] \in {"intr", "flush"} => N(p) < MaxChain

\* An Mntrpc is free when it is in no chain, and then its done is set; m->queue holds
\* what is not done, but for what is about to be linked in.
FreeOK(p) == \A n \in 1 .. MaxChain :
    /\ (<<p, n>> \in free <=> n > N(p))
    /\ <<p, n>> \in free => <<p, n>> \in done
    /\ (Has(queue, <<p, n>>) <=> <<p, n>> \notin done /\ ~(pc[p] = "link" /\ n = N(p)))

\* The reader has m->rip; who sleeps has no reply.
WaitOK(p) ==
    /\ pc[p] = "read" => rip = p
    /\ pc[p] \in {"link", "asleep"} => <<p, N(p)>> \notin done

\* The n-th message of p, or the reply to it, is under way.
Sent(r) == [i \in 1 .. Len(r) |-> r[i].tag]
Asked(p, n) == Has(Sent(req), <<p, n>>)
Held(p, n) == \E m \in srv : m.tag = <<p, n>>
Replied(p, n) == Has(rep, <<p, n>>)
Moving(p, n) == Asked(p, n) \/ Held(p, n) \/ Replied(p, n)

\* The transaction of p began before the connection was lost, if it was.
Honest(p) == hungup => pc[p] \notin {"idle", "link", "send", "fail"}

\* What is under way belongs to the chain and comes after all of it that is done; of a
\* process that is done, or could not send its request, nothing is.
LiveOK(p) == Honest(p) =>
    /\ \A n \in 1 .. MaxChain : Moving(p, n) =>
         /\ n <= N(p)
         /\ pc[p] \in {"link", "send"} => n < N(p)
         /\ \A k \in 1 .. N(p) : <<p, k>> \in done => k < n
         /\ pc[p] \notin {"finish", "fail"}
    /\ pc[p] \in {"link", "send"} => <<p, N(p)>> \notin done

\* The reply to a request that was answered has been delivered, or is under way.
AnsweredOK(p) == <<p, 1>> \in answered =>
    N(p) > 0 /\ (Honest(p) => <<p, 1>> \in done \/ Replied(p, 1))

Mine(p) == ChainOK(p) /\ FreeOK(p) /\ WaitOK(p) /\ LiveOK(p) /\ AnsweredOK(p)

\* Without a reader, a process that sleeps has an heir of the gate: one that will come
\* to it rather than find its reply, or that its request does not fit.
Heir(q) ==
    \/ pc[q] \in {"gate", "intr", "flush"}
    \/ pc[q] \in {"link", "send"} /\ N(q) # 1
    \/ pc[q] \in {"sleep", "woken"} /\ <<q, N(q)>> \notin done
HeirOK ==
    ~hungup /\ rip = Nil /\ (\E p \in Procs : pc[p] = "asleep") => \E q \in Procs : Heir(q)

\* A message flushes the request at the end of its chain, unless it is that request;
\* nothing is on its way to the server on a lost connection.
Fit(m) == m.old = IF m.tag[2] = 1 THEN Nil ELSE <<m.tag[1], 1>>
MessageOK ==
    /\ \A m \in Message : Has(req, m) \/ m \in srv => Fit(m)
    /\ hungup => req = <<>> /\ srv = {}

\* Whatever of one process is under way is in the order of its chain.
OrderOK ==
    /\ Rising(rep) /\ Rising(Sent(req))
    /\ \A p \in Procs, k, n \in 1 .. MaxChain :
         /\ Replied(p, k) /\ (Held(p, n) \/ Asked(p, n)) => k < n
         /\ Held(p, k) /\ Asked(p, n) => k < n

IInv ==
    /\ TypeOK /\ Once(queue) /\ HeirOK /\ MessageOK /\ OrderOK
    /\ \A p \in Procs : Mine(p)

-----------------------------------------------------------------------------
\* The tags of the messages on the connection.
LEMMA SentType ==
    ASSUME NEW r \in Seq(Message)
    PROVE  Sent(r) \in Seq(Tags) /\ Len(Sent(r)) = Len(r) /\ (r = <<>> <=> Sent(r) = <<>>)
<1>0. Len(r) \in Nat /\ \A i \in 1 .. Len(r) : r[i] \in Message  OBVIOUS
<1>1. Len(r) \in Nat /\ \A i \in 1 .. Len(r) : r[i].tag \in Tags
  <2>1. \A m \in Message : m.tag \in Tags  BY DEF Message
  <2> QED  BY <1>0, <2>1
<1>2. Sent(r) \in [1 .. Len(r) -> Tags]  BY <1>1 DEF Sent
<1>3. Sent(r) \in Seq(Tags) /\ Len(Sent(r)) = Len(r)  BY <1>1, <1>2
<1> QED  BY <1>1, <1>3

\* The server takes the first message.
LEMMA SentTail ==
    ASSUME NEW r \in Seq(Message), r # <<>>
    PROVE  Sent(Tail(r)) = Tail(Sent(r)) /\ Head(Sent(r)) = Head(r).tag
  BY DEF Sent

\* A message is sent.
LEMMA SentAppend ==
    ASSUME NEW r \in Seq(Message), NEW m \in Message
    PROVE  Sent(Append(r, m)) = Append(Sent(r), m.tag)
<1>1. /\ Len(r) \in Nat /\ Append(r, m) \in Seq(Message) /\ Len(Append(r, m)) = Len(r) + 1
      /\ Append(r, m)[Len(r) + 1] = m /\ \A i \in 1 .. Len(r) : Append(r, m)[i] = r[i]
  OBVIOUS
<1>2. Sent(r) \in Seq(Tags) /\ Len(Sent(r)) = Len(r)  BY SentType
<1>3. ASSUME NEW i \in 1 .. Len(r) + 1 PROVE Append(Sent(r), m.tag)[i] = Append(r, m)[i].tag
  <2>1. CASE i = Len(r) + 1  BY <1>1, <1>2, <2>1
  <2>2. CASE i \in 1 .. Len(r)  BY <1>1, <1>2, <2>2 DEF Sent
  <2>3. i = Len(r) + 1 \/ i \in 1 .. Len(r)  BY <1>1
  <2> QED  BY <2>1, <2>2, <2>3, Zenon
<1>4. Append(Sent(r), m.tag) \in Seq(Tags) /\ Len(Append(Sent(r), m.tag)) = Len(r) + 1
  BY <1>2 DEF Message
<1> QED  BY <1>1, <1>3, <1>4 DEF Sent

-----------------------------------------------------------------------------
\* What the proofs need of the constants.
LEMMA Constants ==
    /\ MaxChain \in Nat /\ 1 \in 1 .. MaxChain /\ CrowdChain <= MaxChain /\ CrowdChain \in Nat
    /\ Nil \notin Procs /\ \A p \in Procs : <<p, 1>> # Nil
  BY MountMuxAssumption

\* The pairs that are tags.
LEMMA TagPairs ==
    /\ \A p \in Procs, n \in 1 .. MaxChain :
         <<p, n>> \in Tags /\ <<p, n>>[1] = p /\ <<p, n>>[2] = n
    /\ \A t \in Tags : \E p \in Procs, n \in 1 .. MaxChain : t = <<p, n>>
  BY DEF Tags

\* mountio's r is the last of its chain, the request its first.
LEMMA ChainFacts ==
    ASSUME IInv, NEW p \in Procs
    PROVE  /\ N(p) \in Nat /\ N(p) <= MaxChain
           /\ pc[p] # "idle" => /\ N(p) \in 1 .. MaxChain /\ Cur(p) = <<p, N(p)>>
                                /\ Request(p) = <<p, 1>>
<1>1. chain[p] \in Seq(Tags) /\ N(p) \in Nat /\ N(p) = Len(chain[p]) /\ ChainOK(p)
  BY DEF IInv, TypeOK, N, Mine
<1>2. ASSUME pc[p] # "idle"
      PROVE  N(p) \in 1 .. MaxChain /\ Cur(p) = <<p, N(p)>> /\ Request(p) = <<p, 1>>
  <2>1. N(p) # 0 /\ N(p) <= MaxChain  BY <1>1, <1>2 DEF ChainOK
  <2>2. N(p) \in 1 .. MaxChain /\ 1 \in 1 .. N(p) /\ N(p) \in 1 .. N(p)
    BY <1>1, <2>1, Constants
  <2>3. chain[p][1] = <<p, N(p) + 1 - 1>> /\ chain[p][N(p)] = <<p, N(p) + 1 - N(p)>>
    BY <1>1, <2>2, Zenon DEF ChainOK
  <2>4. N(p) + 1 - 1 = N(p) /\ N(p) + 1 - N(p) = 1  BY <1>1
  <2>5. Cur(p) = chain[p][1] /\ Request(p) = chain[p][N(p)]
    BY <1>1, <2>1 DEF Cur, Request, N
  <2> QED  BY <2>2, <2>3, <2>4, <2>5
<1> QED  BY <1>1, <1>2 DEF ChainOK

\* Unlink takes one Mntrpc off m->queue, and only that one.
LEMMA UnlinkFacts ==
    ASSUME IInv, NEW t, Unlink(t)
    PROVE  /\ Has(queue, t) /\ queue' \in Seq(Tags) /\ Once(queue')
           /\ \A z : Has(queue', z) <=> Has(queue, z) /\ z # t
<1>1. PICK i \in DOMAIN queue : FirstOf(i, {t}) /\ queue' = RemoveAt(queue, i)
  BY Zenon DEF Unlink, RemoveAt
<1>2. queue \in Seq(Tags) /\ Once(queue)  BY DEF IInv, TypeOK
<1>3. i \in 1 .. Len(queue) /\ queue[i] = t  BY <1>1, <1>2 DEF FirstOf
<1>4. /\ RemoveAt(queue, i) \in Seq(Tags) /\ Once(RemoveAt(queue, i))
      /\ \A z : Has(RemoveAt(queue, i), z) <=> Has(queue, z) /\ z # queue[i]
  BY <1>2, <1>3, LeaveAt
<1>5. Has(queue, t)  BY <1>3 DEF Has
<1> QED  BY <1>1, <1>3, <1>4, <1>5

\* Has is what m->queue holds.
LEMMA RangeHas == ASSUME IInv, NEW t PROVE t \in Range(queue) <=> Has(queue, t)
  BY DEF IInv, TypeOK, Range, Has

-----------------------------------------------------------------------------
\* Processes that wait for a reply, or go on to flush; and how p leaves such a place.
Waits == {"gate", "sleep", "asleep", "woken", "read", "intr", "flush"}
Moves(p) ==
    /\ pc[p] \in Waits /\ pc'[p] \in Waits \cup {"finish", "fail"}
    /\ pc'[p] = "finish" => <<p, N(p)>> \in done
    /\ pc'[p] = "fail" => hungup
    /\ pc'[p] \in {"intr", "flush"} => N(p) < MaxChain
    /\ pc'[p] = "asleep" => <<p, N(p)>> \notin done

\* A step in which p at most moves on, and nothing else of p's changes, but that
\* something may no longer be under way.
Kept(p) ==
    /\ chain'[p] = chain[p]
    /\ \A n \in 1 .. MaxChain :
         /\ (<<p, n>> \in free' <=> <<p, n>> \in free)
         /\ (<<p, n>> \in done' <=> <<p, n>> \in done)
         /\ (Has(queue', <<p, n>>) <=> Has(queue, <<p, n>>))
         /\ Moving(p, n)' => Moving(p, n)
    /\ <<p, 1>> \in answered' => <<p, 1>> \in answered
    /\ Replied(p, 1) => Replied(p, 1)'
    /\ hungup => hungup'
    /\ pc'[p] = "read" => rip' = p
    /\ pc'[p] = pc[p] \/ Moves(p)

\* What the invariant says of p then stays true.
LEMMA Keeps ==
    ASSUME IInv, NEW p \in Procs, Kept(p)
    PROVE  Mine(p)'
<1>1. N(p)' = N(p)  BY DEF Kept, N
<1>2. Mine(p)  BY DEF IInv
<1>3. N(p) \in Nat /\ N(p) <= MaxChain /\ (pc[p] # "idle" => N(p) \in 1 .. MaxChain)
  BY ChainFacts
<1>4. ASSUME NEW l \in {"idle", "link", "send"} PROVE pc'[p] = l <=> pc[p] = l
  BY DEF Kept, Moves, Waits
<1>5. pc[p] # "idle" => (<<p, N(p)>> \in done' <=> <<p, N(p)>> \in done)  BY <1>3 DEF Kept
<1>6. ChainOK(p)'
  <2>1. pc'[p] \in {"intr", "flush"} => N(p) < MaxChain
    BY <1>2 DEF Kept, Moves, Mine, ChainOK
  <2> QED  BY <1>1, <1>2, <1>4, <2>1 DEF Mine, ChainOK, Kept
<1>7. FreeOK(p)'  BY <1>1, <1>2, <1>4 DEF Mine, FreeOK, Kept
<1>8. WaitOK(p)'  BY <1>1, <1>2, <1>4, <1>5 DEF Mine, WaitOK, Kept, Moves, Waits
<1>9. Honest(p)' => Honest(p)  BY DEF Honest, Kept, Moves, Waits
<1>10. LiveOK(p)'
  <2> SUFFICES ASSUME Honest(p)'
               PROVE  /\ \A n \in 1 .. MaxChain : Moving(p, n) =>
                           /\ n <= N(p)
                           /\ pc'[p] \in {"link", "send"} => n < N(p)
                           /\ \A k \in 1 .. N(p) : <<p, k>> \in done' => k < n
                           /\ pc'[p] \notin {"finish", "fail"}
                      /\ pc'[p] \in {"link", "send"} => <<p, N(p)>> \notin done'
    BY <1>1, Zenon DEF LiveOK, Kept
  <2>1. \A k \in 1 .. N(p) : <<p, k>> \in done' <=> <<p, k>> \in done
    <3>1. \A k \in 1 .. N(p) : k \in 1 .. MaxChain  BY <1>3, Constants
    <3> QED  BY <3>1 DEF Kept
  <2>2. ASSUME NEW n \in 1 .. MaxChain, Moving(p, n), pc'[p] = "finish", pc[p] # "finish"
        PROVE  FALSE
    <3>1. <<p, N(p)>> \in done /\ pc[p] # "idle"  BY <2>2 DEF Kept, Moves, Waits
    <3>2. N(p) \in 1 .. N(p)  BY <1>3, <3>1
    <3>3. n <= N(p) /\ N(p) < n  BY <1>2, <1>9, <2>2, <3>1, <3>2 DEF Mine, LiveOK
    <3> QED  BY <1>3, <3>3
  <2>3. pc'[p] = "fail" => pc[p] = "fail"  BY DEF Honest, Kept, Moves
  <2> QED  BY <1>2, <1>4, <1>5, <1>9, <2>1, <2>2, <2>3 DEF Mine, LiveOK
<1>11. AnsweredOK(p)'  BY <1>1, <1>2, <1>9, Constants DEF Mine, AnsweredOK, Kept
<1> QED  BY <1>6, <1>7, <1>8, <1>10, <1>11 DEF Mine

\* What the connection carries stays.
LEMMA SameNet ==
    ASSUME MessageOK, OrderOK, UNCHANGED <<req, rep, srv, hungup>>
    PROVE  /\ MessageOK' /\ OrderOK'
           /\ \A p, n : Moving(p, n)' = Moving(p, n) /\ Replied(p, n)' = Replied(p, n)
<1>1. MessageOK'  BY DEF MessageOK
<1>2. \A p, n : /\ Asked(p, n)' = Asked(p, n) /\ Held(p, n)' = Held(p, n)
                /\ Replied(p, n)' = Replied(p, n) /\ Moving(p, n)' = Moving(p, n)
  BY DEF Asked, Held, Replied, Moving
<1>3. OrderOK'  BY <1>2 DEF OrderOK
<1> QED  BY <1>1, <1>2, <1>3

\* A step that only moves processes.
LEMMA MovesKeep ==
    ASSUME IInv, UNCHANGED <<free, chain, done, queue, net>>, TypeOK', HeirOK',
           \A q \in Procs : pc'[q] = pc[q] \/ Moves(q),
           \A q \in Procs : pc'[q] = "read" => rip' = q
    PROVE  IInv'
<1>1. /\ free' = free /\ chain' = chain /\ done' = done /\ queue' = queue /\ req' = req
      /\ rep' = rep /\ srv' = srv /\ answered' = answered /\ hungup' = hungup
  BY DEF net
<1>2. /\ MessageOK' /\ OrderOK'
      /\ \A p, n : Moving(p, n)' = Moving(p, n) /\ Replied(p, n)' = Replied(p, n)
  BY <1>1, SameNet DEF IInv
<1>3. ASSUME NEW q \in Procs PROVE Mine(q)'
  <2>1. Kept(q)  BY <1>1, <1>2 DEF Kept
  <2> QED  BY <2>1, Keeps
<1> QED  BY <1>1, <1>2, <1>3 DEF IInv

\* A step that changes m's state only for the Mntrpcs of p, and leaves the connection.
LEMMA OthersKeep ==
    ASSUME IInv, NEW p \in Procs, UNCHANGED <<req, rep, srv, hungup, rip>>,
           \A q \in Procs \ {p} : pc'[q] = pc[q] /\ chain'[q] = chain[q],
           \A q \in Procs \ {p}, n \in 1 .. MaxChain :
             /\ (<<q, n>> \in free' <=> <<q, n>> \in free)
             /\ (<<q, n>> \in done' <=> <<q, n>> \in done)
             /\ (Has(queue', <<q, n>>) <=> Has(queue, <<q, n>>)),
           answered' \subseteq answered
    PROVE  /\ MessageOK' /\ OrderOK' /\ \A q \in Procs \ {p} : Mine(q)'
           /\ \A q, n : Moving(q, n)' = Moving(q, n) /\ Replied(q, n)' = Replied(q, n)
<1>1. /\ MessageOK' /\ OrderOK'
      /\ \A q, n : Moving(q, n)' = Moving(q, n) /\ Replied(q, n)' = Replied(q, n)
  BY SameNet DEF IInv
<1>2. ASSUME NEW q \in Procs \ {p} PROVE Mine(q)'
  <2>1. pc'[q] = "read" => rip' = q  BY Zenon DEF IInv, Mine, WaitOK
  <2>2. Kept(q)  BY <1>1, <2>1 DEF Kept
  <2> QED  BY <2>2, Keeps
<1> QED  BY <1>1, <1>2

-----------------------------------------------------------------------------
\* The steps of mountio that only move processes.
LEMMA HeirStays ==
    ASSUME IInv, NEW q \in Procs, NEW l, pc' = [pc EXCEPT ![q] = l], l # "asleep",
           UNCHANGED <<rip, hungup, done, chain>>, Heir(q) => Heir(q)'
    PROVE  HeirOK'
<1>1. pc'[q] = l /\ \A p \in Procs \ {q} : pc'[p] = pc[p]  BY DEF IInv, TypeOK
<1>2. ASSUME NEW p \in Procs, p # q, Heir(p) PROVE Heir(p)'  BY <1>1, <1>2 DEF Heir, N
<1> QED  BY <1>1, <1>2, Zenon DEF HeirOK, IInv

\* A process becomes the reader, or goes to sleep because there is one.
LEMMA GateStep == ASSUME IInv, NEW p \in Procs, Gate(p) PROVE IInv'
<1>1. /\ pc[p] = "gate" /\ UNCHANGED <<free, chain, done, queue, net>>
      /\ \A q \in Procs : pc[q] = "read" => rip = q
  BY Zenon DEF Gate, IInv, Mine, WaitOK
<1>2. PICK l \in {"read", "sleep"} :
        /\ pc' = [pc EXCEPT ![p] = l]
        /\ l = "read" => rip = Nil /\ rip' = p
        /\ l = "sleep" => rip # Nil /\ rip' = rip
  BY DEF Gate, Goto
<1>3. pc'[p] = l /\ \A q \in Procs \ {p} : pc'[q] = pc[q]  BY <1>2 DEF IInv, TypeOK
<1>4. TypeOK'  BY <1>1, <1>2, <1>3, Constants DEF IInv, TypeOK, net
<1>5. HeirOK'  BY <1>2, Constants DEF HeirOK
<1>6. \A q \in Procs : pc'[q] = pc[q] \/ Moves(q)  BY <1>1, <1>3 DEF Moves, Waits
<1>7. \A q \in Procs : pc'[q] = "read" => rip' = q  BY <1>1, <1>2, <1>3, Constants
<1> QED  BY <1>1, <1>4, <1>5, <1>6, <1>7, MovesKeep

\* p moves on from where it waits, and the gate stays as it is.
LEMMA OneMoves ==
    ASSUME IInv, NEW p \in Procs, NEW l, pc' = [pc EXCEPT ![p] = l], l # "read", Moves(p),
           UNCHANGED <<free, chain, done, queue, rip, net>>, HeirOK',
           rip = p => l \in {"intr", "finish", "fail"}
    PROVE  IInv'
<1>1. pc'[p] = l /\ \A q \in Procs \ {p} : pc'[q] = pc[q]  BY DEF IInv, TypeOK
<1>2. TypeOK'  BY <1>1 DEF IInv, TypeOK, net, Moves, Waits
<1>3. \A q \in Procs : pc'[q] = "read" => rip' = q  BY <1>1, Zenon DEF IInv, Mine, WaitOK
<1> QED  BY <1>1, <1>2, <1>3, MovesKeep

\* It sleeps unless its reply has come or there is no reader.
LEMMA SleepStep == ASSUME IInv, NEW p \in Procs, Sleep(p) PROVE IInv'
<1>1. pc[p] = "sleep" /\ UNCHANGED <<free, chain, done, queue, rip, net>>  BY DEF Sleep
<1>2. Cur(p) = <<p, N(p)>> /\ rip # p  BY <1>1, ChainFacts DEF IInv, TypeOK
<1>3. PICK l \in {"woken", "asleep"} :
        /\ pc' = [pc EXCEPT ![p] = l]
        /\ l = "asleep" <=> <<p, N(p)>> \notin done /\ rip # Nil
  BY <1>2, Zenon DEF Sleep, Goto
<1>4. pc'[p] = l  BY <1>3 DEF IInv, TypeOK
<1>5. Moves(p)  BY <1>1, <1>3, <1>4 DEF Moves, Waits
<1>6. HeirOK'
  <2>1. CASE rip # Nil  BY <1>1, <2>1 DEF HeirOK
  <2>2. CASE rip = Nil
    <3>1. Heir(p) => Heir(p)'  BY <1>1, <1>3, <1>4, <2>2 DEF Heir, N
    <3> QED  BY <1>1, <1>3, <2>2, <3>1, HeirStays, Zenon DEF net
  <2> QED  BY <2>1, <2>2
<1> QED  BY <1>1, <1>2, <1>3, <1>5, <1>6, OneMoves, Zenon

\* It is awake: the reply is there, or it tries the gate.
LEMMA WokenStep == ASSUME IInv, NEW p \in Procs, Woken(p) PROVE IInv'
<1>1. pc[p] = "woken" /\ UNCHANGED <<free, chain, done, queue, rip, net>>  BY DEF Woken
<1>2. Cur(p) = <<p, N(p)>> /\ rip # p  BY <1>1, ChainFacts DEF IInv, TypeOK
<1>3. PICK l \in {"finish", "gate"} :
        pc' = [pc EXCEPT ![p] = l] /\ (l = "finish" <=> <<p, N(p)>> \in done)
  BY <1>2, Zenon DEF Woken, Goto
<1>4. pc'[p] = l  BY <1>3 DEF IInv, TypeOK
<1>5. Moves(p)  BY <1>1, <1>3, <1>4 DEF Moves, Waits
<1>6. Heir(p) => Heir(p)'  BY <1>1, <1>3, <1>4 DEF Heir
<1>7. HeirOK'  BY <1>1, <1>3, <1>6, HeirStays, Zenon DEF net
<1> QED  BY <1>1, <1>2, <1>3, <1>5, <1>7, OneMoves, Zenon

\* A note comes while the chain has room for a flush.
LEMMA NoteRoom == ASSUME IInv, NEW p \in Procs, MayNote(p) PROVE N(p) < MaxChain
  BY Constants, ChainFacts DEF MayNote, N

\* A note interrupts a process that sleeps or reads.
LEMMA NoteStep == ASSUME IInv, NEW p \in Procs, Note(p) PROVE IInv'
<1>1. /\ pc[p] \in {"asleep", "woken", "read"} /\ pc' = [pc EXCEPT ![p] = "intr"]
      /\ UNCHANGED <<free, chain, done, queue, rip, net>>
  BY DEF Note, Goto
<1>2. pc'[p] = "intr" /\ N(p) < MaxChain  BY <1>1, NoteRoom DEF Note, IInv, TypeOK
<1>3. Moves(p)  BY <1>1, <1>2 DEF Moves, Waits
<1>4. HeirOK'  BY <1>2 DEF HeirOK, Heir
<1> QED  BY <1>1, <1>3, <1>4, OneMoves, Zenon

\* mntgate: if anybody is asleep, somebody is woken to take over.
LEMMA MntgateStep ==
    ASSUME IInv, NEW p \in Procs, NEW l, Mntgate(p, l), UNCHANGED <<free, chain, done, queue, net>>,
           rip = p, \/ pc[p] = "intr" /\ l = "flush"
                    \/ pc[p] \in {"finish", "fail"} /\ l = pc[p]
    PROVE  IInv'
<1> DEFINE waiting == {t \in Tags \ done : Sleeping(t)}
           places == {"idle", "link", "send", "gate", "sleep", "asleep", "woken", "read", "intr",
                      "flush", "finish", "fail"}
<1>1. pc \in [Procs -> places] /\ rip' = Nil  BY DEF IInv, TypeOK, Mntgate
<1>2. PICK o \in Procs :
        \/ o = p /\ pc' = [pc EXCEPT ![p] = l] /\ Range(queue) \cap waiting = {}
        \/ pc[o] = "asleep" /\ pc' = [pc EXCEPT ![p] = l, ![o] = "woken"]
  <2>1. CASE Range(queue) \cap waiting = {}  BY <2>1 DEF Mntgate, Goto
  <2>2. CASE Range(queue) \cap waiting # {}
    <3>1. PICK i \in DOMAIN queue :
            /\ FirstOf(i, waiting)
            /\ pc' = [pc EXCEPT ![p] = l, ![Owner(queue[i])] = "woken"]
      BY <2>2 DEF Mntgate
    <3>2. queue[i] \in Tags /\ Sleeping(queue[i])  BY <3>1 DEF FirstOf
    <3>3. Owner(queue[i]) \in Procs /\ pc[Owner(queue[i])] = "asleep"
      BY <3>2, TagPairs DEF Sleeping, Owner
    <3> QED  BY <3>1, <3>3, Zenon
  <2> QED  BY <2>1, <2>2
<1>3. ASSUME NEW q \in Procs
      PROVE  /\ q = p => pc'[q] = l
             /\ q = o /\ o # p => pc[q] = "asleep" /\ pc'[q] = "woken"
             /\ q \notin {p, o} => pc'[q] = pc[q]
  BY <1>1, <1>2
<1>4. \A q \in Procs : pc'[q] = pc[q] \/ Moves(q)
  <2>1. pc[p] = "intr" => N(p) < MaxChain  BY DEF IInv, Mine, ChainOK
  <2> QED  BY <1>3, <2>1 DEF Moves, Waits
<1>5. TypeOK'
  <2>1. pc' \in [Procs -> places]  BY <1>1, <1>2
  <2> QED  BY <1>1, <2>1, Constants DEF IInv, TypeOK, net
<1>6. \A q \in Procs : pc'[q] = "read" => rip' = q
  <2>1. \A q \in Procs : pc[q] = "read" => q = p  BY Zenon DEF IInv, Mine, WaitOK
  <2> QED  BY <1>3, <2>1
<1>7. HeirOK'
  <2>1. CASE o # p
    <3>1. pc'[o] = "woken" /\ <<o, N(o)>> \notin done  BY <1>3, <2>1 DEF IInv, Mine, WaitOK
    <3>2. Heir(o)'  BY <3>1 DEF Heir, N
    <3> QED  BY <3>2 DEF HeirOK
  <2>2. CASE o = p
    <3>1. ASSUME NEW q \in Procs, pc'[q] = "asleep" PROVE FALSE
      <4>1. pc[q] = "asleep" /\ <<q, N(q)>> \notin done
        BY <1>3, <2>2, <3>1 DEF IInv, Mine, WaitOK
      <4>2. N(q) \in 1 .. MaxChain  BY <4>1, ChainFacts
      <4>3. Has(queue, <<q, N(q)>>)  BY <4>1, <4>2 DEF IInv, Mine, FreeOK
      <4>4. <<q, N(q)>> \in Range(queue)  BY <4>3, RangeHas
      <4>5. <<q, N(q)>> \in waiting  BY <4>1, <4>2, TagPairs DEF Sleeping, Owner
      <4> QED  BY <1>2, <2>2, <4>4, <4>5
    <3> QED  BY <3>1 DEF HeirOK
  <2> QED  BY <2>1, <2>2
<1> QED  BY <1>4, <1>5, <1>6, <1>7, MovesKeep

\* The interrupted process lets the gate go, if it has it.
LEMMA IntrStep == ASSUME IInv, NEW p \in Procs, Intr(p) PROVE IInv'
<1>1. pc[p] = "intr" /\ UNCHANGED <<free, chain, done, queue, net>>  BY DEF Intr
<1>2. CASE rip = p  BY <1>1, <1>2, MntgateStep DEF Intr
<1>3. CASE rip # p
  <2>1. rip' = rip /\ pc' = [pc EXCEPT ![p] = "flush"]  BY <1>3 DEF Intr, Goto
  <2>2. pc'[p] = "flush" /\ N(p) < MaxChain
    BY <1>1, <2>1 DEF IInv, TypeOK, Mine, ChainOK
  <2>3. Moves(p)  BY <1>1, <2>2 DEF Moves, Waits
  <2>4. HeirOK'  BY <2>2 DEF HeirOK, Heir
  <2> QED  BY <1>1, <1>3, <2>1, <2>3, <2>4, OneMoves, Zenon
<1> QED  BY <1>2, <1>3

\* The reader leaves: another process gets a try.
LEMMA LeaveStep == ASSUME IInv, NEW p \in Procs, Leave(p) PROVE IInv'
  BY MntgateStep DEF Leave, LeaveAs

-----------------------------------------------------------------------------
\* An Mntrpc is allocated and put at the head of the chain.
LEMMA MntrallocStep ==
    ASSUME IInv, NEW p \in Procs, Mntralloc(p), pc[p] \in {"idle", "flush"}
    PROVE  IInv'
<1> DEFINE n == N(p) + 1
           t == <<p, n>>
<1>1. /\ free' = free \ {t} /\ done' = done \ {t} /\ pc' = [pc EXCEPT ![p] = "link"]
      /\ chain' = [chain EXCEPT ![p] = <<t>> \o @]
      /\ UNCHANGED <<queue, rip, req, rep, srv, answered, hungup, crowd>>
  BY DEF Mntralloc, N, Goto, net
<1>2. n \in 1 .. MaxChain /\ t \in Tags /\ n - 1 = N(p) /\ N(p) \in Nat /\ N(p) < n
  <2>1. N(p) \in Nat /\ N(p) < MaxChain  BY Constants, ChainFacts DEF IInv, Mine, ChainOK
  <2>2. n \in 1 .. MaxChain  BY <2>1, Constants
  <2> QED  BY <2>1, <2>2, TagPairs
<1> HIDE DEF n
<1>3. /\ pc'[p] = "link" /\ rip # p /\ Mine(p)
      /\ \A q \in Procs \ {p} : pc'[q] = pc[q] /\ chain'[q] = chain[q]
  BY <1>1 DEF IInv, TypeOK
<1>4. /\ chain' \in [Procs -> Seq(Tags)] /\ N(p)' = n
      /\ \A i \in 1 .. n : chain'[p][i] = <<p, n + 1 - i>>
  <2>1. chain \in [Procs -> Seq(Tags)] /\ chain[p] \in Seq(Tags) /\ N(p) = Len(chain[p])
    BY DEF IInv, TypeOK, N
  <2>2. chain'[p] = <<t>> \o chain[p] /\ chain'[p] \in Seq(Tags)  BY <1>1, <1>2, <2>1
  <2>3. Len(chain'[p]) = n  BY <1>2, <2>1, <2>2
  <2>4. ASSUME NEW i \in 1 .. n PROVE chain'[p][i] = <<p, n + 1 - i>>
    <3>1. CASE i = 1
      <4>1. n + 1 - i = n  BY <1>2, <3>1
      <4> QED  BY <2>1, <2>2, <3>1, <4>1
    <3>2. CASE i # 1
      <4>1. i - 1 \in 1 .. N(p) /\ N(p) + 1 - (i - 1) = n + 1 - i  BY <1>2, <3>2
      <4>2. chain[p][i - 1] = <<p, N(p) + 1 - (i - 1)>>  BY <1>3, <4>1 DEF Mine, ChainOK
      <4>3. chain'[p][i] = chain[p][i - 1]  BY <1>2, <2>1, <2>2, <3>2, <4>1, SMTT(30)
      <4> QED  BY <4>1, <4>2, <4>3
    <3> QED  BY <3>1, <3>2
  <2> QED  BY <1>1, <2>1, <2>2, <2>3, <2>4, Zenon DEF N
<1>5. TypeOK'  BY <1>1, <1>3, <1>4 DEF IInv, TypeOK
<1>6. HeirOK'
  <2>1. ASSUME NEW q \in Procs, q # p PROVE Heir(q) => Heir(q)'
    <3>1. N(q)' = N(q) /\ <<q, N(q)>> # t  BY <1>3, <2>1 DEF N
    <3> QED  BY <1>1, <1>3, <2>1, <3>1, Zenon DEF Heir
  <2>2. Heir(p) => Heir(p)'
    <3>1. Heir(p) => N(p) # 0  BY <1>3 DEF Heir, Mine, ChainOK
    <3> QED  BY <1>2, <1>3, <1>4, <3>1 DEF Heir
  <2>3. \A q \in Procs : pc'[q] = "asleep" => pc[q] = "asleep"  BY <1>3
  <2> QED  BY <1>1, <2>1, <2>2, <2>3, Zenon DEF IInv, HeirOK
<1>7. /\ MessageOK' /\ OrderOK' /\ \A q \in Procs \ {p} : Mine(q)'
      /\ \A q, k : Moving(q, k)' = Moving(q, k) /\ Replied(q, k)' = Replied(q, k)
  <2>1. \A q \in Procs \ {p}, k \in 1 .. MaxChain : <<q, k>> # t  OBVIOUS
  <2> QED  BY <1>1, <1>3, <2>1, OthersKeep
<1>8. ChainOK(p)'  BY <1>2, <1>3, <1>4, Constants DEF ChainOK
<1>9. FreeOK(p)'
  <2> SUFFICES ASSUME NEW k \in 1 .. MaxChain
               PROVE  /\ (<<p, k>> \in free' <=> k > n)
                      /\ <<p, k>> \in free' => <<p, k>> \in done'
                      /\ (Has(queue, <<p, k>>) <=> <<p, k>> \notin done' /\ k # n)
    BY <1>1, <1>3, <1>4 DEF FreeOK
  <2>1. /\ (<<p, k>> \in free <=> k > N(p))
        /\ <<p, k>> \in free => <<p, k>> \in done
        /\ (Has(queue, <<p, k>>) <=> <<p, k>> \notin done)
    BY <1>3 DEF Mine, FreeOK
  <2>2. k > N(p) <=> k > n \/ k = n  BY <1>2
  <2> QED  BY <1>1, <1>2, <2>1, <2>2
<1>10. WaitOK(p)'  BY <1>1, <1>3, <1>4 DEF WaitOK
<1>11. LiveOK(p)'
  <2> SUFFICES ASSUME ~hungup, NEW k \in 1 .. MaxChain, Moving(p, k)
               PROVE  k < n /\ \A j \in 1 .. n : <<p, j>> \in done' => j < k
    BY <1>1, <1>2, <1>3, <1>4, <1>7, SMTT(30) DEF LiveOK, Honest
  <2>1. k <= N(p) /\ \A j \in 1 .. N(p) : <<p, j>> \in done => j < k
    BY <1>3 DEF Mine, LiveOK, Honest
  <2>2. \A j \in 1 .. n : j = n \/ j \in 1 .. N(p)  BY <1>2
  <2> QED  BY <1>1, <1>2, <2>1, <2>2
<1>12. AnsweredOK(p)'
  <2> SUFFICES ASSUME <<p, 1>> \in answered, Honest(p)' PROVE <<p, 1>> \in done' \/ Replied(p, 1)
    BY <1>1, <1>2, <1>4, <1>7 DEF AnsweredOK
  <2>1. N(p) > 0 /\ (<<p, 1>> \in done \/ Replied(p, 1))
    BY <1>1, <1>3 DEF Mine, AnsweredOK, Honest
  <2>2. n # 1  BY <1>2, <2>1
  <2> QED  BY <1>1, <2>1, <2>2
<1>13. Mine(p)'  BY <1>8, <1>9, <1>10, <1>11, <1>12 DEF Mine
<1> QED  BY <1>1, <1>5, <1>6, <1>7, <1>13 DEF IInv

\* A transaction begins.
LEMMA StartStep == ASSUME IInv, NEW p \in Procs, Start(p) PROVE IInv'
  BY MntrallocStep DEF Start

\* An interrupted transaction sends a flush.
LEMMA FlushStep == ASSUME IInv, NEW p \in Procs, Flush(p) PROVE IInv'
  BY MntrallocStep DEF Flush

\* The Mntrpc goes to the head of m->queue.
LEMMA LinkStep == ASSUME IInv, NEW p \in Procs, Link(p) PROVE IInv'
<1> DEFINE t == <<p, N(p)>>
<1>1. /\ pc[p] = "link" /\ pc' = [pc EXCEPT ![p] = "send"] /\ queue' = <<t>> \o queue
      /\ N(p) \in 1 .. MaxChain /\ t \in Tags
      /\ UNCHANGED <<free, chain, done, rip, req, rep, srv, answered, hungup, crowd>>
  BY ChainFacts, TagPairs DEF Link, Goto, net
<1>2. pc'[p] = "send" /\ Mine(p) /\ N(p)' = N(p) /\ \A q \in Procs \ {p} : pc'[q] = pc[q]
  BY <1>1 DEF IInv, TypeOK, N
<1>3. /\ queue' \in Seq(Tags) /\ Once(queue')
      /\ \A z : Has(queue', z) <=> Has(queue, z) \/ z = t
  <2>1. queue \in Seq(Tags) /\ Once(queue) /\ ~Has(queue, t)
    BY <1>1, <1>2 DEF IInv, TypeOK, Mine, FreeOK
  <2> QED  BY <1>1, <2>1, JoinHead, Zenon
<1>4. TypeOK'  BY <1>1, <1>2, <1>3 DEF IInv, TypeOK
<1>5. HeirOK'
  <2>1. Heir(p) => Heir(p)'  BY <1>1, <1>2 DEF Heir
  <2> QED  BY <1>1, <2>1, HeirStays, Zenon
<1>6. /\ MessageOK' /\ OrderOK' /\ \A q \in Procs \ {p} : Mine(q)'
      /\ \A q, n : Moving(q, n)' = Moving(q, n) /\ Replied(q, n)' = Replied(q, n)
  <2>1. \A q \in Procs \ {p}, k \in 1 .. MaxChain : <<q, k>> # t  OBVIOUS
  <2> QED  BY <1>1, <1>2, <1>3, <2>1, OthersKeep, SMTT(30)
<1>7. ChainOK(p)'  BY <1>1, <1>2 DEF Mine, ChainOK
<1>8. FreeOK(p)'  BY <1>1, <1>2, <1>3, Zenon DEF Mine, FreeOK, WaitOK
<1>9. WaitOK(p)'  BY <1>2 DEF WaitOK
<1>10. Honest(p)' <=> Honest(p)  BY <1>1, <1>2 DEF Honest
<1>11. LiveOK(p)'  BY <1>1, <1>2, <1>6, <1>10 DEF Mine, LiveOK
<1>12. AnsweredOK(p)'  BY <1>1, <1>2, <1>6, <1>10 DEF Mine, AnsweredOK
<1>13. Mine(p)'  BY <1>7, <1>8, <1>9, <1>11, <1>12 DEF Mine
<1> QED  BY <1>3, <1>4, <1>5, <1>6, <1>13 DEF IInv

\* The message goes out: the last of its chain, so after all that is under way.
LEMMA SendStep == ASSUME IInv, NEW p \in Procs, Send(p) PROVE IInv'
<1>1. /\ pc[p] = "send"
      /\ UNCHANGED <<free, chain, done, queue, rip, rep, srv, answered, hungup, crowd>>
  BY DEF Send
<1>2. PICK l \in {"fail", "gate", "intr"} :
        /\ pc' = [pc EXCEPT ![p] = l]
        /\ l = "fail" => req' = req /\ (hungup \/ N(p) = 1)
        /\ l # "fail" => ~hungup /\ req' = Append(req, [tag |-> Cur(p),
                             old |-> IF Len(chain[p]) = 1 THEN Nil ELSE Request(p)])
        /\ l = "intr" => N(p) < MaxChain
  BY NoteRoom DEF Send, Goto, N
<1>3. /\ pc'[p] = l /\ Mine(p) /\ rip # p /\ \A q \in Procs \ {p} : pc'[q] = pc[q]
      /\ \A q \in Procs : pc[q] = "read" => rip = q
  BY <1>1, <1>2, Zenon DEF IInv, TypeOK, Mine, WaitOK
<1>4. N(p) \in 1 .. MaxChain /\ Cur(p) = <<p, N(p)>> /\ Request(p) = <<p, 1>> /\ N(p)' = N(p)
  BY <1>1, ChainFacts DEF N
<1>5. HeirOK'
  <2>1. CASE hungup  BY <1>1, <2>1 DEF HeirOK
  <2>2. CASE ~hungup
    <3>1. Heir(p) => Heir(p)'  BY <1>1, <1>2, <1>3, <2>2 DEF Heir
    <3> QED  BY <1>1, <1>2, <3>1, HeirStays, Zenon
  <2> QED  BY <2>1, <2>2
<1>6. ChainOK(p)' /\ FreeOK(p)' /\ WaitOK(p)'
  BY <1>1, <1>2, <1>3, <1>4 DEF Mine, ChainOK, FreeOK, WaitOK
<1>7. CASE l = "fail"
  <2>1. req' = req  BY <1>2, <1>7
  <2>2. TypeOK'  BY <1>1, <1>2, <1>3, <2>1 DEF IInv, TypeOK
  <2>3. /\ MessageOK' /\ OrderOK' /\ \A q \in Procs \ {p} : Mine(q)'
        /\ \A q, n : Moving(q, n)' = Moving(q, n) /\ Replied(q, n)' = Replied(q, n)
    BY <1>1, <1>3, <2>1, OthersKeep
  <2>4. Honest(p)' => ~hungup /\ Honest(p)  BY <1>1, <1>3, <1>7 DEF Honest
  <2>5. ASSUME ~hungup, NEW n \in 1 .. MaxChain, Moving(p, n) PROVE FALSE
    <3>1. N(p) = 1 /\ n < N(p)  BY <1>1, <1>2, <1>3, <1>7, <2>5 DEF Mine, LiveOK, Honest
    <3> QED  BY <3>1
  <2>6. LiveOK(p)'  BY <1>3, <1>7, <2>3, <2>4, <2>5, Zenon DEF LiveOK
  <2>7. AnsweredOK(p)'  BY <1>1, <1>3, <1>4, <2>3, <2>4 DEF Mine, AnsweredOK
  <2> QED  BY <1>1, <1>5, <1>6, <2>2, <2>3, <2>6, <2>7 DEF IInv, Mine
<1>8. CASE l # "fail"
  <2>0. ~hungup  BY <1>2, <1>8
  <2> DEFINE t == <<p, N(p)>>
             m == [tag |-> t, old |-> IF N(p) = 1 THEN Nil ELSE <<p, 1>>]
  <2>1. req' = Append(req, m)  BY <1>2, <1>4, <1>8 DEF N
  <2>2. m \in Message /\ m.tag = t /\ Fit(m) /\ t \in Tags /\ t[1] = p /\ t[2] = N(p)
    <3>1. t \in Tags /\ t[1] = p /\ t[2] = N(p) /\ <<p, 1>> \in Tags
      BY <1>4, TagPairs, Constants
    <3>2. m \in Message  BY <3>1 DEF Message
    <3> QED  BY <3>1, <3>2 DEF Fit
  <2> HIDE DEF m
  <2>3. req \in Seq(Message) /\ rep \in Seq(Tags)  BY DEF IInv, TypeOK
  <2>4. /\ Sent(req) \in Seq(Tags) /\ Sent(req') = Append(Sent(req), t)
        /\ req' \in Seq(Message) /\ \A z : Has(req', z) <=> Has(req, z) \/ z = m
    BY <2>1, <2>2, <2>3, SentType, SentAppend, JoinTail
  <2>5. \A z : Has(Sent(req'), z) <=> Has(Sent(req), z) \/ z = t
    BY <2>2, <2>4, JoinTail, SMTT(30)
  <2>6. \A q, n : /\ Asked(q, n)' <=> Asked(q, n) \/ <<q, n>> = t
                  /\ Held(q, n)' <=> Held(q, n)
                  /\ Replied(q, n)' <=> Replied(q, n)
                  /\ Moving(q, n)' <=> Moving(q, n) \/ <<q, n>> = t
    BY <1>1, <2>5 DEF Asked, Held, Replied, Moving
  <2>7. /\ \A n \in 1 .. MaxChain : Moving(p, n) =>
             /\ n < N(p)
             /\ \A k \in 1 .. N(p) : <<p, k>> \in done => k < n
        /\ t \notin done
    BY <1>1, <1>3, <2>0 DEF Mine, LiveOK, Honest
  <2>8. TypeOK'  BY <1>1, <1>2, <1>3, <2>4 DEF IInv, TypeOK
  <2>9. MessageOK'  BY <1>1, <2>0, <2>2, <2>4 DEF IInv, MessageOK
  <2>10. OrderOK'
    <3>1. ASSUME NEW z, Has(Sent(req), z), z[1] = t[1] PROVE z[2] < t[2]
      <4>1. PICK q \in Procs, n \in 1 .. MaxChain : z = <<q, n>>
        BY <2>4, <3>1, HasType, TagPairs
      <4>2. q = p /\ z[2] = n  BY <2>2, <3>1, <4>1
      <4> QED  BY <2>2, <2>7, <3>1, <4>1, <4>2 DEF Moving, Asked
    <3>2. Rising(Sent(req'))  BY <2>2, <2>4, <3>1, RisingAppend, Zenon DEF IInv, OrderOK
    <3>3. ASSUME NEW q \in Procs, NEW k \in 1 .. MaxChain, NEW n \in 1 .. MaxChain,
                 Replied(q, k) \/ Held(q, k), Asked(q, n)'
          PROVE  k < n
      <4>1. CASE <<q, n>> = t
        <5>1. q = p /\ n = N(p)  BY <4>1
        <5> QED  BY <2>7, <3>3, <5>1 DEF Moving
      <4>2. CASE Asked(q, n)  BY <3>3, <4>2 DEF IInv, OrderOK
      <4> QED  BY <2>6, <3>3, <4>1, <4>2
    <3> QED  BY <1>1, <2>6, <3>2, <3>3 DEF IInv, OrderOK
  <2>11. ASSUME NEW q \in Procs \ {p} PROVE Mine(q)'
    <3>1. \A n : <<q, n>> # t  OBVIOUS
    <3>2. Kept(q)  BY <1>1, <1>3, <2>6, <3>1, Zenon DEF Kept
    <3> QED  BY <3>2, Keeps
  <2>12. LiveOK(p)'
    <3> SUFFICES ASSUME NEW n \in 1 .. MaxChain, Moving(p, n)'
                 PROVE  n <= N(p) /\ \A k \in 1 .. N(p) : <<p, k>> \in done => k < n
      BY <1>1, <1>2, <1>3, <1>4, <1>8 DEF LiveOK
    <3>1. CASE n = N(p)  BY <1>4, <2>7, <3>1
    <3>2. CASE n # N(p)  BY <1>4, <2>6, <2>7, <3>2
    <3> QED  BY <3>1, <3>2
  <2>13. AnsweredOK(p)'  BY <1>1, <1>3, <1>4, <2>0, <2>6 DEF Mine, AnsweredOK, Honest
  <2> QED  BY <1>1, <1>5, <1>6, <2>8, <2>9, <2>10, <2>11, <2>12, <2>13 DEF IInv, Mine
<1> QED  BY <1>7, <1>8

-----------------------------------------------------------------------------
\* A reply is read and handed to its owner: whatever is still under way comes later in
\* the owner's chain.
LEMMA MountmuxStep ==
    ASSUME IInv, NEW p \in Procs, pc[p] = "read", rep # <<>>, rep' = Tail(rep),
           Mountmux(p, Head(rep)),
           UNCHANGED <<free, chain, rip, req, srv, answered, hungup, crowd>>
    PROVE  IInv'
<1> DEFINE t == Head(rep)
<1>1. /\ rep \in Seq(Tags) /\ t \in Tags /\ rep' \in Seq(Tags)
      /\ \A z : Has(rep, z) <=> Has(rep', z) \/ z = t
  BY LeaveHead DEF IInv, TypeOK
<1>2. PICK o \in Procs, d \in 1 .. MaxChain : t = <<o, d>>  BY <1>1, TagPairs
<1>3. Owner(t) = o /\ t[1] = o /\ t[2] = d /\ Mine(o)  BY <1>2 DEF Owner, IInv
<1>4. N(o)' = N(o) /\ N(o) \in Nat /\ N(o) <= MaxChain /\ rip = p /\ p # Nil
  BY ChainFacts, Constants DEF N, IInv, Mine, WaitOK
<1>5. /\ done' = IF Has(queue, t) THEN done \cup {t} ELSE done
      /\ queue' \in Seq(Tags) /\ Once(queue')
      /\ \A z : Has(queue', z) <=> Has(queue, z) /\ z # t
  <2>1. CASE Has(queue, t)
    <3>1. t \in Range(queue)  BY <2>1, RangeHas
    <3>2. Unlink(t) /\ done' = done \cup {t}  BY <3>1 DEF Mountmux, MountmuxAs
    <3> QED  BY <2>1, <3>2, UnlinkFacts
  <2>2. CASE ~Has(queue, t)
    <3>1. t \notin Range(queue)  BY <2>2, RangeHas
    <3>2. done' = done /\ queue' = queue  BY <3>1 DEF Mountmux, MountmuxAs
    <3> QED  BY <2>2, <3>2 DEF IInv, TypeOK
  <2> QED  BY <2>1, <2>2
<1>6. /\ pc' \in [Procs -> {"idle", "link", "send", "gate", "sleep", "asleep", "woken", "read",
                            "intr", "flush", "finish", "fail"}]
      /\ \A q \in Procs \ {o} : pc'[q] = pc[q]
      /\ pc'[o] = pc[o] \/ (pc[o] = "asleep" /\ pc'[o] = "woken")
      /\ Has(queue, t) => pc'[o] # "asleep"
  <2>1. pc \in [Procs -> {"idle", "link", "send", "gate", "sleep", "asleep", "woken", "read",
                          "intr", "flush", "finish", "fail"}]
    BY DEF IInv, TypeOK
  <2>2. CASE Has(queue, t)
    <3>1. t \in Range(queue) /\ Cur(p) = <<p, N(p)>>  BY <2>2, RangeHas, ChainFacts
    <3>2. CASE t # Cur(p) /\ Sleeping(t)
      <4>1. pc' = [pc EXCEPT ![o] = "woken"] /\ pc[o] = "asleep"
        BY <1>3, <3>1, <3>2 DEF Mountmux, MountmuxAs, Goto, Sleeping
      <4> QED  BY <2>1, <4>1
    <3>3. CASE ~(t # Cur(p) /\ Sleeping(t))
      <4>1. pc' = pc  BY <3>1, <3>3 DEF Mountmux, MountmuxAs
      <4>2. pc[o] # "asleep"
        <5>1. CASE t = Cur(p)  BY <1>2, <3>1, <5>1
        <5>2. CASE ~Sleeping(t)  BY <1>3, <5>2 DEF Sleeping
        <5> QED  BY <3>3, <5>1, <5>2
      <4> QED  BY <2>1, <4>1, <4>2
    <3> QED  BY <3>2, <3>3
  <2>3. CASE ~Has(queue, t)
    <3>1. t \notin Range(queue)  BY <2>3, RangeHas
    <3> QED  BY <2>1, <2>3, <3>1 DEF Mountmux, MountmuxAs
  <2> QED  BY <2>2, <2>3
<1>7. TypeOK'
  <2>1. \A q \in Procs : rip' = q => pc'[q] \in {"read", "intr", "finish", "fail"}
    BY <1>4, <1>6
  <2>2. done' \subseteq Tags  BY <1>1, <1>5 DEF IInv, TypeOK
  <2> QED  BY <1>1, <1>5, <1>6, <2>1, <2>2 DEF IInv, TypeOK
<1>8. HeirOK'  BY <1>4 DEF HeirOK
<1>9. MessageOK'  BY DEF IInv, MessageOK
<1>10. \A q, n : /\ Asked(q, n)' <=> Asked(q, n)
                 /\ Held(q, n)' <=> Held(q, n)
                 /\ Replied(q, n) <=> Replied(q, n)' \/ <<q, n>> = t
                 /\ Moving(q, n)' => Moving(q, n)
  BY <1>1 DEF Asked, Held, Replied, Moving
<1>11. Rising(rep') /\ \A z : Has(rep', z) /\ t[1] = z[1] => t[2] < z[2]
  BY <1>1, RisingTail DEF IInv, OrderOK
<1>12. OrderOK'  BY <1>10, <1>11 DEF IInv, OrderOK
<1>13. ASSUME NEW q \in Procs \ {o} PROVE Mine(q)'
  <2>1. \A n : <<q, n>> # t  BY <1>2
  <2>2. pc'[q] = "read" => rip' = q  BY <1>6, Zenon DEF IInv, Mine, WaitOK
  <2>3. Kept(q)  BY <1>5, <1>6, <1>10, <2>1, <2>2, Zenon DEF Kept
  <2> QED  BY <2>3, Keeps
<1>14. Replied(o, d) /\ Moving(o, d)  BY <1>2, <1>10 DEF Moving
<1>15. ASSUME NEW n \in 1 .. MaxChain, Moving(o, n)' PROVE d < n
  <2>1. CASE Replied(o, n)'
    <3>1. <<o, n>>[1] = o /\ <<o, n>>[2] = n  OBVIOUS
    <3> QED  BY <1>3, <1>11, <2>1, <3>1 DEF Replied
  <2>2. CASE Held(o, n)' \/ Asked(o, n)'  BY <1>10, <1>14, <2>2, Zenon DEF IInv, OrderOK
  <2> QED  BY <1>15, <2>1, <2>2 DEF Moving
<1>16. /\ Honest(o)' <=> Honest(o)
       /\ \A l \in {"idle", "link", "send", "finish", "fail"} : pc'[o] = l <=> pc[o] = l
  BY <1>6 DEF Honest
<1>17. ChainOK(o)'  BY <1>3, <1>4, <1>6, <1>16 DEF Mine, ChainOK
<1>18. FreeOK(o)'  BY <1>3, <1>4, <1>5, <1>16, Zenon DEF Mine, FreeOK
<1>19. WaitOK(o)'
  <2>1. ASSUME pc'[o] = "link" PROVE <<o, N(o)>> \notin done'
    <3>1. pc[o] = "link" /\ <<o, N(o)>> \notin done  BY <1>3, <1>16, <2>1 DEF Mine, WaitOK
    <3>2. N(o) \in 1 .. MaxChain  BY <3>1, ChainFacts
    <3>3. ~Has(queue, <<o, N(o)>>)  BY <1>3, <3>1, <3>2 DEF Mine, FreeOK
    <3> QED  BY <1>5, <3>1, <3>3
  <2>2. ASSUME pc'[o] = "asleep" PROVE <<o, N(o)>> \notin done'
    BY <1>3, <1>5, <1>6, <2>2 DEF Mine, WaitOK
  <2> QED  BY <1>3, <1>4, <1>6, <2>1, <2>2 DEF Mine, WaitOK
<1>20. LiveOK(o)'
  <2> SUFFICES ASSUME Honest(o)
               PROVE  /\ \A n \in 1 .. MaxChain : Moving(o, n)' =>
                           /\ n <= N(o)
                           /\ pc[o] \in {"link", "send"} => n < N(o)
                           /\ \A k \in 1 .. N(o) : <<o, k>> \in done' => k < n
                           /\ pc[o] \notin {"finish", "fail"}
                      /\ pc[o] \in {"link", "send"} => <<o, N(o)>> \notin done'
    BY <1>4, <1>16 DEF LiveOK
  <2>1. ASSUME NEW n \in 1 .. MaxChain, Moving(o, n)', NEW k \in 1 .. N(o), <<o, k>> \in done'
        PROVE  k < n
    <3>1. CASE k = d  BY <1>15, <2>1, <3>1
    <3>2. CASE k # d
      <4>1. <<o, k>> \in done  BY <1>2, <1>5, <2>1, <3>2
      <4> QED  BY <1>3, <1>10, <2>1, <4>1, Zenon DEF Mine, LiveOK
    <3> QED  BY <3>1, <3>2
  <2>2. ASSUME pc[o] \in {"link", "send"} PROVE <<o, N(o)>> \notin done'
    <3>1. d < N(o) /\ <<o, N(o)>> \notin done  BY <1>3, <1>14, <2>2 DEF Mine, LiveOK
    <3> QED  BY <1>2, <1>4, <1>5, <3>1
  <2> QED  BY <1>3, <1>10, <2>1, <2>2, Zenon DEF Mine, LiveOK
<1>21. AnsweredOK(o)'
  <2> SUFFICES ASSUME <<o, 1>> \in answered, Honest(o), <<o, 1>> \notin done, <<o, 1>> = t
               PROVE  <<o, 1>> \in done'
    BY <1>3, <1>4, <1>5, <1>10, <1>16, Zenon DEF Mine, AnsweredOK
  <2>1. ~(pc[o] = "link" /\ 1 = N(o))
    <3>1. d = 1  BY <1>2
    <3>2. LiveOK(o)  BY <1>3, Zenon DEF Mine
    <3>3. ASSUME pc[o] = "link" PROVE d < N(o)  BY <1>2, <1>14, <3>2, <3>3 DEF LiveOK
    <3> QED  BY <1>4, <3>1, <3>3
  <2>2. Has(queue, <<o, 1>>)  BY <1>3, <2>1, Constants DEF Mine, FreeOK
  <2> QED  BY <1>5, <2>2, Zenon
<1>22. Mine(o)'  BY <1>17, <1>18, <1>19, <1>20, <1>21 DEF Mine
<1> QED  BY <1>5, <1>7, <1>8, <1>9, <1>12, <1>13, <1>22 DEF IInv

\* The reader reads a reply, or is done, or finds the connection lost.
LEMMA ReadStep == ASSUME IInv, NEW p \in Procs, Read(p) PROVE IInv'
<1>1. pc[p] = "read" /\ UNCHANGED <<free, chain, rip, req, srv, answered, hungup, crowd>>
  BY DEF Read
<1>2. Cur(p) = <<p, N(p)>> /\ rip = p /\ p # Nil
  BY <1>1, ChainFacts, Constants DEF IInv, Mine, WaitOK
<1>3. CASE rep # <<>> /\ rep' = Tail(rep) /\ Mountmux(p, Head(rep))
  BY <1>1, <1>3, MountmuxStep
<1>4. ASSUME NEW l \in {"finish", "fail"}, pc' = [pc EXCEPT ![p] = l],
             UNCHANGED <<queue, done, rep>>,
             l = "finish" => Cur(p) \in done, l = "fail" => hungup
      PROVE  IInv'
  <2>1. UNCHANGED <<free, chain, done, queue, rip, net>>  BY <1>1, <1>4 DEF net
  <2>2. pc'[p] = l  BY <1>4 DEF IInv, TypeOK
  <2>3. Moves(p)  BY <1>1, <1>2, <1>4, <2>2 DEF Moves, Waits
  <2>4. HeirOK'  BY <1>1, <1>2 DEF HeirOK
  <2> QED  BY <1>4, <2>1, <2>3, <2>4, OneMoves, Zenon
<1> QED  BY <1>3, <1>4 DEF Read, Goto

\* The Mntrpc at the head of the chain is free again.
LEMMA FreeOneStep ==
    ASSUME IInv, NEW p \in Procs, pc[p] \in {"finish", "fail"}, FreeOne(p)
    PROVE  IInv'
<1> DEFINE n == N(p)
           t == <<p, n>>
<1>1. /\ n \in 1 .. MaxChain /\ n \in Nat /\ Cur(p) = t /\ t \in Tags
      /\ n - 1 \in Nat /\ n - 1 < n /\ n - 1 <= MaxChain
  <2>1. n \in 1 .. MaxChain /\ Cur(p) = t  BY ChainFacts
  <2> QED  BY <2>1, TagPairs, Constants
<1>2. /\ done' = done \cup {t} /\ free' = free \cup {t} /\ answered' = answered \ {t}
      /\ chain' = [chain EXCEPT ![p] = Tail(@)] /\ rip # p
      /\ UNCHANGED <<rip, req, rep, srv, hungup, crowd>>
  BY <1>1 DEF FreeOne
<1>3. PICK l \in {"idle", "finish", "fail"} :
        /\ pc' = [pc EXCEPT ![p] = l] /\ (l = "idle" <=> n = 1)
        /\ l # "idle" => l = pc[p]
  <2>1. pc = [pc EXCEPT ![p] = pc[p]]  BY DEF IInv, TypeOK
  <2> QED  BY <2>1 DEF FreeOne, N, Goto
<1>4. /\ pc'[p] = l /\ Mine(p)
      /\ \A q \in Procs \ {p} : pc'[q] = pc[q] /\ chain'[q] = chain[q]
  BY <1>2, <1>3 DEF IInv, TypeOK
<1>5. /\ queue' \in Seq(Tags) /\ Once(queue')
      /\ \A z : Has(queue', z) <=> Has(queue, z) /\ z # t
  <2>1. CASE t \in Range(queue)
    <3>1. Unlink(t)  BY <1>1, <2>1 DEF FreeOne
    <3> QED  BY <3>1, UnlinkFacts
  <2>2. CASE t \notin Range(queue)
    <3>1. queue' = queue /\ ~Has(queue, t)  BY <1>1, <2>2, RangeHas DEF FreeOne
    <3> QED  BY <3>1, Zenon DEF IInv, TypeOK
  <2> QED  BY <2>1, <2>2
<1>6. /\ chain' \in [Procs -> Seq(Tags)] /\ N(p)' = n - 1
      /\ \A i \in 1 .. n - 1 : chain'[p][i] = <<p, (n - 1) + 1 - i>>
  <2>1. chain \in [Procs -> Seq(Tags)] /\ chain[p] \in Seq(Tags) /\ n = Len(chain[p])
    BY DEF IInv, TypeOK, N
  <2>2. chain[p] # <<>> /\ chain'[p] = Tail(chain[p])  BY <1>1, <1>2, <2>1
  <2>3. /\ Tail(chain[p]) \in Seq(Tags) /\ Len(Tail(chain[p])) = n - 1
        /\ \A i \in 1 .. n - 1 : Tail(chain[p])[i] = chain[p][i + 1]
    BY <2>1, <2>2
  <2>4. ASSUME NEW i \in 1 .. n - 1 PROVE chain'[p][i] = <<p, (n - 1) + 1 - i>>
    <3>1. i + 1 \in 1 .. n /\ n + 1 - (i + 1) = (n - 1) + 1 - i  BY <1>1
    <3>2. chain[p][i + 1] = <<p, n + 1 - (i + 1)>>  BY <1>4, <3>1 DEF Mine, ChainOK
    <3> QED  BY <2>2, <2>3, <3>1, <3>2
  <2> QED  BY <1>2, <2>1, <2>2, <2>3, <2>4 DEF N
<1> HIDE DEF n
<1>7. TypeOK'
  <2>1. \A q \in Procs : rip' = q => pc'[q] \in {"read", "intr", "finish", "fail"}
    BY <1>2, <1>4 DEF IInv, TypeOK
  <2>2. free' \subseteq Tags /\ done' \subseteq Tags /\ answered' \subseteq Tags
    BY <1>1, <1>2, Zenon DEF IInv, TypeOK
  <2>3. pc' \in [Procs -> {"idle", "link", "send", "gate", "sleep", "asleep", "woken", "read",
                           "intr", "flush", "finish", "fail"}]
    BY <1>3 DEF IInv, TypeOK
  <2> QED  BY <1>2, <1>5, <1>6, <2>1, <2>2, <2>3 DEF IInv, TypeOK
<1>8. /\ MessageOK' /\ OrderOK' /\ \A q \in Procs \ {p} : Mine(q)'
      /\ \A q, k : Moving(q, k)' = Moving(q, k) /\ Replied(q, k)' = Replied(q, k)
  <2>1. \A q \in Procs \ {p}, k \in 1 .. MaxChain : <<q, k>> # t  OBVIOUS
  <2>2. answered' \subseteq answered  BY <1>2
  <2> QED  BY <1>2, <1>4, <1>5, <2>1, <2>2, OthersKeep, Zenon
<1>9. HeirOK'
  <2>1. ASSUME NEW q \in Procs, Heir(q) PROVE Heir(q)'
    <3>1. q # p /\ <<q, N(q)>> # t  BY <2>1 DEF Heir
    <3>2. N(q)' = N(q)  BY <1>4, <3>1 DEF N
    <3> QED  BY <1>2, <1>4, <2>1, <3>1, <3>2, Zenon DEF Heir
  <2>2. \A q \in Procs : pc'[q] = "asleep" => pc[q] = "asleep"  BY <1>3, <1>4
  <2> QED  BY <1>2, <2>1, <2>2, Zenon DEF IInv, HeirOK
<1>10. ChainOK(p)'
  <2>1. (n - 1 = 0 <=> pc'[p] = "idle") /\ pc'[p] \notin {"intr", "flush"}
    BY <1>1, <1>3, <1>4
  <2> QED  BY <1>1, <1>6, <2>1 DEF ChainOK
<1>11. FreeOK(p)'
  <2> SUFFICES ASSUME NEW k \in 1 .. MaxChain
               PROVE  /\ (<<p, k>> \in free' <=> k > n - 1)
                      /\ <<p, k>> \in free' => <<p, k>> \in done'
                      /\ (Has(queue', <<p, k>>) <=> <<p, k>> \notin done')
    BY <1>3, <1>4, <1>6 DEF FreeOK
  <2>1. /\ (<<p, k>> \in free <=> k > n)
        /\ <<p, k>> \in free => <<p, k>> \in done
        /\ (Has(queue, <<p, k>>) <=> <<p, k>> \notin done)
    BY <1>4, Zenon DEF Mine, FreeOK, n
  <2>2. k > n - 1 <=> k > n \/ k = n  BY <1>1
  <2> QED  BY <1>2, <1>5, <2>1, <2>2
<1>12. WaitOK(p)'  BY <1>2, <1>3, <1>4 DEF Mine, WaitOK
<1>13. LiveOK(p)' /\ (Honest(p)' => Honest(p))
  <2>1. ASSUME Honest(p)' PROVE Honest(p)  BY <1>2, <1>3, <1>4, <2>1, Zenon DEF Honest
  <2>2. ASSUME Honest(p)' PROVE Honest(p) /\ \A k \in 1 .. MaxChain : ~Moving(p, k)
    BY <1>4, <2>1, <2>2, Zenon DEF Mine, LiveOK
  <2>3. pc'[p] \notin {"link", "send"}  BY <1>3, <1>4
  <2> QED  BY <1>8, <2>2, <2>3, Zenon DEF LiveOK
<1>14. AnsweredOK(p)'
  <2> SUFFICES ASSUME <<p, 1>> \in answered, n # 1
               PROVE  n - 1 > 0 /\ (Honest(p)' => <<p, 1>> \in done' \/ Replied(p, 1))
    BY <1>2, <1>6, <1>8, Zenon DEF AnsweredOK
  <2>1. n - 1 > 0  BY <1>1
  <2> QED  BY <1>2, <1>4, <1>13, <2>1 DEF Mine, AnsweredOK
<1>15. Mine(p)'  BY <1>10, <1>11, <1>12, <1>13, <1>14 DEF Mine
<1> QED  BY <1>5, <1>7, <1>8, <1>9, <1>15 DEF IInv

\* A transaction with its reply ends.
LEMMA FinishStep == ASSUME IInv, NEW p \in Procs, Finish(p) PROVE IInv'
  BY FreeOneStep DEF Finish

\* A transaction without a reply ends.
LEMMA FailStep == ASSUME IInv, NEW p \in Procs, Fail(p) PROVE IInv'
  BY FreeOneStep DEF Fail

-----------------------------------------------------------------------------
\* A step of the server or of the connection: what p has stays, but for what is under
\* way.
LEMMA ServerKeeps ==
    ASSUME IInv, UNCHANGED <<free, chain, done, queue, rip, pc, crowd>>,
           req' \in Seq(Message), srv' \subseteq Message, rep' \in Seq(Tags),
           answered' \subseteq Tags, hungup' \in BOOLEAN, hungup => hungup',
           \A p \in Procs, n \in 1 .. MaxChain :
             (Moving(p, n)' => Moving(p, n)) /\ (Replied(p, n) => Replied(p, n)'),
           \A p \in Procs : <<p, 1>> \in answered' => <<p, 1>> \in answered \/ AnsweredOK(p)',
           MessageOK', OrderOK'
    PROVE  IInv'
<1>1. TypeOK'  BY DEF IInv, TypeOK
<1>2. HeirOK'  BY Zenon DEF IInv, HeirOK, Heir, N
<1>3. ASSUME NEW p \in Procs, <<p, 1>> \in answered' => <<p, 1>> \in answered
      PROVE  Mine(p)'
  <2>1. pc'[p] = "read" => rip' = p  BY Zenon DEF IInv, Mine, WaitOK
  <2>2. Kept(p)  BY <1>3, <2>1, Constants DEF Kept
  <2> QED  BY <2>2, Keeps
<1>4. ASSUME NEW p \in Procs, AnsweredOK(p)' PROVE Mine(p)'
  <2>1. ChainOK(p)' /\ FreeOK(p)'  BY Zenon DEF IInv, Mine, ChainOK, FreeOK, N
  <2>2. WaitOK(p)'  BY DEF IInv, Mine, WaitOK, N
  <2>3. LiveOK(p)'  BY DEF IInv, Mine, LiveOK, Honest, N
  <2> QED  BY <1>4, <2>1, <2>2, <2>3 DEF Mine
<1>5. Once(queue')  BY DEF IInv
<1> QED  BY <1>1, <1>2, <1>3, <1>4, <1>5, Zenon DEF IInv

\* The server takes a message: nothing of the chain it holds comes later.
LEMMA ReceiveStep == ASSUME IInv, Receive PROVE IInv'
<1> DEFINE m == Head(req)
<1>1. /\ req # <<>> /\ req' = Tail(req) /\ srv' = srv \cup {m}
      /\ UNCHANGED <<free, chain, done, queue, rip, pc, rep, answered, hungup, crowd>>
  BY DEF Receive
<1>2. /\ req \in Seq(Message) /\ rep \in Seq(Tags) /\ srv \subseteq Message
      /\ answered \subseteq Tags /\ hungup \in BOOLEAN
  BY DEF IInv, TypeOK
<1>3. /\ m \in Message /\ req' \in Seq(Message)
      /\ \A z : Has(req, z) <=> Has(req', z) \/ z = m
  BY <1>1, <1>2, LeaveHead
<1>4. m.tag \in Tags  BY <1>3 DEF Message
<1> HIDE DEF m
<1>5. /\ Sent(req) \in Seq(Tags) /\ Sent(req) # <<>> /\ Sent(req') = Tail(Sent(req))
      /\ Head(Sent(req)) = m.tag
  BY <1>1, <1>2, SentType, SentTail DEF m
<1>6. \A z : Has(Sent(req), z) <=> Has(Sent(req'), z) \/ z = m.tag  BY <1>5, LeaveHead
<1>7. Rising(Sent(req')) /\ \A z : Has(Sent(req'), z) /\ m.tag[1] = z[1] => m.tag[2] < z[2]
  BY <1>5, RisingTail DEF IInv, OrderOK
<1>8. ASSUME NEW p \in Procs, NEW n \in 1 .. MaxChain
      PROVE  /\ Asked(p, n)' => Asked(p, n)
             /\ Held(p, n)' <=> Held(p, n) \/ <<p, n>> = m.tag
             /\ <<p, n>> = m.tag => Asked(p, n)
             /\ (Replied(p, n)' <=> Replied(p, n))
             /\ Moving(p, n)' => Moving(p, n)
  BY <1>1, <1>6 DEF Asked, Held, Replied, Moving
<1>9. ~hungup  BY <1>1 DEF IInv, MessageOK
<1>10. MessageOK'  BY <1>1, <1>3, <1>9 DEF IInv, MessageOK
<1>11. OrderOK'
  <2>1. ASSUME NEW p \in Procs, NEW k \in 1 .. MaxChain, NEW n \in 1 .. MaxChain,
               Held(p, k)', Asked(p, n)'
        PROVE  k < n
    <3>1. CASE Held(p, k)  BY <1>8, <2>1, <3>1, Zenon DEF IInv, OrderOK
    <3>2. CASE <<p, k>> = m.tag
      <4>1. m.tag[1] = p /\ m.tag[2] = k /\ <<p, n>>[1] = p /\ <<p, n>>[2] = n
        BY <3>2, TagPairs
      <4> QED  BY <1>7, <2>1, <4>1 DEF Asked
    <3> QED  BY <1>8, <2>1, <3>1, <3>2, Zenon
  <2> QED  BY <1>1, <1>7, <1>8, <2>1, Zenon DEF IInv, OrderOK
<1> QED  BY <1>1, <1>2, <1>3, <1>4, <1>8, <1>9, <1>10, <1>11, ServerKeeps, Zenon

\* A reply goes out: after those to earlier messages of its chain, and before whatever
\* of the chain is still with the server or on its way there.
LEMMA AnswerOrder ==
    ASSUME IInv, NEW p \in Procs, NEW n \in 1 .. MaxChain, Held(p, n),
           rep' = Append(rep, <<p, n>>), UNCHANGED <<req, hungup>>, srv' \subseteq srv,
           \A k \in 1 .. MaxChain : Held(p, k)' => n < k
    PROVE  /\ MessageOK' /\ OrderOK' /\ rep' \in Seq(Tags) /\ Replied(p, n)'
           /\ \A q \in Procs, k \in 1 .. MaxChain :
                (Moving(q, k)' => Moving(q, k)) /\ (Replied(q, k) => Replied(q, k)')
<1> DEFINE t == <<p, n>>
<1>1. t \in Tags /\ t[1] = p /\ t[2] = n /\ rep \in Seq(Tags)
  BY TagPairs DEF IInv, TypeOK
<1>2. rep' \in Seq(Tags) /\ \A z : Has(rep', z) <=> Has(rep, z) \/ z = t
  BY <1>1, JoinTail
<1>3. ASSUME NEW q \in Procs, NEW k \in 1 .. MaxChain
      PROVE  /\ Asked(q, k)' <=> Asked(q, k)
             /\ Held(q, k)' => Held(q, k)
             /\ Replied(q, k)' <=> Replied(q, k) \/ <<q, k>> = t
  BY <1>2, Zenon DEF Asked, Held, Replied
<1>4. MessageOK'  BY DEF IInv, MessageOK
<1>5. ASSUME NEW z, Has(rep, z), z[1] = t[1] PROVE z[2] < t[2]
  <2>1. PICK q \in Procs, k \in 1 .. MaxChain : z = <<q, k>>  BY <1>1, <1>5, HasType, TagPairs
  <2>2. q = p /\ z[2] = k  BY <1>1, <1>5, <2>1
  <2> QED  BY <1>1, <1>5, <2>1, <2>2 DEF IInv, OrderOK, Replied
<1>6. Rising(rep')  BY <1>1, <1>5, RisingAppend DEF IInv, OrderOK
<1>7. ASSUME NEW q \in Procs, NEW j \in 1 .. MaxChain, NEW k \in 1 .. MaxChain,
             Replied(q, j)', Held(q, k)' \/ Asked(q, k)'
      PROVE  j < k
  <2>1. CASE Replied(q, j)  BY <1>3, <1>7, <2>1 DEF IInv, OrderOK
  <2>2. CASE <<q, j>> = t
    <3>1. q = p /\ j = n  BY <2>2
    <3> QED  BY <1>3, <1>7, <3>1 DEF IInv, OrderOK
  <2> QED  BY <1>3, <1>7, <2>1, <2>2
<1>8. OrderOK'  BY <1>3, <1>6, <1>7 DEF IInv, OrderOK
<1>9. ASSUME NEW q \in Procs, NEW k \in 1 .. MaxChain
      PROVE  (Moving(q, k)' => Moving(q, k)) /\ (Replied(q, k) => Replied(q, k)')
  <2>1. <<q, k>> = t => q = p /\ k = n  OBVIOUS
  <2> QED  BY <1>3, <2>1 DEF Moving
<1> QED  BY <1>2, <1>3, <1>4, <1>8, <1>9

\* The server answers a request.
LEMMA ReplyStep == ASSUME IInv, NEW t \in Tags, Reply(t) PROVE IInv'
<1>1. PICK m \in srv : /\ m.tag = t /\ m.old = Nil /\ rep' = Append(rep, t)
                       /\ answered' = answered \cup {t} /\ srv' = srv \ {m}
  BY DEF Reply
<1>2. UNCHANGED <<free, chain, done, queue, rip, pc, req, hungup, crowd>>  BY DEF Reply
<1>3. PICK p \in Procs, n \in 1 .. MaxChain : t = <<p, n>>  BY TagPairs
<1>4. srv \subseteq Message /\ req \in Seq(Message) /\ answered \subseteq Tags /\ hungup \in BOOLEAN
  BY DEF IInv, TypeOK
<1>5. ASSUME NEW x \in srv, x.tag[1] = p
      PROVE  x.old = IF x.tag[2] = 1 THEN Nil ELSE <<p, 1>>
  BY <1>4, <1>5 DEF IInv, MessageOK, Fit
<1>6. n = 1
  <2>1. m.tag[1] = p /\ m.tag[2] = n  BY <1>1, <1>3
  <2> QED  BY <1>1, <1>5, <2>1, Constants
<1>7. ASSUME NEW k \in 1 .. MaxChain, Held(p, k)' PROVE n < k
  <2>1. PICK x \in srv \ {m} : x.tag = <<p, k>>  BY <1>1, <1>7 DEF Held
  <2>2. ASSUME k = 1 PROVE FALSE
    <3>1. x.tag = m.tag /\ x.old = m.old
      <4>1. x.tag[1] = p /\ x.tag[2] = 1  BY <2>1, <2>2
      <4> QED  BY <1>1, <1>3, <1>5, <1>6, <2>1, <2>2, <4>1
    <3>2. x \in Message /\ m \in Message  BY <1>4, <2>1
    <3>3. x = m  BY <3>1, <3>2 DEF Message
    <3> QED  BY <2>1, <3>3
  <2> QED  BY <1>6, <2>2
<1>8. Held(p, n)  BY <1>1, <1>3 DEF Held
<1>9. /\ MessageOK' /\ OrderOK' /\ rep' \in Seq(Tags) /\ Replied(p, n)'
      /\ \A q \in Procs, k \in 1 .. MaxChain :
           (Moving(q, k)' => Moving(q, k)) /\ (Replied(q, k) => Replied(q, k)')
  BY <1>1, <1>2, <1>3, <1>7, <1>8, AnswerOrder, Zenon
<1>10. ~hungup  BY <1>1 DEF IInv, MessageOK
<1>11. req' \in Seq(Message) /\ srv' \subseteq Message /\ answered' \subseteq Tags
  BY <1>1, <1>2, <1>4
<1>12. ASSUME NEW q \in Procs, <<q, 1>> \in answered', <<q, 1>> \notin answered
       PROVE  AnsweredOK(q)'
  <2>1. q = p  BY <1>1, <1>3, <1>12
  <2>2. Honest(p) /\ Moving(p, n)  BY <1>8, <1>10 DEF Honest, Moving
  <2>3. n <= N(p)  BY <2>2, Zenon DEF IInv, Mine, LiveOK
  <2>4. N(p)' = N(p) /\ N(p) \in Nat  BY <1>2, ChainFacts DEF N
  <2>5. N(p)' > 0  BY <1>6, <2>3, <2>4
  <2> QED  BY <1>6, <1>9, <2>1, <2>5 DEF AnsweredOK
<1> QED  BY <1>2, <1>4, <1>9, <1>11, <1>12, ServerKeeps

\* The server answers a flush, and forgets what it flushes.
LEMMA RflushStep == ASSUME IInv, NEW t \in Tags, Rflush(t) PROVE IInv'
<1>1. PICK m \in srv :
        /\ m.tag = t /\ m.old # Nil /\ rep' = Append(rep, t)
        /\ srv' = {x \in srv \ {m} : /\ x.tag # m.old
                                     /\ x.old = m.old => x.tag[2] > t[2]}
  BY DEF Rflush
<1>2. UNCHANGED <<free, chain, done, queue, rip, pc, req, answered, hungup, crowd>>
  BY DEF Rflush
<1>3. PICK p \in Procs, n \in 1 .. MaxChain : t = <<p, n>>  BY TagPairs
<1>4. srv \subseteq Message /\ req \in Seq(Message) /\ answered \subseteq Tags /\ hungup \in BOOLEAN
  BY DEF IInv, TypeOK
<1>5. ASSUME NEW x \in srv, x.tag[1] = p
      PROVE  x.old = IF x.tag[2] = 1 THEN Nil ELSE <<p, 1>>
  BY <1>4, <1>5 DEF IInv, MessageOK, Fit
<1>6. m.old = <<p, 1>> /\ t[2] = n
  <2>1. m.tag[1] = p  BY <1>1, <1>3
  <2> QED  BY <1>1, <1>3, <1>5, <2>1
<1>7. ASSUME NEW k \in 1 .. MaxChain, Held(p, k)' PROVE n < k
  <2>1. PICK x \in srv : /\ x.tag = <<p, k>> /\ x.tag # <<p, 1>>
                         /\ x.old = <<p, 1>> => x.tag[2] > n
    BY <1>1, <1>6, <1>7 DEF Held
  <2>2. x.tag[1] = p /\ x.tag[2] = k /\ k # 1  BY <2>1
  <2>3. k > n  BY <1>5, <2>1, <2>2
  <2> QED  BY <2>3
<1>8. Held(p, n)  BY <1>1, <1>3 DEF Held
<1>9. /\ MessageOK' /\ OrderOK' /\ rep' \in Seq(Tags)
      /\ \A q \in Procs, k \in 1 .. MaxChain :
           (Moving(q, k)' => Moving(q, k)) /\ (Replied(q, k) => Replied(q, k)')
  <2>1. srv' \subseteq srv  BY <1>1
  <2> QED  BY <1>1, <1>2, <1>3, <1>7, <1>8, <2>1, AnswerOrder
<1>10. ~hungup  BY <1>1 DEF IInv, MessageOK
<1>11. req' \in Seq(Message) /\ srv' \subseteq Message  BY <1>1, <1>2, <1>4
<1> QED  BY <1>2, <1>4, <1>9, <1>11, ServerKeeps

\* The connection is lost: only replies stay under way.
LEMMA HangupStep == ASSUME IInv, Hangup PROVE IInv'
<1>1. /\ ~hungup /\ hungup' = TRUE /\ req' = <<>> /\ srv' = {}
      /\ UNCHANGED <<free, chain, done, queue, rip, pc, rep, answered, crowd>>
  BY DEF Hangup
<1>2. rep \in Seq(Tags) /\ answered \subseteq Tags  BY DEF IInv, TypeOK
<1>3. Sent(req') = <<>> /\ \A z : ~Has(req', z) /\ ~Has(Sent(req'), z)
  <2>1. Sent(req') = <<>>  BY <1>1 DEF Sent
  <2> QED  BY <1>1, <2>1, EmptyQueue
<1>4. ASSUME NEW p \in Procs, NEW n \in 1 .. MaxChain
      PROVE  /\ ~Asked(p, n)' /\ ~Held(p, n)' /\ (Replied(p, n)' <=> Replied(p, n))
             /\ Moving(p, n)' => Moving(p, n)
  BY <1>1, <1>3, Zenon DEF Asked, Held, Replied, Moving
<1>5. MessageOK'  BY <1>1, <1>3 DEF MessageOK
<1>6. OrderOK'
  <2>1. Rising(Sent(req'))  BY <1>3 DEF Rising
  <2> QED  BY <1>1, <1>4, <2>1 DEF IInv, OrderOK
<1> QED  BY <1>1, <1>2, <1>4, <1>5, <1>6, ServerKeeps

-----------------------------------------------------------------------------
\* The invariant holds at the start.
LEMMA Start0 == Init => IInv
<1> SUFFICES ASSUME Init PROVE IInv  OBVIOUS
<1>1. \A p \in Procs : N(p) = 0  BY DEF Init, N
<1>2. Sent(req) = <<>> /\ \A z : ~Has(Sent(req), z) /\ ~Has(rep, z) /\ ~Has(queue, z) /\ ~Has(req, z)
  <2>1. Sent(req) = <<>>  BY DEF Init, Sent
  <2> QED  BY <2>1, EmptyQueue DEF Init
<1>3. \A p \in Procs, n \in 1 .. MaxChain : ~Asked(p, n) /\ ~Held(p, n) /\ ~Replied(p, n)
  BY <1>2 DEF Asked, Held, Replied, Init
<1>4. TypeOK
  <2>1. chain \in [Procs -> Seq(Tags)]  BY DEF Init
  <2>2. queue \in Seq(Tags) /\ req \in Seq(Message) /\ rep \in Seq(Tags) /\ srv \subseteq Message
    BY DEF Init
  <2>3. \A p \in Procs : rip # p  BY Constants DEF Init
  <2>4. free \subseteq Tags /\ done \subseteq Tags /\ answered \subseteq Tags
    BY DEF Init
  <2> QED  BY <2>1, <2>2, <2>3, <2>4, Zenon DEF Init, TypeOK
<1>5. MessageOK  BY <1>2 DEF Init, MessageOK
<1>6. OrderOK
  <2>1. Rising(rep) /\ Rising(Sent(req))  BY <1>2 DEF Init, Rising
  <2> QED  BY <1>3, <2>1 DEF OrderOK
<1>7. Once(queue) /\ HeirOK  BY EmptyQueue DEF Init, HeirOK
<1>8. ASSUME NEW p \in Procs PROVE Mine(p)
  <2>1. ChainOK(p)  BY <1>1, Constants DEF Init, ChainOK
  <2>2. FreeOK(p)
    <3>1. \A n \in 1 .. MaxChain : n > 0  OBVIOUS
    <3>2. \A n \in 1 .. MaxChain : <<p, n>> \in free /\ <<p, n>> \in done
      BY TagPairs, Zenon DEF Init
    <3> QED  BY <1>1, <1>2, <3>1, <3>2, Zenon DEF FreeOK
  <2>3. WaitOK(p) /\ AnsweredOK(p)  BY DEF Init, WaitOK, AnsweredOK
  <2>4. LiveOK(p)  BY <1>3 DEF Init, LiveOK, Moving
  <2> QED  BY <2>1, <2>2, <2>3, <2>4 DEF Mine
<1> QED  BY <1>4, <1>5, <1>6, <1>7, <1>8 DEF IInv

\* Every step keeps it.
LEMMA StepKeeps == IInv /\ [Next]_vars => IInv'
<1> SUFFICES ASSUME IInv, [Next]_vars PROVE IInv'  OBVIOUS
<1>1. ASSUME NEW p \in Procs, Start(p) \/ Mountio(p) \/ Note(p) PROVE IInv'
  BY <1>1, StartStep, LinkStep, SendStep, GateStep, SleepStep, WokenStep, ReadStep, IntrStep,
     FlushStep, LeaveStep, FinishStep, FailStep, NoteStep DEF Mountio
<1>2. ASSUME NEW t \in Tags, Reply(t) \/ Rflush(t) PROVE IInv'
  BY <1>2, ReplyStep, RflushStep
<1>3. CASE UNCHANGED vars
  <2>1. UNCHANGED <<free, chain, done, queue, rip, pc, net, req, rep, srv, answered, hungup, crowd>>
    BY <1>3 DEF vars, net
  <2>2. TypeOK' /\ HeirOK'  BY <2>1, Zenon DEF IInv, TypeOK, HeirOK, Heir, N
  <2>3. \A q \in Procs : pc'[q] = "read" => rip' = q  BY <2>1, Zenon DEF IInv, Mine, WaitOK
  <2> QED  BY <2>1, <2>2, <2>3, MovesKeep
<1> QED  BY <1>1, <1>2, <1>3, ReceiveStep, HangupStep DEF Next

\* The inductive invariant holds for any number of processes and any length of the
\* chains: of a process's messages, replies come before what the server holds and that
\* before what is on its way to it, and m->queue has what waits.
THEOREM Invariance == Spec => []IInv
<1>1. Init => IInv  BY Start0
<1>2. IInv /\ [Next]_vars => IInv'  BY StepKeeps
<1> QED  BY <1>1, <1>2, PTL DEF Spec

\* mntflushalloc and mntflushfree: a tag is free only when the server can no longer
\* answer it (or the connection is lost), and m->queue holds exactly the Mntrpcs in use
\* that wait for a reply.
THEOREM TagsSafe == Spec => []TagSafe
<1> SUFFICES ASSUME IInv PROVE TagSafe  BY Invariance, PTL
<1>1. TypeOK  BY DEF IInv
<1>2. ASSUME NEW t \in free, InFlight(t), ~hungup PROVE FALSE
  <2>1. t \in Tags  BY <1>1 DEF TypeOK
  <2>2. PICK p \in Procs, n \in 1 .. MaxChain : t = <<p, n>>  BY <2>1, TagPairs
  <2>3. Moving(p, n)
    <3>1. CASE \E i \in DOMAIN req : req[i].tag = t
      <4>1. Sent(req) \in Seq(Tags) /\ Len(Sent(req)) = Len(req) /\ DOMAIN req = 1 .. Len(req)
        BY <1>1, SentType DEF TypeOK
      <4>2. Has(Sent(req), t)  BY <3>1, <4>1 DEF Has, Sent
      <4> QED  BY <2>2, <4>2 DEF Moving, Asked
    <3>2. CASE \E m \in srv : m.tag = t  BY <2>2, <3>2 DEF Moving, Held
    <3>3. CASE t \in Range(rep)
      <4>1. Has(rep, t)  BY <1>1, <3>3 DEF TypeOK, Range, Has
      <4> QED  BY <2>2, <4>1 DEF Moving, Replied
    <3> QED  BY <1>2, <3>1, <3>2, <3>3 DEF InFlight
  <2>4. n <= N(p)  BY <1>2, <2>3, Zenon DEF IInv, Mine, LiveOK, Honest
  <2>5. n > N(p) /\ N(p) \in Nat  BY <1>2, <2>2, ChainFacts DEF IInv, Mine, FreeOK
  <2> QED  BY <2>4, <2>5
<1>3. IsInjective(queue)  BY <1>1 DEF IInv, Once, IsInjective, TypeOK
<1>4. ASSUME NEW t \in Range(queue) PROVE t \notin free /\ t \notin done
  <2>1. Has(queue, t)  BY RangeHas
  <2>2. t \in Tags  BY <1>1, <2>1, HasType DEF TypeOK
  <2>3. PICK p \in Procs, n \in 1 .. MaxChain : t = <<p, n>>  BY <2>2, TagPairs
  <2> QED  BY <2>1, <2>3 DEF IInv, Mine, FreeOK
<1>5. ASSUME NEW p \in Procs, NEW i \in DOMAIN chain[p], chain[p][i] \notin done
      PROVE  chain[p][i] \in Range(queue) \/ (i = 1 /\ pc[p] = "link")
  <2>1. i \in 1 .. N(p) /\ N(p) \in Nat /\ N(p) <= MaxChain
    BY <1>1, ChainFacts DEF IInv, TypeOK, N
  <2>2. N(p) + 1 - i \in 1 .. MaxChain /\ (N(p) + 1 - i = N(p) => i = 1)  BY <2>1, Constants
  <2>3. chain[p][i] = <<p, N(p) + 1 - i>>  BY <2>1 DEF IInv, Mine, ChainOK
  <2>4. Has(queue, chain[p][i]) \/ (pc[p] = "link" /\ N(p) + 1 - i = N(p))
    BY <1>5, <2>2, <2>3, Zenon DEF IInv, Mine, FreeOK
  <2> QED  BY <2>2, <2>4, RangeHas
<1> QED  BY <1>1, <1>2, <1>3, <1>4, <1>5, Zenon DEF TagSafe

\* mountmux: a transaction that ends has its reply if the server gave one before the
\* Rflush, however many flushes it sent.
THEOREM RepliesCount == Spec => []ReplyHonoured
<1> SUFFICES ASSUME IInv PROVE ReplyHonoured  BY Invariance, PTL
<1> SUFFICES ASSUME NEW p \in Procs, pc[p] = "finish", Request(p) \in answered
             PROVE  Request(p) \in done
  BY DEF ReplyHonoured
<1>1. Request(p) = <<p, 1>>  BY ChainFacts
<1>2. Honest(p) /\ 1 \in 1 .. MaxChain  BY Constants DEF Honest
<1>3. ~Replied(p, 1)  BY <1>2, Zenon DEF IInv, Mine, LiveOK, Moving
<1> QED  BY <1>1, <1>2, <1>3 DEF IInv, Mine, AnsweredOK

\* mntgate: there is one reader at a time; and while the connection stays, a process
\* that sleeps without a reader is not left alone.  (On a lost connection the second
\* part fails for three processes; two are model-checked.)
THEOREM GateKept ==
    Spec => [](/\ \A p \in Procs : pc[p] = "read" => rip = p
               /\ ~hungup => GateNotLost)
<1> SUFFICES ASSUME IInv
             PROVE  /\ \A p \in Procs : pc[p] = "read" => rip = p
                    /\ ~hungup => GateNotLost
  BY Invariance, PTL
<1>1. \A p \in Procs : pc[p] = "read" => rip = p  BY Zenon DEF IInv, Mine, WaitOK
<1>2. \A q \in Procs : Heir(q) => pc[q] \notin {"idle", "asleep", "finish", "fail"}  BY DEF Heir
<1> QED  BY <1>1, <1>2 DEF IInv, HeirOK, GateNotLost
=============================================================================
