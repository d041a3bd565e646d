------------------------------- MODULE DisChan --------------------------------
(***************************************************************************)
(* Channels of the Dis virtual machine: send, receive and alt              *)
(* (libinterp/xec.c and libinterp/alt.c), the sends and receives of kernel *)
(* processes (csend and crecv, emu/port/inferno.c) and the removal of a    *)
(* Prog that is killed or given an exception while it waits                *)
(* (emu/port/dis.c).  The owner of the machine runs each operation to its  *)
(* end, so each is one step; a kernel process that waits gives the machine *)
(* up, and can be interrupted before it has it again.                      *)
(*                                                                         *)
(* What a Prog waits for is written as an alt: a Prog in Psend or Precv    *)
(* waits for an alt of one channel, its p->chan.  An array of channels is  *)
(* listed among the receives.                                              *)
(***************************************************************************)
EXTENDS Naturals, FiniteSets, Sequences, Functions

CONSTANTS
  Progs,     \* Limbo threads
  Kprocs,    \* kernel processes, with a Prog of their own
  Chans,
  Buffered,  \* those made with a buffer
  TkChans,   \* those the window system sends to
  BufLen,    \* length of the buffer a channel has or gets
  Alts,      \* the alts of the program: sequences of channels to send, to receive
  MaxOps,    \* bound: operations of a Prog
  Nil

\* The constants that make sense.
DisChanAssumption ==
  /\ Progs \cap Kprocs = {} /\ Nil \notin Progs \cup Kprocs
  /\ Buffered \subseteq Chans /\ TkChans \subseteq Chans \ Buffered
  /\ Alts \subseteq [send : Seq(Chans \ TkChans), recv : Seq(Chans)]
  /\ BufLen \in [Chans -> Nat \ {0}] /\ MaxOps \in Nat

VARIABLES
  sendq, recvq,  \* c->send and c->recv
  buf,           \* c->buf, c->front, c->size
  state,         \* p->state, and how far a kernel process is
  alt,           \* what p waits for
  ops,           \* operations p has begun; <<p, ops[p]>> is what it sends
  got,           \* history: what p has received, and from which channel
  sent           \* history: the messages whose send has returned

queues == <<sendq, recvq>>
vars == <<queues, buf, state, alt, ops, got, sent>>

All == Progs \cup Kprocs
Only(c) == <<c>>
NoAlt == [send |-> <<>>, recv |-> <<>>]
NoBuf == [len |-> 0, front |-> 0, size |-> 0, data |-> <<>>]
NewBuf(c) == [len |-> BufLen[c], front |-> 0, size |-> 0,
              data |-> [i \in 0 .. BufLen[c] - 1 |-> Nil]]

Message == All \X (1 .. MaxOps)
Buffer(c) == [len : {0, BufLen[c]}, front : 0 .. BufLen[c] - 1, size : 0 .. BufLen[c],
              data : {<<>>} \cup [0 .. BufLen[c] - 1 -> Message \cup {Nil}]]

TypeOK ==
  /\ \A c \in Chans : /\ sendq[c] \in Seq(All) /\ recvq[c] \in Seq(All)
                      /\ buf[c] \in Buffer(c) /\ buf[c].size <= buf[c].len
  /\ \A p \in All : /\ state[p] \in {"Pready", "Psend", "Precv", "Palt", "Prelease",
                                      "Pexiting", "woken", "interrupted"}
                    /\ alt[p] \in [send : Seq(Chans), recv : Seq(Chans)]
                    /\ ops[p] \in 0 .. MaxOps
                    /\ got[p] \in Seq(Message \X Chans)
  /\ sent \subseteq Message

Init ==
  /\ sendq = [c \in Chans |-> <<>>] /\ recvq = sendq
  /\ buf = [c \in Chans |-> IF c \in Buffered THEN NewBuf(c) ELSE NoBuf]
  /\ state = [p \in All |-> "Pready"]
  /\ alt = [p \in All |-> NoAlt]
  /\ ops = [p \in All |-> 0]
  /\ got = [p \in All |-> <<>>]
  /\ sent = {}

-----------------------------------------------------------------------------
(* Buffers and queues *)

CANGET(c) == buf[c].size > 0
CANPUT(c) == buf[c].size < buf[c].len

\* A wrong variant: the ring wraps one slot late.
cputb_late(b, m) ==
  LET r == b.front + b.size
  IN [b EXCEPT !.size = @ + 1, !.data[IF r > b.len THEN r - b.len ELSE r] = m]

\* cputb and cgetb, the buffer being a ring.
cputb(b, m) ==
  LET r == b.front + b.size
  IN [b EXCEPT !.size = @ + 1, !.data[IF r >= b.len THEN r - b.len ELSE r] = m]
cgetb(b) ==
  [b EXCEPT !.size = @ - 1,
            !.front = IF b.front + 1 = b.len THEN 0 ELSE b.front + 1,
            !.data[b.front] = Nil]
First(b) == b.data[b.front]

\* A queue whose last two entries were removed at once has no node left.
Lost == <<Nil>>

\* cqdelp.
cqdelp(q, p) ==
  LET r == SelectSeq(q, LAMBDA x : x # p)
  IN IF r = <<>> /\ Len(q) > 1 THEN Lost ELSE r

\* cqadd for each channel of an alt, one way.
cqadd(q, p, cs) ==
  [c \in Chans |-> q[c] \o [i \in 1 .. Cardinality({j \in DOMAIN cs : cs[j] = c}) |-> p]]

\* altdone: p leaves the queues of its alt, one way.
altdone(q, p, cs) ==
  [c \in Chans |-> IF c \in Range(cs) THEN cqdelp(q[c], p) ELSE q[c]]

\* A wrong variant: it stays on the other queues of its alt.
Left_not(q, p, cs) == q

\* The partner p has been taken off its queue; one in an alt leaves the others.
Left(q, p, cs) == IF state[p] = "Palt" THEN altdone(q, p, cs) ELSE q

\* addrun: a kernel process is woken, to enter the machine.
addrun(p) == IF p \in Kprocs THEN "woken" ELSE "Pready"

Msg(p) == <<p, ops[p]>>
Begin(p) == state[p] = "Pready" /\ ops[p] < MaxOps /\ ops' = [ops EXCEPT ![p] = @ + 1]

-----------------------------------------------------------------------------
(* isend and irecv by p, which need not wait; p is in the alt a (NoAlt when it *)
(* is not), is on the queues sq and rq for it, and leaves them at the end.     *)

Send(p, c, a, sq, rq) ==
  LET m == <<p, ops[p] + 1>>
      q == Head(rq[c])
      rest == [rq EXCEPT ![c] = Tail(@)]
  IN
  /\ sent' = sent \cup {m}
  /\ IF rq[c] = <<>>
     THEN /\ buf' = [buf EXCEPT ![c] = cputb(@, m)]
          /\ sendq' = altdone(sq, p, a.send) /\ recvq' = altdone(rq, p, a.recv)
          /\ UNCHANGED <<state, alt, got>>
     ELSE /\ sendq' = altdone(Left(sq, q, alt[q].send), p, a.send)
          /\ recvq' = altdone(Left(rest, q, alt[q].recv), p, a.recv)
          /\ got' = [got EXCEPT ![q] = Append(@, <<m, c>>)]
          /\ state' = [state EXCEPT ![q] = addrun(q)]
          /\ alt' = [alt EXCEPT ![q] = NoAlt]
          /\ UNCHANGED buf

\* A wrong variant: the message of a waiting sender overtakes the buffer.
Recv_overtaking(p, c, a, sq, rq) ==
  LET q == Head(sq[c])
      rest == [sq EXCEPT ![c] = Tail(@)]
  IN IF sq[c] = <<>>
     THEN /\ got' = [got EXCEPT ![p] = Append(@, <<First(buf[c]), c>>)]
          /\ buf' = [buf EXCEPT ![c] = cgetb(@)]
          /\ sendq' = altdone(sq, p, a.send) /\ recvq' = altdone(rq, p, a.recv)
          /\ UNCHANGED <<state, alt, sent>>
     ELSE /\ sendq' = altdone(Left(rest, q, alt[q].send), p, a.send)
          /\ recvq' = altdone(Left(rq, q, alt[q].recv), p, a.recv)
          /\ got' = [got EXCEPT ![p] = Append(@, <<Msg(q), c>>)]
          /\ sent' = sent \cup {Msg(q)}
          /\ state' = [state EXCEPT ![q] = addrun(q)]
          /\ alt' = [alt EXCEPT ![q] = NoAlt]
          /\ UNCHANGED buf

Recv(p, c, a, sq, rq) ==
  LET q == Head(sq[c])
      rest == [sq EXCEPT ![c] = Tail(@)]
  IN IF sq[c] = <<>>
     THEN /\ got' = [got EXCEPT ![p] = Append(@, <<First(buf[c]), c>>)]
          /\ buf' = [buf EXCEPT ![c] = cgetb(@)]
          /\ sendq' = altdone(sq, p, a.send) /\ recvq' = altdone(rq, p, a.recv)
          /\ UNCHANGED <<state, alt, sent>>
     ELSE /\ sendq' = altdone(Left(rest, q, alt[q].send), p, a.send)
          /\ recvq' = altdone(Left(rq, q, alt[q].recv), p, a.recv)
          /\ IF buf[c].len > 0
             THEN /\ got' = [got EXCEPT ![p] = Append(@, <<First(buf[c]), c>>)]
                  /\ buf' = [buf EXCEPT ![c] = cputb(cgetb(@), Msg(q))]
             ELSE /\ got' = [got EXCEPT ![p] = Append(@, <<Msg(q), c>>)]
                  /\ UNCHANGED buf
          /\ sent' = sent \cup {Msg(q)}
          /\ state' = [state EXCEPT ![q] = addrun(q)]
          /\ alt' = [alt EXCEPT ![q] = NoAlt]

\* delrun and cqadd, or ccom: p waits in the queues of a.
Wait(p, s, a) ==
  /\ state' = [state EXCEPT ![p] = s]
  /\ alt' = [alt EXCEPT ![p] = a]
  /\ sendq' = cqadd(sendq, p, a.send)
  /\ recvq' = cqadd(recvq, p, a.recv)
  /\ UNCHANGED <<buf, got, sent>>

\* isend, by a Limbo thread; csend, by a kernel process.
isend(p, c) ==
  /\ Begin(p)
  /\ IF recvq[c] = <<>> /\ ~CANPUT(c)
     THEN Wait(p, IF p \in Kprocs THEN "Prelease" ELSE "Psend",
               [send |-> Only(c), recv |-> <<>>])
     ELSE Send(p, c, NoAlt, sendq, recvq)

\* irecv and crecv.
irecv(p, c) ==
  /\ Begin(p)
  /\ IF sendq[c] = <<>> /\ ~CANGET(c)
     THEN Wait(p, IF p \in Kprocs THEN "Prelease" ELSE "Precv",
               [send |-> <<>>, recv |-> Only(c)])
     ELSE Recv(p, c, NoAlt, sendq, recvq)

\* csendalt, by the window system: without room the channel gets a buffer, or the
\* message is dropped.
csendalt(p, c) ==
  /\ Begin(p)
  /\ CASE recvq[c] # <<>> \/ CANPUT(c) -> Send(p, c, NoAlt, sendq, recvq)
       [] recvq[c] = <<>> /\ buf[c].len = 0 ->
            /\ buf' = [buf EXCEPT ![c] = cputb(NewBuf(c), <<p, ops[p] + 1>>)]
            /\ sent' = sent \cup {<<p, ops[p] + 1>>}
            /\ UNCHANGED <<queues, state, alt, got>>
       [] OTHER -> UNCHANGED <<queues, buf, state, alt, got, sent>>

-----------------------------------------------------------------------------
(* xecalt *)

\* altrdy raises an exception for a send to oneself.
exAlt(p, a) ==
  LET rq == cqadd(recvq, p, a.recv)
  IN \E i \in DOMAIN a.send : rq[a.send[i]] # <<>> /\ Head(rq[a.send[i]]) = p

\* A wrong variant: buffers are not looked at.
altrdy_unbuffered(a) ==
  Cardinality({i \in DOMAIN a.send : recvq[a.send[i]] # <<>>})
  + Cardinality({i \in DOMAIN a.recv : sendq[a.recv[i]] # <<>>})

\* altrdy: the arms that can proceed, with p on none of the queues.
altrdy(a) ==
  Cardinality({i \in DOMAIN a.send : recvq[a.send[i]] # <<>> \/ CANPUT(a.send[i])})
  + Cardinality({i \in DOMAIN a.recv : sendq[a.recv[i]] # <<>> \/ CANGET(a.recv[i])})

\* altcomm and altdone: p, on all the queues of a, takes the which-th of the arms
\* that can proceed.
altcomm(p, a, which) ==
  LET sq == cqadd(sendq, p, a.send)
      rq == cqadd(recvq, p, a.recv)
      S == {i \in DOMAIN a.send : rq[a.send[i]] # <<>> \/ CANPUT(a.send[i])}
      R == {i \in DOMAIN a.recv : sq[a.recv[i]] # <<>> \/ CANGET(a.recv[i])}
      Before(i, T) == Cardinality({j \in T : j < i})
  IN \/ \E i \in S : Before(i, S) = which /\ Send(p, a.send[i], a, sq, rq)
     \/ \E i \in R : Cardinality(S) + Before(i, R) = which /\ Recv(p, a.recv[i], a, sq, rq)

\* An alt without a ready arm waits, or (nbalt, and an alt with an exception) does
\* nothing.
xecalt(p, a, block) ==
  /\ Begin(p)
  /\ CASE ~exAlt(p, a) /\ altrdy(a) > 0 ->
            \E which \in 0 .. altrdy(a) - 1 : altcomm(p, a, which)
       [] ~exAlt(p, a) /\ altrdy(a) = 0 /\ block -> Wait(p, "Palt", a)
       [] OTHER ->
            /\ sendq' = altdone(cqadd(sendq, p, a.send), p, a.send)
            /\ recvq' = altdone(cqadd(recvq, p, a.recv), p, a.recv)
            /\ UNCHANGED <<buf, state, alt, got, sent>>

-----------------------------------------------------------------------------
(* Leaving a wait otherwise *)

Leave(p, s) ==
  /\ sendq' = altdone(sendq, p, alt[p].send)
  /\ recvq' = altdone(recvq, p, alt[p].recv)
  /\ state' = [state EXCEPT ![p] = s]
  /\ alt' = [alt EXCEPT ![p] = NoAlt]
  /\ UNCHANGED <<buf, ops, got, sent>>

\* exprog: an exception ends the wait.
exprog(p) == state[p] \in {"Psend", "Precv", "Palt"} /\ Leave(p, "Pready")

\* killprog.
killprog(p) == state[p] \in {"Pready", "Psend", "Precv", "Palt"} /\ Leave(p, "Pexiting")

\* swiproc: the Sleep in cblock ends with an error; the process is still queued.
Interrupt(p) ==
  /\ state[p] = "Prelease"
  /\ state' = [state EXCEPT ![p] = "interrupted"]
  /\ UNCHANGED <<queues, buf, alt, ops, got, sent>>

\* ccom, with the machine acquired again: a process that still has its p->ptr was
\* not served and leaves the queue.
ccom(p) == state[p] \in {"woken", "interrupted"} /\ Leave(p, "Pready")

-----------------------------------------------------------------------------
Next ==
  \/ \E p \in All : \E c \in Chans : irecv(p, c)
  \/ \E p \in All : \E c \in Chans \ TkChans : isend(p, c)
  \/ \E p \in Kprocs : \E c \in TkChans : csendalt(p, c)
  \/ \E p \in Progs : \E a \in Alts : \E block \in BOOLEAN : xecalt(p, a, block)
  \/ \E p \in Progs : exprog(p) \/ killprog(p)
  \/ \E p \in Kprocs : Interrupt(p) \/ ccom(p)

Spec == Init /\ [][Next]_vars

-----------------------------------------------------------------------------
(* Properties *)

\* Nobody waits for what is there: a channel with a Prog waiting to receive has no
\* message and no sender waiting, and one with a sender waiting has a full buffer.
\* isend and irecv print "non-empty buffer" and "non-full buffer" otherwise.
NoMissedMeeting ==
  \A c \in Chans :
    /\ recvq[c] # <<>> => sendq[c] = <<>> /\ ~CANGET(c)
    /\ sendq[c] # <<>> => ~CANPUT(c)

\* Types; and the queues hold the Progs that wait, where they wait, and no others: whoever
\* ended an alt, a kill, an exception or an interrupted csend left no entry.
QueuesExact ==
  /\ TypeOK
  /\ \A p \in All, c \in Chans :
       /\ p \in Range(sendq[c]) <=> c \in Range(alt[p].send)
       /\ p \in Range(recvq[c]) <=> c \in Range(alt[p].recv)
       /\ c \in Range(alt[p].send) \cup Range(alt[p].recv) =>
            state[p] \notin {"Pready", "Pexiting", "woken"}

\* A message whose send returned was received by one Prog once or is in a buffer;
\* one whose send has not returned, or was abandoned, is nowhere.
ExactlyOnce ==
  \A p \in All : \A n \in 1 .. ops[p] :
    LET received == {<<q, i>> \in All \X (1 .. Cardinality(All) * MaxOps) :
                       i \in DOMAIN got[q] /\ got[q][i][1] = <<p, n>>}
        buffered == {<<c, i>> \in Chans \X (0 .. MaxOps * Cardinality(All)) :
                       i \in DOMAIN buf[c].data /\ buf[c].data[i] = <<p, n>>}
    IN Cardinality(received) + Cardinality(buffered)
         = IF <<p, n>> \in sent THEN 1 ELSE 0

\* What one Prog sends on a channel another receives from it in that order.
InOrder ==
  \A q \in All : \A i, j \in DOMAIN got[q] :
    LET x == got[q][i]  y == got[q][j]
    IN i < j /\ x[2] = y[2] /\ x[1][1] = y[1][1] => x[1][2] < y[1][2]
===============================================================================
