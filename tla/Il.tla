---------------------------------- MODULE Il ----------------------------------
(***************************************************************************)
(* IL, the reliable datagram protocol of os/ip/il.c, between a caller and  *)
(* a listener over an IP network that loses, duplicates, delays and        *)
(* reorders.  An endpoint is one Ilcb: connection set-up (Syncer, Syncee), *)
(* data with cumulative acknowledgements, the query and state messages     *)
(* that trigger retransmission, close, and the timer process ilackproc.    *)
(* A datagram is its id, and all have one length; time is a free choice    *)
(* (later() may hold at any tick), round-trip estimation and statistics    *)
(* are left out.  A packet, a write and a tick are each one step; the code *)
(* takes the conversation's lock for a packet but not for the other two.   *)
(*                                                                         *)
(* The listener's conversation for the caller's address exists from        *)
(* Fsnewcall to illocalclose; without one, packets reach the listening     *)
(* conversation itself.  So the listener's state is "Listening" exactly    *)
(* while it has no conversation.                                           *)
(***************************************************************************)
EXTENDS Integers, Sequences, FiniteSets, Functions

CONSTANTS
  Caller, Listener,   \* the two machines
  Starts,             \* Starts[e]: the start ids ilcbinit may draw at e
  Defaultwin,         \* receive window
  Maxrq,              \* limit of the receive queue, in bytes
  Dlen, Balloc,       \* bytes of data in a datagram, and BALLOC of its block
  MaxRexmit,          \* retransmissions before hangup
  Fast,               \* retransmissions that fasttimeout leaves to a call
  Nqt,                \* size of the query table
  MaxMsg,             \* bound: MaxMsg[e] datagrams e writes on a connection
  InFlight            \* bound: packets the network holds

Ends == {Caller, Listener}
Peer(e) == IF e = Caller THEN Listener ELSE Caller

\* The constants that make sense.
IlAssumption ==
  /\ Caller # Listener
  /\ Defaultwin \in Nat /\ Maxrq \in Nat /\ MaxRexmit \in Nat /\ Fast \in 0 .. MaxRexmit
  /\ Dlen \in Nat \ {0} /\ Balloc \in Nat /\ Dlen <= Balloc
  /\ Nqt \in Nat \ {0} /\ MaxMsg \in [Ends -> Nat] /\ InFlight \in Nat
  /\ Starts \in [Ends -> SUBSET (Nat \ {0})]

VARIABLES
  cb,       \* cb[e]: the Ilcb of endpoint e
  net,      \* packets the network may still deliver
  drawn,    \* drawn[e]: start ids used up by ilcbinit
  rq,       \* rq[e]: datagrams in the receive queue, not yet read
  got,      \* history: ids put in e's receive queue, in order
  lost      \* history: ids pulled up at e that qpass threw away

vars == <<cb, net, drawn, rq, got, lost>>

States == {"Closed", "Syncer", "Syncee", "Established", "Listening", "Closing"}

Packet(to, type, id, ack, spec) ==
  [to |-> to, iltype |-> type, ilid |-> id, ilack |-> ack, ilspec |-> spec]

\* The network keeps what is handed to it, up to InFlight packets; one that is full
\* loses it (Lose may make room first).
Transmit(ps) == net' = IF Cardinality(net \cup ps) <= InFlight THEN net \cup ps ELSE net

TypeOK ==
  /\ \A e \in Ends :
       /\ cb[e].state \in States /\ cb[e].unacked \in Seq(Nat)
       /\ \A x \in {cb[e].start, cb[e].next, cb[e].recvd, cb[e].rstart, cb[e].acksent} :
            x \in Nat
       /\ cb[e].outoforder \subseteq Nat /\ cb[e].rexmit \in 0 .. MaxRexmit + 1
       /\ cb[e].qt \in [0 .. Nqt -> Nat] /\ cb[e].qtx \in 1 .. Nqt
       /\ drawn[e] \subseteq Starts[e] /\ got[e] \in Seq(Nat) /\ lost[e] \subseteq Nat
       /\ rq[e] \in 0 .. Maxrq
  /\ Cardinality(net) <= InFlight

Ilcb(state, start, rstart) ==
  [state |-> state, start |-> start, next |-> start + 1, recvd |-> 0,
   rstart |-> rstart, acksent |-> 0, unacked |-> <<>>, outoforder |-> {},
   rexmit |-> 0, qt |-> [x \in 0 .. Nqt |-> 0], qtx |-> 1]

-----------------------------------------------------------------------------
(* Helpers on a control block *)

\* ilackto: forget the unacknowledged datagrams up to ackto.
ilackto(ic, ackto) ==
  LET k == CHOOSE n \in 0 .. Len(ic.unacked) :
             /\ \A i \in 1 .. n : ic.unacked[i] <= ackto
             /\ n < Len(ic.unacked) => ackto < ic.unacked[n + 1]
  IN  [ic EXCEPT !.unacked = SubSeq(@, k + 1, Len(@)),
                 !.rexmit = IF k > 0 THEN 0 ELSE @]

\* iloutoforder: keep a datagram inside the window; the list is sorted and
\* free of duplicates, hence a set.
iloutoforder(ic, id) ==
  IF id <= ic.recvd \/ id > ic.recvd + Defaultwin THEN ic
  ELSE [ic EXCEPT !.outoforder = @ \cup {id}]

\* A wrong variant: whatever is above recvd is passed up, gaps or not.
Run_gaps(ic) == {id \in ic.outoforder : id > ic.recvd}

\* The consecutive run that ilpullup takes off the out-of-order list.
Run(ic) == {id \in ic.outoforder : (ic.recvd + 1) .. id \subseteq ic.outoforder
                                   /\ id > ic.recvd}

\* ilpullup: advance recvd over the run, drop what is not above it.
ilpullup(ic) ==
  IF ic.state # "Established" THEN ic
  ELSE LET top == ic.recvd + Cardinality(Run(ic)) IN
       [ic EXCEPT !.recvd = top,
                  !.outoforder = {id \in @ : id > top}]

\* What ilpullup hands to qpass, and what qpass has room for: it counts the bytes that
\* the blocks before this one allocate.
Pulled(ic) == IF ic.state = "Established" THEN Run(ic) ELSE {}
Passed(e, ic) == {id \in Pulled(ic) : (rq[e] + (id - ic.recvd) - 1) * Balloc < Maxrq}

\* A wrong variant: the retransmission is not counted.
ilbackoff_uncounted(ic) == ic

\* ilbackoff counts a retransmission; above MaxRexmit the count is not told apart.
ilbackoff(ic) ==
  [ic EXCEPT !.rexmit = IF @ > MaxRexmit THEN @ ELSE @ + 1]

\* ilnextqt: the tag of the next query, remembering the highest id sent.
ilnextqt(ic) ==
  LET x == IF ic.qtx + 1 > Nqt THEN 1 ELSE ic.qtx + 1 IN
  [ic EXCEPT !.qtx = x, !.qt = [@ EXCEPT ![x] = ic.next - 1, ![0] = ic.next - 1]]

\* ilfreeq
ilfreeq(ic) == [ic EXCEPT !.unacked = <<>>, !.outoforder = {}]

\* illocalclose: the conversation leaves the hash table.  Nothing reads its
\* control block again before the next ilcbinit.
illocalclose(e) == Ilcb(IF e = Caller THEN "Closed" ELSE "Listening", 0, 0)

\* ilsendctl: the packet, and the acknowledgement it carries as sent.
CtlPacket(e, type, id, ack, spec) == Packet(Peer(e), type, id, ack, spec)
Acked(ic, ack) == [ic EXCEPT !.acksent = ack]

\* ilrexmit: the first unacknowledged datagram again, as a query.
ilrexmit(ic) ==
  IF ic.unacked = <<>> THEN ic ELSE ilbackoff(ilnextqt(ic))
Rexmitted(e, ic) ==
  IF ic.unacked = <<>> THEN {}
  ELSE {Packet(Peer(e), "dataquery", Head(ic.unacked), ic.recvd,
               ilnextqt(ic).qtx)}

-----------------------------------------------------------------------------
(* Steps *)

Init ==
  /\ cb = [e \in Ends |-> illocalclose(e)]
  /\ net = {}
  /\ drawn = [e \in Ends |-> {}]
  /\ rq = [e \in Ends |-> 0]
  /\ got = [e \in Ends |-> <<>>]
  /\ lost = [e \in Ends |-> {}]

Set(e, ic, ps) ==
  /\ cb' = [cb EXCEPT ![e] = ic]
  /\ Transmit(ps)

NoData == UNCHANGED <<rq, got, lost>>

\* Leaves everything but e's control block and the network alone.
Reply(e, ic, ps) == Set(e, ic, ps) /\ NoData /\ UNCHANGED drawn

Sorted(S) == CHOOSE s \in [1 .. Cardinality(S) -> S] :
               \A i, j \in 1 .. Cardinality(S) : i < j => s[i] < s[j]

\* ilpullup with the receive queue: ic is the block before it.
PullUp(e, ic, ps) ==
  /\ Set(e, ilpullup(ic), ps)
  /\ rq' = [rq EXCEPT ![e] = @ + Cardinality(Passed(e, ic))]
  /\ got' = [got EXCEPT ![e] = @ \o Sorted(Passed(e, ic))]
  /\ lost' = [lost EXCEPT ![e] = @ \cup (Pulled(ic) \ Passed(e, ic))]
  /\ UNCHANGED drawn

\* ilstart(IL_CONNECT): the caller dials, perhaps with fasttimeout, or finds no route.
ilstart(e) ==
  /\ e = Caller /\ cb[e].state = "Closed"
  /\ \E s \in Starts[e] \ drawn[e] :
       /\ drawn' = [drawn EXCEPT ![e] = @ \cup {s}]
       /\ \/ \E n \in {0, MaxRexmit - Fast} :
               Set(e, [Ilcb("Syncer", s, 0) EXCEPT !.rexmit = n], {CtlPacket(e, "sync", s, 0, 0)})
          \/ Set(e, illocalclose(e), {})
  /\ NoData

\* ilkick: a write, in any state that has a connection.
ilkick(e) ==
  LET ic == cb[e] IN
  /\ ic.state \in {"Syncer", "Syncee", "Established"}
  /\ ic.next <= ic.start + MaxMsg[e]
  /\ Reply(e, [ic EXCEPT !.next = @ + 1, !.acksent = ic.recvd,
                         !.unacked = Append(@, ic.next)],
              {Packet(Peer(e), "data", ic.next, ic.recvd, 0)})

\* The user reads a datagram from the receive queue.
qread(e) ==
  /\ rq[e] > 0
  /\ rq' = [rq EXCEPT ![e] = @ - 1]
  /\ UNCHANGED <<cb, net, drawn, got, lost>>

\* ilclose: the user closes; what is unacknowledged is dropped.
ilclose(e) ==
  LET ic == cb[e] IN
  /\ ic.state \in {"Syncer", "Syncee", "Established"}
  /\ Reply(e, ilfreeq(Acked([ic EXCEPT !.state = "Closing"], ic.recvd)),
              {CtlPacket(e, "close", ic.next, ic.recvd, 0)})

\* iladvise: an ICMP complaint ends a call that is being set up.
iladvise(e) ==
  /\ cb[e].state = "Syncer"
  /\ Reply(e, illocalclose(e), {})

\* The network loses a packet.  It also delivers one more than once: iliput
\* leaves the packet where it is.
Lose(m) ==
  /\ net' = net \ {m}
  /\ UNCHANGED <<cb, drawn, rq, got, lost>>

-----------------------------------------------------------------------------
(* iliput: a packet arrives.  One action per connection state. *)

Arrives(e, m) == m \in net /\ m.to = e

\* No conversation: a sync at the caller, anything else at the listener is
\* rejected.
ilreject(e, m) ==
  /\ Arrives(e, m)
  /\ \/ cb[e].state = "Closed" /\ m.iltype = "sync"
     \/ cb[e].state = "Listening" /\ m.iltype # "sync"
  /\ Reply(e, cb[e], {CtlPacket(e, "close", m.ilack, m.ilid, 0)})

\* A sync at the listener: Fsnewcall makes a conversation, or cannot.  The new
\* conversation processes the sync in state Syncee.
newcall(e, m) ==
  /\ Arrives(e, m) /\ m.iltype = "sync"
  /\ cb[e].state = "Listening"
  /\ \/ \E s \in Starts[e] \ drawn[e] :
          LET ic == Ilcb("Syncee", s, m.ilid) IN
          /\ drawn' = [drawn EXCEPT ![e] = @ \cup {s}]
          /\ rq' = [rq EXCEPT ![e] = 0]
          /\ UNCHANGED <<got, lost>>
          /\ IF m.ilack # 0 THEN Set(e, illocalclose(e), {})
             ELSE Set(e, Acked([ic EXCEPT !.recvd = m.ilid], m.ilid),
                         {CtlPacket(e, "sync", s, m.ilid, 0)})
     \/ Reply(e, cb[e], {CtlPacket(e, "close", m.ilack, m.ilid, 0)})

Syncer(e, m) ==
  LET ic == cb[e] IN
  /\ Arrives(e, m) /\ ic.state = "Syncer"
  /\ \/ /\ m.iltype = "sync" /\ m.ilack # ic.start
        /\ Reply(e, illocalclose(e), {})
     \/ /\ m.iltype = "sync" /\ m.ilack = ic.start
        /\ PullUp(e, [ic EXCEPT !.state = "Established", !.recvd = m.ilid,
                                !.rstart = m.ilid, !.rexmit = 0,
                                !.acksent = m.ilid],
                     {CtlPacket(e, "ack", ic.next, m.ilid, 0)})
     \/ /\ m.iltype = "close" /\ m.ilack = ic.start
        /\ Reply(e, illocalclose(e), {})

\* A datagram in state Established, also reached from Syncee.  qlen counts the bytes
\* of data in the receive queue.
Data(e, ic, m) ==
  /\ m.iltype = "data"
  /\ IF rq[e] * Dlen >= Maxrq THEN Reply(e, ic, {})
     ELSE PullUp(e, iloutoforder(ilackto(ic, m.ilack), m.ilid), {})

Syncee(e, m) ==
  LET ic == cb[e]
      up == [ic EXCEPT !.state = "Established", !.rexmit = 0]
  IN
  /\ Arrives(e, m) /\ ic.state = "Syncee"
  /\ \/ /\ m.iltype = "sync"
        /\ IF m.ilid # ic.rstart \/ m.ilack # 0
           THEN Reply(e, illocalclose(e), {})
           ELSE Reply(e, Acked([ic EXCEPT !.recvd = m.ilid], m.ilid),
                         {CtlPacket(e, "sync", ic.start, m.ilid, 0)})
     \/ /\ m.iltype = "ack" /\ m.ilack = ic.start
        /\ PullUp(e, up, {})
     \/ /\ m.ilack = ic.start
        /\ Data(e, up, m)
     \/ /\ m.iltype = "close" /\ m.ilack = ic.start
        /\ Reply(e, illocalclose(e), {})

Established(e, m) ==
  LET ic == cb[e]
      to == ilackto(ic, m.ilack)
  IN
  /\ Arrives(e, m) /\ ic.state = "Established"
  /\ \/ /\ m.iltype = "sync"
        /\ IF m.ilid # ic.rstart THEN Reply(e, illocalclose(e), {})
           ELSE Reply(e, Acked(ic, ic.rstart),
                         {CtlPacket(e, "ack", ic.next, ic.rstart, 0)})
     \/ Data(e, ic, m)
     \/ /\ m.iltype = "dataquery"
        /\ LET in == iloutoforder(to, m.ilid)
               top == ilpullup(in).recvd
           IN  PullUp(e, Acked(in, top),
                         {CtlPacket(e, "state", ic.next, top, m.ilspec)})
     \/ /\ m.iltype = "ack"
        /\ Reply(e, to, {})
     \/ /\ m.iltype = "query"
        /\ Reply(e, Acked(to, to.recvd),
                    {CtlPacket(e, "state", to.next, to.recvd, m.ilspec)})
     \/ /\ m.iltype = "state"
        /\ IF to.qt[IF m.ilspec > Nqt THEN 0 ELSE m.ilspec] > m.ilack
           THEN Reply(e, ilrexmit(to), Rexmitted(e, to))
           ELSE Reply(e, to, {})
     \/ /\ m.iltype = "close" /\ m.ilack \in ic.start .. ic.next
        /\ Reply(e, ilfreeq(Acked([ic EXCEPT !.state = "Closing",
                                             !.recvd = m.ilid], m.ilid)),
                    {CtlPacket(e, "close", ic.next, m.ilid, 0)})

Closing(e, m) ==
  LET ic == Acked([cb[e] EXCEPT !.recvd = m.ilid], m.ilid) IN
  /\ Arrives(e, m) /\ cb[e].state = "Closing" /\ m.iltype = "close"
  /\ Reply(e, IF m.ilack = ic.next THEN illocalclose(e) ELSE ic,
              {CtlPacket(e, "close", ic.next, m.ilid, 0)})

iliput(e, m) ==
  \/ ilreject(e, m) \/ newcall(e, m) \/ Syncer(e, m) \/ Syncee(e, m)
  \/ Established(e, m) \/ Closing(e, m)

-----------------------------------------------------------------------------
(* ilackproc: one tick of the timer process for e. *)

\* Set-up and close are retransmitted until MaxRexmit is exceeded.
Retry(e) ==
  LET ic == cb[e]
      p == IF ic.state = "Closing" THEN CtlPacket(e, "close", ic.next, ic.recvd, 0)
           ELSE CtlPacket(e, "sync", ic.start, ic.recvd, 0)
  IN
  /\ ic.state \in {"Closing", "Syncer", "Syncee"}
  /\ IF ic.rexmit > MaxRexmit THEN Reply(e, illocalclose(e), {})
     ELSE Reply(e, ilbackoff(Acked(ic, ic.recvd)), {p})

\* In state Established.  A tick at which several of its times have passed is
\* these actions one after the other: an acknowledgement is due,
Delayed(e) ==
  LET ic == cb[e] IN
  /\ ic.state = "Established" /\ ic.recvd # ic.acksent
  /\ Reply(e, Acked(ic, ic.recvd), {CtlPacket(e, "ack", ic.next, ic.recvd, 0)})

\* a query is due, to an idle or a silent peer,
Query(ic) == Acked(ilnextqt(ic), ic.recvd)
Queries(e, ic) == {CtlPacket(e, "query", ic.next, ic.recvd, ilnextqt(ic).qtx)}

Idle(e) ==
  /\ cb[e].state = "Established"
  /\ Reply(e, Query(cb[e]), Queries(e, cb[e]))

\* nothing came for DeathTime,
Death(e) ==
  /\ cb[e].state = "Established"
  /\ Reply(e, illocalclose(e), {})

\* something is unacknowledged for too long.
Timeout(e) ==
  LET ic == cb[e] IN
  /\ ic.state = "Established" /\ ic.unacked # <<>>
  /\ IF ic.rexmit > MaxRexmit THEN Reply(e, illocalclose(e), {})
     ELSE Reply(e, ilbackoff(Query(ic)), Queries(e, ic))

ilackproc(e) == Retry(e) \/ Delayed(e) \/ Idle(e) \/ Death(e) \/ Timeout(e)

Next ==
  \/ \E e \in Ends :
       \/ ilstart(e) \/ ilkick(e) \/ qread(e) \/ ilclose(e) \/ iladvise(e)
       \/ \E m \in net : iliput(e, m)
       \/ ilackproc(e)
  \/ \E m \in net : Lose(m)

Spec == Init /\ [][Next]_vars

\* ilackproc never stops ticking, and every timeout it waits for is finite.
LiveSpec ==
  /\ Spec
  /\ \A e \in Ends : WF_vars(Retry(e) \/ Timeout(e))

-----------------------------------------------------------------------------
(* Properties *)

Written(e, s) == (s + 1) .. (s + MaxMsg[e])
Took(e) == Range(got[e]) \cup lost[e]

\* Types; and the datagrams of a connection enter the receive queue once each and in the
\* order they were written, whatever the network does to the packets: ilpullup
\* skips none, save those qpass had no room for.
InOrder ==
  TypeOK /\ \A e \in Ends : \A s \in drawn[Peer(e)] :
    LET g == SelectSeq(got[e], LAMBDA id : id \in Written(Peer(e), s))
        took == Took(e) \cap Written(Peer(e), s)
    IN  /\ \A i \in 1 .. Len(g) - 1 : g[i] < g[i + 1]
        /\ took = (s + 1) .. (s + Cardinality(took))
        /\ Range(g) \cap lost[e] = {}

\* An end waits for its peer while a connection is being set up or closed and
\* while a datagram it wrote is not acknowledged.
Waiting(e) ==
  \/ cb[e].state \in {"Syncer", "Syncee", "Closing"}
  \/ cb[e].state = "Established" /\ cb[e].unacked # <<>>

\* No wait lasts for ever, even if the network delivers nothing: the timer
\* process retries, and gives the connection up after MaxRexmit retries.
Settles == \A e \in Ends : []<>~Waiting(e)

\* IL delivers datagrams reliably: one that its writer was told has arrived, and so
\* will not send again, is in the receive queue of the other end or was read there.
Reliable ==
  \A e \in Ends : cb[e].state = "Established" =>
    \A id \in (cb[e].start + 1) .. (cb[e].next - 1) :
      id \in Range(cb[e].unacked) \/ id \in Range(got[Peer(e)])
=============================================================================
