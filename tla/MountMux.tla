------------------------------ MODULE MountMux -------------------------------
(***************************************************************************)
(* The mount driver's multiplexing of 9P transactions on one connection,   *)
(* os/port/devmnt.c: mountio, mountmux, mntgate and the flush chains.      *)
(* Processes send requests with tags of their own; one of them at a time   *)
(* (m->rip) reads replies and hands them to their owners.  A process that  *)
(* a note interrupts sends a Tflush and goes on waiting, for its reply.    *)
(*                                                                         *)
(* An Mntrpc is identified with its tag, which it keeps for life.  A free  *)
(* one is on nobody's queue and its tag is nowhere on the connection, as   *)
(* TagSafe says, so it makes no difference which of them mntralloc finds:  *)
(* a process gets one of its own.  Each critical section of m is one       *)
(* action; sleep and wakeup are what Proc shows them to be.  The server is *)
(* external: it follows flush(5), and its messages are well formed.        *)
(***************************************************************************)
EXTENDS Naturals, Sequences, Functions

CONSTANTS
    Procs,     \* processes that make transactions
    Noted,     \* those that notes are posted to
    Few,       \* those that use a connection that can be lost
    MaxChain,  \* a bound of the model: notes come while a chain is shorter
    CrowdChain,  \* the same, when all of Procs use the connection
    Nil        \* the nil pointer

ASSUME MountMuxAssumption ==
    /\ Nil \notin Procs \cup Procs \X (1 .. MaxChain)
    /\ MaxChain \in Nat \ {0} /\ CrowdChain \in 1 .. MaxChain
    /\ Noted \subseteq Procs /\ Few \subseteq Procs

VARIABLES
    free,      \* Mntrpcs that are not in use
    chain,     \* p's Mntrpcs, linked by flushed: the last flush first, the request last
    done,      \* Mntrpcs with done set
    queue,     \* m->queue
    rip,       \* m->rip
    pc,        \* where each process is
    req, rep,  \* messages on the connection: to the server, from it
    srv,       \* messages the server has yet to answer
    answered,  \* requests in use that the server has answered
    hungup,    \* the connection is lost
    crowd      \* of a behaviour: all of Procs use the connection, and it stays

net == <<req, rep, srv, answered, hungup, crowd>>
vars == <<free, chain, done, queue, rip, pc, net>>

\* Mntrpcs, one for each place in each process's chain of flushes.
Tags == Procs \X (1 .. MaxChain)

Message == [tag : Tags, old : Tags \cup {Nil}]  \* old # Nil in a Tflush

TypeOK ==
    /\ free \subseteq Tags /\ done \subseteq Tags /\ answered \subseteq Tags
    /\ chain \in [Procs -> Seq(Tags)]
    /\ queue \in Seq(Tags)
    /\ rip \in Procs \cup {Nil}
    /\ pc \in [Procs -> {"idle", "link", "send", "gate", "sleep", "asleep", "woken", "read",
                         "intr", "flush", "finish", "fail"}]
    /\ req \in Seq(Message) /\ srv \subseteq Message /\ rep \in Seq(Tags)
    /\ hungup \in BOOLEAN /\ crowd \in BOOLEAN
    /\ \A p \in Procs : rip = p => pc[p] \in {"read", "intr", "finish", "fail"}

Init ==
    /\ free = Tags /\ done = Tags /\ answered = {}
    /\ chain = [p \in Procs |-> <<>>]
    /\ queue = <<>> /\ rip = Nil
    /\ pc = [p \in Procs |-> "idle"]
    /\ req = <<>> /\ rep = <<>> /\ srv = {} /\ hungup = FALSE
    /\ crowd \in BOOLEAN

Goto(p, l) == pc' = [pc EXCEPT ![p] = l]
MayNote(p) ==
    p \in Noted /\ Len(chain[p]) < IF crowd THEN CrowdChain ELSE MaxChain
Cur(p) == Head(chain[p])   \* mountio's r
Request(p) == chain[p][Len(chain[p])]
Owner(t) == t[1]

\* The place in m->queue of the first Mntrpc that is in S.
FirstOf(i, S) == queue[i] \in S /\ \A j \in 1 .. i - 1 : queue[j] \notin S

\* *l = q->list: the first entry that is t is unlinked.
Unlink(t) == \E i \in DOMAIN queue :
    FirstOf(i, {t}) /\ queue' = SubSeq(queue, 1, i - 1) \o SubSeq(queue, i + 1, Len(queue))

-----------------------------------------------------------------------------
\* mntralloc, with done cleared; p goes on to link it in.
Mntralloc(p) ==
    /\ LET t == <<p, Len(chain[p]) + 1>>
       IN /\ free' = free \ {t}
          /\ done' = done \ {t}
          /\ chain' = [chain EXCEPT ![p] = <<t>> \o @]
    /\ Goto(p, "link")
    /\ UNCHANGED <<queue, rip, net>>

\* A transaction begins (mntrdwr, mntclunk and so on).
Start(p) == pc[p] = "idle" /\ (crowd \/ p \in Few) /\ Mntralloc(p)

\* mountio under m: the Mntrpc goes to the head of m->queue.
Link(p) ==
    /\ pc[p] = "link"
    /\ queue' = <<Cur(p)>> \o queue
    /\ Goto(p, "send")
    /\ UNCHANGED <<free, chain, done, rip, net>>

\* mountio: convS2M, which finds that a request does not fit (a flush does), and bwrite
\* of the message.  A note can interrupt bwrite once the message is on its way; on a
\* lost connection it raises an error.
Send(p) ==
    /\ pc[p] = "send"
    /\ \/ /\ hungup \/ Len(chain[p]) = 1
          /\ Goto(p, "fail") /\ UNCHANGED req
       \/ /\ ~hungup
          /\ req' = Append(req, [tag |-> Cur(p),
                                 old |-> IF Len(chain[p]) = 1 THEN Nil ELSE Request(p)])
          /\ Goto(p, "gate") \/ (MayNote(p) /\ Goto(p, "intr"))
    /\ UNCHANGED <<free, chain, done, queue, rip, rep, srv, answered, hungup, crowd>>

\* mountio under m: become the reader, if there is none.
Gate(p) ==
    /\ pc[p] = "gate"
    /\ IF rip = Nil
       THEN rip' = p /\ Goto(p, "read")
       ELSE Goto(p, "sleep") /\ UNCHANGED rip
    /\ UNCHANGED <<free, chain, done, queue, net>>

\* mountio: sleep(r->z, rpcattn, r).
Sleep(p) ==
    /\ pc[p] = "sleep"
    /\ Goto(p, IF Cur(p) \in done \/ rip = Nil THEN "woken" ELSE "asleep")
    /\ UNCHANGED <<free, chain, done, queue, rip, net>>

\* mountio: after the sleep.
Woken(p) ==
    /\ pc[p] = "woken"
    /\ Goto(p, IF Cur(p) \in done THEN "finish" ELSE "gate")
    /\ UNCHANGED <<free, chain, done, queue, rip, net>>

\* A note: sleep, or the reader's bread, raises Eintr.
Note(p) ==
    /\ pc[p] \in {"asleep", "woken"} \/ (pc[p] = "read" /\ rep = <<>>)
    /\ MayNote(p)
    /\ Goto(p, "intr")
    /\ UNCHANGED <<free, chain, done, queue, rip, net>>

\* wakeup(q->z) of the owner of t.
Sleeping(t) == pc[Owner(t)] = "asleep"

MountmuxAs(p, t, match, wake) ==
    IF match
    THEN /\ Unlink(t)
         /\ done' = done \cup {t}
         /\ IF wake /\ t # Cur(p) /\ Sleeping(t) THEN Goto(Owner(t), "woken") ELSE UNCHANGED pc
    ELSE UNCHANGED <<queue, done, pc>>

\* Wrong variants: the owner of a reply is not woken; a reply to what has been
\* flushed is dropped.
MountmuxQuiet(p, t) == MountmuxAs(p, t, t \in Range(queue), FALSE)
MountmuxDrop(p, t) == MountmuxAs(p, t, t \in Range(queue) /\ t = Cur(Owner(t)), TRUE)

\* mountmux: the reply is for the Mntrpc of m->queue with its tag.
Mountmux(p, t) == MountmuxAs(p, t, t \in Range(queue), TRUE)

\* mountio: mntrpcread and mountmux, until r->done; an error on a lost connection.
\* (mntrpcread also fails on a message that is too long or that convM2S refuses, and
\* throws the reply away; the server does not send such a message.)
Read(p) ==
    /\ pc[p] = "read"
    /\ \/ Cur(p) \in done /\ Goto(p, "finish") /\ UNCHANGED <<queue, done, rep>>
       \/ /\ Cur(p) \notin done /\ rep # <<>>
          /\ rep' = Tail(rep)
          /\ Mountmux(p, Head(rep))
       \/ /\ Cur(p) \notin done /\ rep = <<>> /\ hungup
          /\ Goto(p, "fail") /\ UNCHANGED <<queue, done, rep>>
    /\ UNCHANGED <<free, chain, rip, req, srv, answered, hungup, crowd>>

\* mntgate: no reader any more; the first Mntrpc whose process is asleep gets a try.
\* p goes on at l.
Mntgate(p, l) ==
    LET waiting == {t \in Tags \ done : Sleeping(t)}
    IN /\ rip' = Nil
       /\ IF Range(queue) \cap waiting = {} THEN Goto(p, l)
          ELSE \E i \in DOMAIN queue :
                 /\ FirstOf(i, waiting)
                 /\ pc' = [pc EXCEPT ![p] = l, ![Owner(queue[i])] = "woken"]

\* mountio's error handler: if(m->rip == up) mntgate(m).
Intr(p) ==
    /\ pc[p] = "intr"
    /\ IF rip = p THEN Mntgate(p, "flush") ELSE Goto(p, "flush") /\ UNCHANGED rip
    /\ UNCHANGED <<free, chain, done, queue, net>>

\* A wrong variant: an interrupted process gives up its transaction.
FlushNot(p) == pc[p] = "flush" /\ Goto(p, "fail") /\ UNCHANGED <<free, chain, done, queue, rip, net>>

\* mountio's error handler: mntflushalloc, and round again to send the flush.
Flush(p) == pc[p] = "flush" /\ Mntralloc(p)

\* mntflushfree, one Mntrpc of the chain: mntqrm takes it off m->queue and it is
\* free again (the request by the caller's mntfree).
FreeOne(p) ==
    /\ rip # p
    /\ IF Cur(p) \in Range(queue) THEN Unlink(Cur(p)) ELSE UNCHANGED queue
    /\ done' = done \cup {Cur(p)}
    /\ free' = free \cup {Cur(p)}
    /\ answered' = answered \ {Cur(p)}
    /\ chain' = [chain EXCEPT ![p] = Tail(@)]
    /\ IF Len(chain[p]) = 1 THEN Goto(p, "idle") ELSE UNCHANGED pc
    /\ UNCHANGED <<rip, req, rep, srv, hungup, crowd>>

\* mountio returns, for r is done.
Finish(p) == pc[p] = "finish" /\ FreeOne(p)

\* mountio raises an error other than Eintr, without an answer.
Fail(p) == pc[p] = "fail" /\ FreeOne(p)

LeaveAs(p, leave) ==
    /\ pc[p] \in {"finish", "fail"} /\ rip = p
    /\ leave
    /\ UNCHANGED <<free, chain, done, queue, net>>

\* A wrong variant: the reader leaves without waking another.
LeaveQuiet(p) == LeaveAs(p, rip' = Nil /\ UNCHANGED pc)

\* mountio, before it returns or fails: the reader calls mntgate.
Leave(p) == LeaveAs(p, Mntgate(p, pc[p]))

-----------------------------------------------------------------------------
\* The server takes a message from the connection.
Receive ==
    /\ req # <<>>
    /\ req' = Tail(req)
    /\ srv' = srv \cup {Head(req)}
    /\ UNCHANGED <<free, chain, done, queue, rip, pc, rep, answered, hungup, crowd>>

\* The server answers a request, in any order.
Reply(t) ==
    /\ \E m \in srv :
         /\ m.tag = t /\ m.old = Nil
         /\ rep' = Append(rep, t)
         /\ answered' = answered \cup {t}
         /\ srv' = srv \ {m}
    /\ UNCHANGED <<free, chain, done, queue, rip, pc, req, hungup, crowd>>

\* The server answers a flush: the request, if unanswered, and the earlier flushes
\* of it are discarded.  The connection keeps the order of messages, so an earlier
\* flush is one that comes earlier in its process's chain.
Rflush(t) ==
    /\ \E m \in srv :
         /\ m.tag = t /\ m.old # Nil
         /\ rep' = Append(rep, t)
         /\ srv' = {x \in srv \ {m} : /\ x.tag # m.old
                                      /\ x.old = m.old => x.tag[2] > t[2]}
    /\ UNCHANGED <<free, chain, done, queue, rip, pc, req, answered, hungup, crowd>>

\* The connection is lost; replies that have arrived can still be read.
Hangup ==
    /\ ~crowd /\ ~hungup
    /\ hungup' = TRUE
    /\ req' = <<>> /\ srv' = {}
    /\ UNCHANGED <<free, chain, done, queue, rip, pc, rep, answered, crowd>>

Mountio(p) ==
    \/ Link(p) \/ Send(p) \/ Gate(p) \/ Sleep(p) \/ Woken(p) \/ Read(p)
    \/ Intr(p) \/ Flush(p) \/ Leave(p) \/ Finish(p) \/ Fail(p)

Next ==
    \/ \E p \in Procs : Start(p) \/ Mountio(p) \/ Note(p)
    \/ \E t \in Tags : Reply(t) \/ Rflush(t)
    \/ Receive \/ Hangup

Spec == Init /\ [][Next]_vars

\* Processes go on, and the server answers what it receives; notes and the loss of the
\* connection need not come.  (Only a process that notes are posted to sends flushes.)
LiveSpec ==
    /\ Spec /\ WF_vars(Receive)
    /\ \A p \in Procs : WF_vars(Mountio(p))
    /\ \A t \in Tags : t[2] = 1 \/ t[1] \in Noted => WF_vars(Reply(t) \/ Rflush(t))

-----------------------------------------------------------------------------
InFlight(t) == \/ \E i \in DOMAIN req : req[i].tag = t
               \/ \E m \in srv : m.tag = t
               \/ t \in Range(rep)

\* A tag is not used again while the server may still answer its last use: an
\* interrupted transaction waits for its Rflush.  m->queue holds the Mntrpcs that wait
\* for a reply, each once and none that is free: a chain of flushes leaves the queue
\* as a whole.  Types.
TagSafe ==
    /\ TypeOK
    /\ \A t \in free : ~InFlight(t) \/ hungup
    /\ IsInjective(queue)
    /\ \A t \in Range(queue) : t \notin free /\ t \notin done
    /\ \A p \in Procs : \A i \in DOMAIN chain[p] :
         chain[p][i] \notin done => chain[p][i] \in Range(queue) \/ (i = 1 /\ pc[p] = "link")

\* Only one process at a time reads the connection; and without a reader, a process
\* that sleeps is not left alone: another one is on its way to the gate.
GateNotLost ==
    /\ \A p \in Procs : pc[p] = "read" => rip = p
    /\ rip = Nil /\ (\E p \in Procs : pc[p] = "asleep")
       => \E p \in Procs : pc[p] \notin {"idle", "asleep", "finish", "fail"}

\* A reply that came before the Rflush counts: a transaction that ends on a live
\* connection has its reply if the server gave one.
ReplyHonoured == \A p \in Procs :
    pc[p] = "finish" /\ Request(p) \in answered => Request(p) \in done

\* A transaction ends, with a reply, a flush or an error: all of Procs on a connection
\* that stays; on one that is lost, when no more than two use it.  (With a third there,
\* the process that mntgate woke can be interrupted before it takes m->rip, fail to send
\* its flush and leave without passing the gate on; the third then sleeps for ever.)
TransactionEnds == \A p \in Procs : []<>(pc[p] = "idle")
=============================================================================
