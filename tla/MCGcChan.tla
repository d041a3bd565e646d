------------------------------- MODULE MCGcChan ------------------------------
(***************************************************************************)
(* The heap and the channels of the Dis virtual machine side by side.      *)
(* They share nothing here: `subject' says which of the two runs.          *)
(***************************************************************************)
EXTENDS Gc, TLC

CONSTANTS
    c1, c2, c3,
    Progs, Kprocs, Chans, Buffered, TkChans, BufLen, Alts, MaxOps, Nil

VARIABLES
    sendq, recvq, buf, state, alt, ops, got, sent,   \* the channels
    subject

C == INSTANCE DisChan

ASSUME C!DisChanAssumption

chanvars == <<sendq, recvq, buf, state, alt, ops, got, sent>>

\* Receives only, both ways, sends only, and to itself.
MCAlts ==
    { [send |-> <<>>, recv |-> <<c1, c3>>],
      [send |-> <<c1>>, recv |-> <<c2>>],
      [send |-> <<c2, c1>>, recv |-> <<>>],
      [send |-> <<c1>>, recv |-> <<c1>>] }

MCBufLen == c1 :> 1 @@ c2 :> 2 @@ c3 :> 1

MCInit == subject \in {"heap", "chan"} /\ Init /\ C!Init

GcStep == subject = "heap" /\ Next /\ UNCHANGED chanvars

\* The Progs may all have exited or wait for each other.
ChanStep == subject = "chan" /\ (C!Next \/ UNCHANGED chanvars) /\ UNCHANGED vars

\* Fairness is that of Gc's LiveSpec.
MCSpec ==
    /\ MCInit
    /\ [][(GcStep \/ ChanStep) /\ UNCHANGED subject]_<<vars, chanvars, subject>>
    /\ \A l \in Places : WF_vars(subject = "heap" /\ destroy(l))
    /\ SF_vars(subject = "heap" /\ rungc) /\ WF_vars(subject = "heap" /\ endpass)

\* Nobody waits for what is there: a channel with a Prog waiting to receive has no
\* message and no sender waiting, and one with a sender waiting has a full buffer.
\* (isend, irecv, xecalt)
NoMissedMeeting == C!NoMissedMeeting

\* The queues of the channels hold the Progs that wait, where they wait, and no others:
\* whoever ended an alt, a kill, an exception or an interrupted csend left no entry.
QueuesExact == C!QueuesExact

\* A message whose send returned was received by one Prog once or is in a buffer; one
\* whose send has not returned, or was abandoned, is nowhere.  (isend, irecv, csendalt)
ExactlyOnce == C!ExactlyOnce

\* What one Prog sends on a channel another receives from it in that order.
\* (isend, irecv, cputb, cgetb)
InOrder == C!InOrder
=============================================================================
