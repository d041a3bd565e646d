------------------------------- MODULE MCQioIl -------------------------------
(***************************************************************************)
(* An I/O queue and an IL conversation side by side.  They share nothing:  *)
(* `subject' says which of the two runs.                                   *)
(***************************************************************************)
EXTENDS MCQio

CONSTANTS
    Caller, Listener, Starts, Defaultwin, Maxrq, Dlen, Balloc, MaxRexmit, Fast, Nqt,
    MaxMsg, InFlight

VARIABLES
    cb, net, drawn, rq, ilgot, lost,   \* the conversation
    subject

I == INSTANCE Il WITH got <- ilgot

ASSUME I!IlAssumption

ilvars == <<cb, net, drawn, rq, ilgot, lost>>

MCStarts == Caller :> {10} @@ Listener :> {20}
MCMaxMsg == Caller :> 2 @@ Listener :> 0

MCInit ==
    /\ subject \in {"qio", "il"}
    /\ Init /\ I!Init
    /\ subject = "il" => use = Plain

QioStep == subject = "qio" /\ Next /\ UNCHANGED ilvars

\* The conversation may come to an end.
IlStep ==
    /\ subject = "il"
    /\ I!Next \/ UNCHANGED ilvars
    /\ UNCHANGED <<vars, use>>

\* Fairness is that of Il's LiveSpec.
MCSpec ==
    /\ MCInit
    /\ [][(QioStep \/ IlStep) /\ UNCHANGED subject]_<<vars, use, ilvars, subject>>
    /\ \A e \in I!Ends : WF_ilvars(subject = "il" /\ (I!Retry(e) \/ I!Timeout(e)))

\* The datagrams of an IL connection enter the receive queue once each and in the order
\* they were written, whatever the network does to the packets: ilpullup skips none, save
\* those qpass had no room for.
InOrder == I!InOrder

\* No end of an IL connection waits for ever, even if the network delivers nothing: the
\* timer process retries, and gives the connection up after MaxRexmit retries.
Settles == \A e \in I!Ends : []<>~I!Waiting(e)
=============================================================================
