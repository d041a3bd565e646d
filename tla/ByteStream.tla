------------------------------ MODULE ByteStream -----------------------------
(***************************************************************************)
(* What an I/O queue of os/port/qio.c promises, whatever blocks it keeps   *)
(* the data in: the bytes come out in the order they were put in, each at  *)
(* most once.  None is lost, except that a stream that may be flushed,     *)
(* closed or discarded from loses bytes at its front at any time, and in   *)
(* message mode the end of a message that is read in part is dropped.      *)
(*                                                                         *)
(* Bytes are numbered as they are put in, modulo N.                        *)
(***************************************************************************)
EXTENDS Naturals, Sequences

CONSTANT N  \* byte numbers are 0..N-1

VARIABLES
    s,     \* the bytes on their way
    next,  \* the number of the next byte to be put in
    got,   \* what the last read returned
    msg,   \* message mode: what is left of a message that is read is dropped
    lossy  \* the stream may be flushed, closed or discarded from

streamvars == <<s, next, got, msg, lossy>>

Numbered(from, n) == [i \in 1..n |-> (from + i - 1) % N]
Drop(q, n) == SubSeq(q, n + 1, Len(q))

StreamInit == s = <<>> /\ next = 0 /\ got = <<>> /\ msg \in BOOLEAN /\ lossy \in BOOLEAN

Put ==
    /\ \E n \in 0..Len(s') : s' = s \o Numbered(next, n) /\ next' = (next + n) % N
    /\ UNCHANGED got

Take ==
    /\ \E n \in 0..Len(s) :
         /\ got' = SubSeq(s, 1, n)
         /\ \E m \in n..Len(s) : s' = Drop(s, m) /\ (m = n \/ msg)
    /\ UNCHANGED next

Discard ==
    /\ lossy
    /\ \E n \in 0..Len(s) : s' = Drop(s, n)
    /\ UNCHANGED <<next, got>>

StreamNext == (Put \/ Take \/ Discard) /\ UNCHANGED <<msg, lossy>>
StreamSpec == StreamInit /\ [][StreamNext]_streamvars
=============================================================================
