------------------------------- MODULE MCProc --------------------------------
EXTENDS Proc, TLC
CONSTANTS sleeper, other, r1, r2
\* One process sleeps on two Rendezes; the other only competes for the processors.
SleeperOfSmall == (r1 :> sleeper) @@ (r2 :> sleeper)
=============================================================================
