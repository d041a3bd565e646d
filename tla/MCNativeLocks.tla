---------------------------- MODULE MCNativeLocks ----------------------------
EXTENDS NativeLocks, TLC
CONSTANTS a, b, c

\* All call eqlock; or one calls eqlock and one qlock; or the RWlock is in use.
EqlockOrMixed ==
    {[p \in QProcs |-> "eqlock"], (a :> "eqlock") @@ (b :> "qlock") @@ (c :> "none"),
     [p \in QProcs |-> "none"]}
AllQlock == {[p \in QProcs |-> "qlock"]}
=============================================================================
