---------------------------- MODULE MCDisSched -----------------------------
(***************************************************************************)
(* DisSched on a small instance.  The interpreters are one more when the   *)
(* collector closes files, so each behaviour either has the Extra Progs    *)
(* and a kernel process that may sleep in cblock, or has a collector that  *)
(* closes files: with all of it there are ten million states.              *)
(***************************************************************************)
EXTENDS DisSched, TLC

CONSTANT Extra      \* Progs that are not made where the collector closes files
VARIABLE closing    \* whether the collector finds files to close

MCvars == <<vars, closing>>
MCInit == Init /\ closing \in BOOLEAN /\ (closing => Extra \subseteq off)
MCNext ==
    /\ Next
    /\ IF closing THEN Extra \subseteq off' /\ addrun' = {}
       ELSE \A v \in Vms : type'[v] # "Interp" => pc'[v] = "gc"
    /\ UNCHANGED closing

\* The restrictions leave every process that is fair a step.
MCSpec == MCInit /\ [][MCNext]_MCvars /\ Fairness
=============================================================================
