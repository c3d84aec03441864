------------------------------ MODULE MCGraphMerge ------------------------------
(***************************************************************************)
(* GraphMerge on a few lines.  The queues and limits are small enough for   *)
(* each of them to be reached.                                              *)
(***************************************************************************)
EXTENDS GraphMerge, TLC

MCSlotLimit == "normal" :> 1 @@ "large" :> 1 @@ "huge" :> 0

\* The run is over, and its threads with it.
Terminated == pc = "ended" /\ UNCHANGED vars

MCSpec == Init /\ [][Next \/ Terminated]_vars
MCFairSpec == MCSpec /\ Fairness
================================================================================
