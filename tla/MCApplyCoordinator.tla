--------------------------- MODULE MCApplyCoordinator ---------------------------
(***************************************************************************)
(* ApplyCoordinator on its own: every order of delivery of a few lines, a   *)
(* stop() and an exception at any moment.                                   *)
(***************************************************************************)
EXTENDS ApplyCoordinator

\* The one place where nothing more need happen: the apply thread is gone.
\* Any other state without a successor is a deadlock TLC reports.
Terminated == applyPc \in {"done", "dead"} /\ UNCHANGED vars

MCSpec == Init /\ [][Next \/ Terminated]_vars /\ WF_vars(ApplyStep)
================================================================================
