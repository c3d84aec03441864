----------------------------- MODULE MCMergeRunLock -----------------------------
(***************************************************************************)
(* MergeRunLock with two sessions in one process, one of them with force,   *)
(* and two sessions in processes of their own, one of them forced as well.  *)
(***************************************************************************)
EXTENDS MergeRunLock, TLC

CONSTANTS s1, s2, s3, s4, p1, p2, p3

MCPid == s1 :> p1 @@ s2 :> p1 @@ s3 :> p2 @@ s4 :> p3
MCOwner == s1 :> "merge:a" @@ s2 :> "merge:b" @@ s3 :> "merge:a" @@ s4 :> "merge:b"

\* When every process has crashed and the lock has grown old.
Terminated == alive = {} /\ UNCHANGED vars

MCSpec == Init /\ [][Next \/ Terminated]_vars
================================================================================
