----------------------------- MODULE MCSharedSink -----------------------------
(* SharedSink for TLC: a line of two rows, and the first row of the next;   *)
(* the sizes are in the .cfg.                                               *)
EXTENDS SharedSink
================================================================================
