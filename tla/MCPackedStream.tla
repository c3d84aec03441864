---------------------------- MODULE MCPackedStream ----------------------------
(* Two shards of every content up to six tokens, and of seven with at most   *)
(* two delimiters, which take a second chunk.                                *)
EXTENDS PackedStream, SequencesExt

MCContents ==
  BoundedSeq(BOOLEAN, 6)
    \cup {[i \in 1 .. 7 |-> i \in {d, e}] : d \in 0 .. 7, e \in 0 .. 7}
================================================================================
