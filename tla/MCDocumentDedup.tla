--------------------------- MODULE MCDocumentDedup ---------------------------
(* DocumentDedup for TLC: four documents in three tasks, of two texts that  *)
(* are in one shard or in two, or, in the shards of the merge before, the   *)
(* other way round.                                                         *)
EXTENDS DocumentDedup
ThreeTasks == <<<<1, 2>>, <<3>>, <<4>>>>
TwoTexts == [1 .. 4 -> {0, 2}] \cup [1 .. 4 -> {0, 1}]
OneEarlier == {{}, {0}, {2}}
Symmetry == Permutations(Workers)
================================================================================
