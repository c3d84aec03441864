------------------------- MODULE MCInterleavedSources -------------------------
(* Two sources with the weights 2 and 1 and three lines each at most; the   *)
(* contents a, b and c are fit, x is not.                                   *)
EXTENDS InterleavedSources

CONSTANTS a, b, c, x, blank

MCFiles == {<<>>, <<a>>, <<b>>, <<a, b>>, <<b, x>>, <<blank, b>>, <<a, c, a>>}
MCWeight == [s \in Sources |-> IF s = 1 THEN 2 ELSE 1]
================================================================================
