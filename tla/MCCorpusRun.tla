------------------------------ MODULE MCCorpusRun ------------------------------
(* Two sources: one whose dataset is smaller than its cap, one that is cut.   *)
EXTENDS CorpusRun

MCDigits[n \in Nat] ==
  IF n < Base THEN <<n>> ELSE Append(MCDigits[n \div Base], n % Base)

MCOffered == [s \in Sources |-> 2]
MCCap == [s \in Sources |-> IF s = 1 THEN 3 ELSE 1]
================================================================================
