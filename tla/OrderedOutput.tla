----------------------------- MODULE OrderedOutput -----------------------------
(***************************************************************************)
(* What the merge promises about the order of its output, and nothing of   *)
(* how it does it: processed lines arrive in any order, each of them once, *)
(* and they are written in document sequence 0, 1, 2, ...                  *)
(* (docs/data-workflow/architecture/scheduler.mdx, "Apply coordinator").   *)
(* ApplyCoordinator implements this specification.                         *)
(***************************************************************************)
EXTENDS Naturals, Sequences

CONSTANT Seqs       \* the sequence numbers the reader gives to the raw lines

VARIABLES delivered, \* the lines whose processed result has arrived
          written    \* the lines that have been written, in writing order

vars == <<delivered, written>>

Init == delivered = {} /\ written = <<>>

\* Results of some lines arrive, none of them for the second time.
Deliver == \E L \in SUBSET (Seqs \ delivered) :
             /\ L # {}
             /\ delivered' = delivered \cup L
             /\ UNCHANGED written

\* The next line in document order is written, once its result is there.
Write == /\ Len(written) \in delivered
         /\ written' = Append(written, Len(written))
         /\ UNCHANGED delivered

Next == Deliver \/ Write

Spec == Init /\ [][Next]_vars

\* With the promise that what can be written is written in the end.
FairSpec == Spec /\ WF_vars(Write)
================================================================================
