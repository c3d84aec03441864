---------------------------- MODULE ApplyCoordinator ----------------------------
(***************************************************************************)
(* The reorder buffer between the worker pools and the output file          *)
(* (src/indw/schedule/apply/coordinator.py).                                *)
(*                                                                          *)
(* The scheduler thread puts processed lines into a dictionary keyed by     *)
(* sequence number, in whatever order the workers finish; the apply thread  *)
(* takes out the line next_write_seq, applies it outside the lock and only  *)
(* then advances next_write_seq.  The condition variable is only a          *)
(* shortcut: every wait has a timeout, so the apply thread looks at the     *)
(* buffer again whether or not somebody notified it.                        *)
(*                                                                          *)
(* The scheduler thread is an environment here: it delivers a line once,    *)
(* and nothing after stop().  Module GraphMerge models the real caller and  *)
(* shows that it keeps to this.                                             *)
(*                                                                          *)
(* A "Variant" is not part of the specification: it is the definition after *)
(* it with a mistake in it, which the property README.md names must notice. *)
(***************************************************************************)
EXTENDS Integers, Sequences, FiniteSets

CONSTANTS
  Total,          \* the number of raw lines of this run
  ApplyMayRaise   \* whether apply_fn and the hooks after it may raise

ASSUME TotalAssumption == Total \in Nat
ASSUME RaiseAssumption == ApplyMayRaise \in BOOLEAN

Seqs == 0 .. Total - 1

VARIABLES
  lineResults,   \* keys of _line_results: lines that wait for their turn
  nextWriteSeq,  \* _next_write_seq
  stopSet,       \* _stop
  applyPc,       \* where the apply thread is in run_loop
  written,       \* history: the lines apply_fn has been completed for
  delivered      \* history: the lines that have been ingested

vars == <<lineResults, nextWriteSeq, stopSet, applyPc, written, delivered>>

Init ==
  /\ lineResults = {}
  /\ nextWriteSeq = 0
  /\ stopSet = FALSE
  /\ applyPc = "waiting"
  /\ written = <<>>
  /\ delivered = {}

--------------------------------------------------------------------------------
\* What other threads see of the buffer, each under one acquisition of the lock.

HeadReady == nextWriteSeq \in lineResults

\* pending_state: the gap is positive when the head is missing and a later
\* line is there.
OrderingGap == ~HeadReady /\ \E s \in lineResults : s > nextWriteSeq

CanAccept(maxCompleted) == Cardinality(lineResults) < maxCompleted

--------------------------------------------------------------------------------
\* The scheduler thread: ingest_lines and ingest_batch, then stop.

\* Variant: the new results replace the buffer.
IngestReplaces(L) ==
  /\ ~stopSet
  /\ L # {}
  /\ lineResults' = L
  /\ delivered' = delivered \cup L
  /\ UNCHANGED <<nextWriteSeq, stopSet, applyPc, written>>

Ingest(L) ==
  /\ ~stopSet
  /\ L # {}
  /\ lineResults' = lineResults \cup L
  /\ delivered' = delivered \cup L
  /\ UNCHANGED <<nextWriteSeq, stopSet, applyPc, written>>

Stop ==
  /\ ~stopSet
  /\ stopSet' = TRUE
  /\ UNCHANGED <<lineResults, nextWriteSeq, applyPc, written, delivered>>

--------------------------------------------------------------------------------
\* The apply thread.

\* Variant: the head is applied without looking for it in the buffer.
PopBlindly ==
  /\ applyPc = "waiting"
  /\ nextWriteSeq < Total
  /\ lineResults' = lineResults \ {nextWriteSeq}
  /\ applyPc' = "applying"
  /\ UNCHANGED <<nextWriteSeq, stopSet, written, delivered>>

Pop ==
  /\ applyPc = "waiting"
  /\ HeadReady
  /\ lineResults' = lineResults \ {nextWriteSeq}
  /\ applyPc' = "applying"
  /\ UNCHANGED <<nextWriteSeq, stopSet, written, delivered>>

Apply ==
  /\ applyPc = "applying"
  /\ written' = Append(written, nextWriteSeq)
  /\ applyPc' = "applied"
  /\ UNCHANGED <<lineResults, nextWriteSeq, stopSet, delivered>>

\* Variant: the exception is caught and the line is applied again.
RaiseAndRetry ==
  /\ ApplyMayRaise
  /\ applyPc = "applied"
  /\ applyPc' = "applying"
  /\ UNCHANGED <<lineResults, nextWriteSeq, stopSet, written, delivered>>

\* apply_fn raises, or a metrics or progress hook does after it: nothing
\* catches the exception and the thread is gone.
Raise ==
  /\ ApplyMayRaise
  /\ applyPc \in {"applying", "applied"}
  /\ applyPc' = "dead"
  /\ UNCHANGED <<lineResults, nextWriteSeq, stopSet, written, delivered>>

Advance ==
  /\ applyPc = "applied"
  /\ nextWriteSeq' = nextWriteSeq + 1
  /\ applyPc' = "waiting"
  /\ UNCHANGED <<lineResults, stopSet, written, delivered>>

\* Variants: the loop returns at a stop although the head is ready, or when it
\* has nothing to do.
ExitAtStop ==
  /\ applyPc = "waiting"
  /\ stopSet
  /\ applyPc' = "done"
  /\ UNCHANGED <<lineResults, nextWriteSeq, stopSet, written, delivered>>

ExitWhenIdle ==
  /\ applyPc = "waiting"
  /\ ~HeadReady
  /\ applyPc' = "done"
  /\ UNCHANGED <<lineResults, nextWriteSeq, stopSet, written, delivered>>

\* The stop event is looked at only when the head is missing.
Exit ==
  /\ applyPc = "waiting"
  /\ ~HeadReady
  /\ stopSet
  /\ applyPc' = "done"
  /\ UNCHANGED <<lineResults, nextWriteSeq, stopSet, written, delivered>>

Deliver == \E L \in SUBSET (Seqs \ delivered) : Ingest(L)

ApplyStep == Pop \/ Apply \/ Raise \/ Advance \/ Exit

Next == Deliver \/ Stop \/ ApplyStep

Spec == Init /\ [][Next]_vars

\* The apply thread is a running thread.
FairSpec == Spec /\ WF_vars(ApplyStep)
--------------------------------------------------------------------------------
TypeOK ==
  /\ lineResults \in SUBSET Seqs
  /\ nextWriteSeq \in 0 .. Total
  /\ stopSet \in BOOLEAN
  /\ applyPc \in {"waiting", "applying", "applied", "done", "dead"}
  /\ written \in Seq(Seqs)
  /\ delivered \in SUBSET Seqs

\* The popped line, while the apply thread works on it.
InHand == IF applyPc = "applying" THEN {nextWriteSeq} ELSE {}

WrittenSet == {written[i] : i \in 1 .. Len(written)}

(* The output is in document order without a hole or a repetition           *)
(* (run_loop; scheduler.mdx: "in strict document sequence").                *)
WrittenInOrder == \A i \in 1 .. Len(written) : written[i] = i - 1

(* Between the lock regions of ingest, pop and advance no result is lost    *)
(* and none is applied and still buffered: a delivered line is in exactly   *)
(* one of the buffer, the apply thread's hand and the output.  A thread     *)
(* killed by an exception takes the line in its hand with it, no other.     *)
NothingLost ==
  /\ lineResults \cap WrittenSet = {}
  /\ IF applyPc = "dead"
     THEN delivered \ (lineResults \cup WrittenSet) \subseteq {nextWriteSeq}
     ELSE /\ delivered = lineResults \cup InHand \cup WrittenSet
          /\ InHand \cap (lineResults \cup WrittenSet) = {}

(* stop() does not cut the output short: when the loop returns, every line  *)
(* delivered before the first missing one has been written.                 *)
DoneMeansDrained ==
  applyPc = "done" => /\ nextWriteSeq \notin delivered
                      /\ Len(written) = nextWriteSeq

Ordered == INSTANCE OrderedOutput

(* The coordinator implements the ordered output.                           *)
ImplementsOrderedOutput == Ordered!Spec

(* Unless an exception kills the apply thread, a line is written once it    *)
(* and all the lines before it have been delivered, stop() or not.          *)
EventuallyWritten ==
  [](applyPc # "dead") =>
    \A s \in Seqs : (0 .. s \subseteq delivered) ~> (Len(written) > s)
================================================================================
