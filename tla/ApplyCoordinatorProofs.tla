------------------------- MODULE ApplyCoordinatorProofs -------------------------
(***************************************************************************)
(* Proofs about the apply coordinator, for every number of lines and        *)
(* whether or not the apply thread may die of an exception.                 *)
(***************************************************************************)
EXTENDS ApplyCoordinator, TLAPS

InFlight == applyPc \in {"applying", "applied", "dead"}

\* next_write_seq lags the output by the one line applied but not yet counted.
HeadExact ==
  /\ applyPc \in {"waiting", "applying", "done"} => Len(written) = nextWriteSeq
  /\ applyPc = "applied" => Len(written) = nextWriteSeq + 1
  /\ applyPc = "dead" => Len(written) \in {nextWriteSeq, nextWriteSeq + 1}

\* The buffer holds lines from next_write_seq on, and without that line itself
\* while the apply thread has it.
BufferAhead ==
  /\ \A s \in lineResults : s >= nextWriteSeq
  /\ InFlight => nextWriteSeq \in Seqs /\ nextWriteSeq \notin lineResults

\* The line the apply thread has taken, or had taken when it died.
Taken == IF InFlight THEN {nextWriteSeq} ELSE {}

Accounted == delivered = lineResults \cup 0 .. Len(written) - 1 \cup Taken

DoneStopped == applyPc = "done" => stopSet /\ nextWriteSeq \notin lineResults

\* The inductive invariant.
IInv ==
  TypeOK /\ WrittenInOrder /\ HeadExact /\ BufferAhead /\ Accounted /\ DoneStopped

LEMMA InitIInv == Init => IInv
<1> SUFFICES ASSUME Init PROVE IInv
  OBVIOUS
<1> USE TotalAssumption DEF Init
<1>1. Len(written) = 0 /\ written \in Seq(Seqs)
  OBVIOUS
<1>2. 0 \in 0 .. Total
  OBVIOUS
<1>3. TypeOK /\ WrittenInOrder /\ HeadExact
  <2>1. TypeOK
    BY <1>1, <1>2 DEF TypeOK
  <2>2. WrittenInOrder /\ HeadExact
    BY <1>1 DEF WrittenInOrder, HeadExact
  <2>3. QED  BY <2>1, <2>2
<1>4. BufferAhead /\ DoneStopped
  BY DEF BufferAhead, DoneStopped, InFlight
<1>5. Accounted
  <2>1. 0 .. Len(written) - 1 = {}
    BY <1>1
  <2>2. QED  BY <2>1 DEF Accounted, Taken, InFlight
<1>6. QED  BY <1>3, <1>4, <1>5 DEF IInv

\* Appending the next number to an output in order leaves it in order.
LEMMA AppendInOrder ==
  ASSUME WrittenInOrder, written \in Seq(Seqs), nextWriteSeq \in Seqs,
         Len(written) = nextWriteSeq
  PROVE  LET w == Append(written, nextWriteSeq)
         IN /\ w \in Seq(Seqs)
            /\ Len(w) = nextWriteSeq + 1
            /\ \A i \in 1 .. Len(w) : w[i] = i - 1
<1>1. Append(written, nextWriteSeq) \in Seq(Seqs)
  OBVIOUS
<1>2. Len(Append(written, nextWriteSeq)) = nextWriteSeq + 1
  OBVIOUS
<1>3. ASSUME NEW i \in 1 .. nextWriteSeq + 1
      PROVE  Append(written, nextWriteSeq)[i] = i - 1
  <2>1. nextWriteSeq \in Nat
    BY TotalAssumption DEF Seqs
  <2>2. CASE i = nextWriteSeq + 1
    BY <2>1, <2>2
  <2>3. CASE i \in 1 .. nextWriteSeq
    BY <2>1, <2>3 DEF WrittenInOrder
  <2>4. QED  BY <2>1, <2>2, <2>3
<1>4. QED  BY <1>1, <1>2, <1>3

LEMMA NextIInv == IInv /\ [Next]_vars => IInv'
<1> SUFFICES ASSUME IInv, [Next]_vars PROVE IInv'
  OBVIOUS
<1> USE TotalAssumption
<1> USE DEF IInv
<1>1. ASSUME NEW L \in SUBSET (Seqs \ delivered), Ingest(L)
      PROVE  IInv'
  <2>1. (TypeOK /\ WrittenInOrder /\ HeadExact)'
    BY <1>1 DEF Ingest, TypeOK, WrittenInOrder, HeadExact
  <2>2. BufferAhead'
    <3>1. 0 .. Len(written) - 1 \cup Taken \subseteq delivered
      BY DEF Accounted
    <3>2. \A s \in L : s \in Seqs /\ s \notin 0 .. Len(written) - 1 /\ s \notin Taken
      BY <1>1, <3>1
    <3>3. nextWriteSeq <= Len(written)
      BY DEF HeadExact, TypeOK
    <3>4. \A s \in L : s >= nextWriteSeq
      BY <3>2, <3>3 DEF TypeOK, Seqs
    <3>5. QED  BY <1>1, <3>2, <3>4 DEF Ingest, BufferAhead, Taken, InFlight
  <2>3. Accounted'
    BY <1>1 DEF Ingest, Accounted, Taken, InFlight
  <2>4. DoneStopped'
    BY <1>1 DEF Ingest, DoneStopped
  <2>5. QED  BY <2>1, <2>2, <2>3, <2>4
<1>2. CASE Stop
  BY <1>2 DEF Stop, TypeOK, WrittenInOrder, HeadExact, BufferAhead, Accounted,
              DoneStopped, Taken, InFlight
<1>3. CASE Pop
  <2>1. (TypeOK /\ WrittenInOrder /\ HeadExact /\ DoneStopped)'
    BY <1>3 DEF Pop, HeadReady, TypeOK, WrittenInOrder, HeadExact, DoneStopped
  <2>2. BufferAhead'
    BY <1>3 DEF Pop, HeadReady, TypeOK, BufferAhead, InFlight
  <2>3. Accounted'
    BY <1>3 DEF Pop, HeadReady, Accounted, Taken, InFlight
  <2>4. QED  BY <2>1, <2>2, <2>3
<1>4. CASE Apply
  <2>1. /\ nextWriteSeq \in Seqs /\ Len(written) = nextWriteSeq
        /\ written \in Seq(Seqs) /\ WrittenInOrder
    BY <1>4 DEF Apply, TypeOK, HeadExact, BufferAhead, InFlight
  <2>2. /\ written' \in Seq(Seqs) /\ Len(written') = nextWriteSeq + 1
        /\ WrittenInOrder'
    BY <1>4, <2>1, AppendInOrder DEF Apply, WrittenInOrder
  <2>3. (TypeOK /\ HeadExact /\ BufferAhead /\ DoneStopped)'
    BY <1>4, <2>1, <2>2 DEF Apply, TypeOK, HeadExact, BufferAhead, DoneStopped, InFlight
  <2>4. Accounted'
    <3>1. 0 .. Len(written') - 1 = (0 .. Len(written) - 1) \cup {nextWriteSeq}
      BY <2>1, <2>2 DEF Seqs
    <3>2. QED  BY <1>4, <3>1 DEF Apply, Accounted, Taken, InFlight
  <2>5. QED  BY <2>2, <2>3, <2>4
<1>5. CASE Raise
  <2>1. (TypeOK /\ WrittenInOrder /\ HeadExact /\ BufferAhead /\ DoneStopped)'
    BY <1>5 DEF Raise, TypeOK, WrittenInOrder, HeadExact, BufferAhead, DoneStopped, InFlight
  <2>2. Accounted'
    BY <1>5 DEF Raise, Accounted, Taken, InFlight
  <2>3. QED  BY <2>1, <2>2
<1>6. CASE Advance
  <2>1. nextWriteSeq \in Seqs /\ nextWriteSeq \notin lineResults
    BY <1>6 DEF Advance, BufferAhead, InFlight
  <2>2. (TypeOK /\ WrittenInOrder /\ HeadExact /\ DoneStopped)'
    BY <1>6, <2>1 DEF Advance, TypeOK, WrittenInOrder, HeadExact, DoneStopped, Seqs
  <2>3. BufferAhead'
    BY <1>6, <2>1 DEF Advance, TypeOK, BufferAhead, InFlight, Seqs
  <2>4. nextWriteSeq \in 0 .. Len(written) - 1
    BY <1>6, <2>1 DEF Advance, HeadExact, Seqs
  <2>5. Accounted'
    BY <1>6, <2>4 DEF Advance, Accounted, Taken, InFlight
  <2>6. QED  BY <2>2, <2>3, <2>5
<1>7. CASE Exit
  BY <1>7 DEF Exit, HeadReady, TypeOK, WrittenInOrder, HeadExact, BufferAhead,
              Accounted, DoneStopped, Taken, InFlight
<1>8. CASE UNCHANGED vars
  BY <1>8 DEF vars, TypeOK, WrittenInOrder, HeadExact, BufferAhead, Accounted,
              DoneStopped, Taken, InFlight
<1>9. QED
  BY <1>1, <1>2, <1>3, <1>4, <1>5, <1>6, <1>7, <1>8 DEF Next, Deliver, ApplyStep

LEMMA Invariance == Spec => []IInv
<1>1. QED  BY InitIInv, NextIInv, PTL DEF Spec

--------------------------------------------------------------------------------
(* The state of the coordinator always has the types it is declared with.   *)
THEOREM TypeCorrect == Spec => []TypeOK
<1>1. IInv => TypeOK
  BY DEF IInv
<1>2. QED  BY <1>1, Invariance, PTL

(* run_loop writes 0, 1, 2, ... whatever the order of the deliveries.       *)
THEOREM OutputInOrder == Spec => []WrittenInOrder
<1>1. IInv => WrittenInOrder
  BY DEF IInv
<1>2. QED  BY <1>1, Invariance, PTL

\* The lines of an output in order are the numbers below its length.
LEMMA WrittenSetIsPrefix ==
  ASSUME WrittenInOrder, written \in Seq(Seqs)
  PROVE  WrittenSet = 0 .. Len(written) - 1
<1>1. Len(written) \in Nat
  OBVIOUS
<1>2. \A i \in 1 .. Len(written) : written[i] \in 0 .. Len(written) - 1
  BY <1>1 DEF WrittenInOrder
<1>3. \A s \in 0 .. Len(written) - 1 :
        s + 1 \in 1 .. Len(written) /\ written[s + 1] = s
  BY <1>1 DEF WrittenInOrder
<1>4. QED  BY <1>2, <1>3 DEF WrittenSet

(* No delivered line disappears between ingest, pop and advance, and none   *)
(* is both written and still waiting.                                       *)
THEOREM NoLineLost == Spec => []NothingLost
<1>1. IInv => NothingLost
  <2> SUFFICES ASSUME IInv PROVE NothingLost
    OBVIOUS
  <2> USE TotalAssumption
  <2> DEFINE W == 0 .. Len(written) - 1
  <2>1. WrittenSet = W
    BY WrittenSetIsPrefix DEF IInv, TypeOK
  <2>2. Len(written) \in Nat /\ nextWriteSeq \in Nat
    BY DEF IInv, TypeOK
  <2>3. lineResults \cap W = {}
    <3>1. ASSUME NEW s \in lineResults PROVE s \notin W
      <4>1. s \in Nat /\ s >= nextWriteSeq /\ (InFlight => s # nextWriteSeq)
        BY DEF IInv, TypeOK, BufferAhead, Seqs
      <4>2. CASE applyPc \in {"waiting", "done"}
        BY <2>2, <4>1, <4>2 DEF IInv, HeadExact
      <4>3. CASE applyPc \in {"applying", "applied", "dead"}
        BY <2>2, <4>1, <4>3 DEF IInv, HeadExact, InFlight
      <4>4. QED  BY <4>2, <4>3 DEF IInv, TypeOK
    <3>2. QED  BY <3>1
  <2>4. delivered = lineResults \cup W \cup Taken
    BY DEF IInv, Accounted
  <2>5. CASE applyPc = "dead"
    BY <2>1, <2>3, <2>4, <2>5 DEF NothingLost, Taken, InFlight
  <2>6. CASE applyPc = "applying"
    <3>1. Taken = InHand /\ InHand = {nextWriteSeq}
      BY <2>6 DEF Taken, InHand, InFlight
    <3>2. nextWriteSeq \notin lineResults /\ nextWriteSeq \notin W
      BY <2>2, <2>6 DEF IInv, BufferAhead, HeadExact, InFlight
    <3>3. QED  BY <2>1, <2>3, <2>4, <2>6, <3>1, <3>2 DEF NothingLost
  <2>7. CASE applyPc \in {"waiting", "applied", "done"}
    <3>1. InHand = {} /\ Taken \subseteq W
      BY <2>2, <2>7 DEF Taken, InHand, InFlight, IInv, HeadExact
    <3>2. QED  BY <2>1, <2>3, <2>4, <2>7, <3>1 DEF NothingLost
  <2>8. QED  BY <2>5, <2>6, <2>7 DEF IInv, TypeOK
<1>2. QED  BY <1>1, Invariance, PTL

(* When run_loop returns after stop(), everything that could be written has *)
(* been.                                                                    *)
THEOREM StopDrains == Spec => []DoneMeansDrained
<1>1. IInv => DoneMeansDrained
  <2> SUFFICES ASSUME IInv, applyPc = "done"
               PROVE  nextWriteSeq \notin delivered /\ Len(written) = nextWriteSeq
    BY DEF DoneMeansDrained
  <2>1. Len(written) = nextWriteSeq /\ Taken = {}
    BY DEF IInv, HeadExact, Taken, InFlight
  <2>2. nextWriteSeq \notin 0 .. Len(written) - 1
    BY <2>1 DEF IInv, TypeOK
  <2>3. nextWriteSeq \notin lineResults
    BY DEF IInv, DoneStopped
  <2>4. QED  BY <2>1, <2>2, <2>3 DEF IInv, Accounted
<1>2. QED  BY <1>1, Invariance, PTL

(* The coordinator implements the ordered output: an ingest is a delivery,  *)
(* an apply the writing of the next line, any other step changes nothing a  *)
(* reader of the output could see.                                          *)
THEOREM Refinement == Spec => ImplementsOrderedOutput
<1>1. Init => Ordered!Init
  BY DEF Init, Ordered!Init
<1>2. IInv /\ [Next]_vars => [Ordered!Next]_Ordered!vars
  <2> SUFFICES ASSUME IInv, [Next]_vars PROVE [Ordered!Next]_Ordered!vars
    OBVIOUS
  <2> USE DEF Ordered!vars
  <2>1. ASSUME NEW L \in SUBSET (Seqs \ delivered), Ingest(L)
        PROVE  Ordered!Deliver
    BY <2>1 DEF Ingest, Ordered!Deliver
  <2>2. CASE Apply
    <3>1. Len(written) = nextWriteSeq /\ nextWriteSeq \in delivered
      BY <2>2 DEF Apply, IInv, HeadExact, Accounted, Taken, InFlight
    <3>2. Ordered!Write
      BY <2>2, <3>1 DEF Apply, Ordered!Write
    <3>3. QED  BY <3>2 DEF Ordered!Next
  <2>3. CASE Stop \/ Pop \/ Raise \/ Advance \/ Exit \/ UNCHANGED vars
    BY <2>3 DEF Stop, Pop, Raise, Advance, Exit, vars
  <2>4. QED
    BY <2>1, <2>2, <2>3 DEF Next, Deliver, ApplyStep, Ordered!Next
<1>3. QED
  BY <1>1, <1>2, Invariance, PTL DEF Spec, ImplementsOrderedOutput, Ordered!Spec
================================================================================
