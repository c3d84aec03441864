---------------------------- MODULE MergeResumeProofs ----------------------------
(***************************************************************************)
(* Proofs about a work directory over any number of merges, lines and       *)
(* sessions, with stops and crashes anywhere: the checkpoint is never ahead *)
(* of the output, rows that a checkpoint counts are kept, and, where a      *)
(* resumed merge reads all of its output back, no content is written twice  *)
(* and, with one chunk to a line, the output is that of an uninterrupted    *)
(* merge.                                                                   *)
(***************************************************************************)
EXTENDS MergeResume, FiniteSetTheorems, WellFoundedInduction, TLAPS

\* The rows that are in the output or on their way there.
Rows == out \o buffer

Flushing == pc \in {"write", "index", "save"}

\* A row was written whose line has not yet counted it.
Uncounted == pc = "count" \/ (Flushing /\ afterFlush = "count")

Typed ==
  /\ doc \in [Lines -> Docs] /\ useIndex \in IndexChoices
  /\ out \in Seq(Contents) /\ buffer \in Seq(Contents)
  /\ saved \in Counters /\ cp \in Counters
  /\ pc \in {"down", "refused", "failed", "ending", "clearing", "clearingIndex",
             "idle", "chunks", "count", "write", "index", "save", "pause", "leave",
             "finish"}
  /\ afterFlush \in {"idle", "count", "pause", "leave", "finish"}
  /\ pos \in Nat \ {0}

\* A line is in hand, and pos is one of its chunks.
InLine ==
  pc = "chunks" \/ Uncounted => cp.offset > 0 /\ pos <= Len(Line.chunks)

\* A checkpoint that has read no line counts no row.
NothingFromNothing ==
  /\ saved.offset = 0 => saved.kept = 0
  /\ cp.offset = 0 => cp.kept = 0

Flushed ==
  pc \in {"index", "save", "pause", "leave", "finish"} \/ ~Running => buffer = <<>>

\* What was removed stays removed until the merge begins.
Cleared ==
  /\ pc \in {"clearing", "clearingIndex"} => saved.offset = 0
  /\ pc = "clearingIndex" => out = <<>>

RowsCountedOnce ==
  /\ Running => cp.kept + (IF Uncounted THEN 1 ELSE 0) = Len(Rows)
  /\ ~Running => cp = NewCheckpoint

\* The inductive invariant.
IInv ==
  /\ Typed /\ InLine /\ NothingFromNothing /\ Flushed /\ Cleared
  /\ RowsCountedOnce
  /\ OutputAheadOfCheckpoint
--------------------------------------------------------------------------------
(***************************************************************************)
(* Sequences.                                                               *)
(***************************************************************************)
LEMMA PrefixOfConcatenation ==
  ASSUME NEW S, NEW s \in Seq(S), NEW t \in Seq(S)
  PROVE  IsPrefix(s, s \o t)
BY DEF IsPrefix

LEMMA AppendToConcatenation ==
  ASSUME NEW S, NEW s \in Seq(S), NEW t \in Seq(S), NEW c \in S
  PROVE  s \o Append(t, c) = Append(s \o t, c)
OBVIOUS

LEMMA EmptyConcatenation ==
  ASSUME NEW S, NEW s \in Seq(S)
  PROVE  s \o <<>> = s /\ <<>> \o s = s
OBVIOUS

LEMMA ChunkInContents ==
  ASSUME Typed, InLine, pc = "chunks"
  PROVE  Chunk \in Contents
<1>1. cp.offset \in 0 .. Total /\ cp.offset > 0 /\ Total \in Nat
  BY CountsAssumption DEF Typed, InLine, Counters
<1>2. cp.offset - 1 \in Lines
  BY <1>1 DEF Lines
<1>3. Line \in Doc
  BY <1>2, DocsAssumption DEF Line, Typed
<1>4. Line.chunks \in Seq(Contents) /\ pos \in 1 .. Len(Line.chunks)
  BY <1>3 DEF Doc, Typed, InLine
<1>5. QED  BY <1>4 DEF Chunk
--------------------------------------------------------------------------------
LEMMA InitIInv == Init => IInv
<1> SUFFICES ASSUME Init PROVE IInv
  OBVIOUS
<1> USE DEF Init
<1>1. NewCheckpoint \in Counters
  BY CountsAssumption DEF NewCheckpoint, Counters
<1>2. Typed
  BY <1>1 DEF Typed
<1>3. ~Running /\ ~Uncounted
  BY DEF Running, Alive, Uncounted, Flushing
<1>4. InLine /\ Flushed /\ Cleared
  BY <1>3 DEF InLine, Flushed, Cleared
<1>5. NothingFromNothing /\ RowsCountedOnce /\ OutputAheadOfCheckpoint
  BY <1>3 DEF NothingFromNothing, NewCheckpoint, RowsCountedOnce,
              OutputAheadOfCheckpoint
<1>6. QED  BY <1>2, <1>4, <1>5 DEF IInv
--------------------------------------------------------------------------------
(***************************************************************************)
(* The end of the process, and the beginning of a merge.                    *)
(***************************************************************************)
LEMMA DownIInv ==
  ASSUME IInv, NEW status \in {"down", "refused", "failed"}, Down(status),
         UNCHANGED <<given, out>>,
         saved' \in Counters, saved'.kept <= Len(out),
         saved'.offset = 0 => saved'.kept = 0
  PROVE  IInv'
<1> USE DEF Down, given, IInv
<1>1. NewCheckpoint \in Counters
  BY CountsAssumption DEF NewCheckpoint, Counters
<1>2. Typed'
  BY <1>1 DEF Typed
<1>3. ~Running' /\ ~Uncounted' /\ pc' # "chunks"
  BY DEF Running, Alive, Uncounted, Flushing
<1>4. InLine' /\ Flushed' /\ Cleared'
  BY <1>3 DEF InLine, Flushed, Cleared
<1>5. NothingFromNothing' /\ RowsCountedOnce' /\ OutputAheadOfCheckpoint'
  BY <1>3 DEF NothingFromNothing, NewCheckpoint, RowsCountedOnce,
              OutputAheadOfCheckpoint
<1>6. QED  BY <1>2, <1>4, <1>5

LEMMA StartFromScratchIInv ==
  ASSUME IInv, Start, StartFromScratch
  PROVE  IInv'
<1> USE DEF IInv, Start, StartFromScratch, given, rowVars
<1>1. ~Running /\ buffer = <<>> /\ saved.kept = 0
  BY DEF Running, Flushed, NothingFromNothing
<1>2. Typed'
  BY DEF Typed
<1>3. Running' /\ ~Uncounted' /\ pc' = "idle"
  BY DEF Running, Alive, Uncounted, Flushing
<1>4. InLine' /\ Flushed' /\ Cleared' /\ NothingFromNothing'
  BY <1>1, <1>3 DEF InLine, Flushed, Cleared, NothingFromNothing
<1>5. Rows' = <<>>
  BY <1>1 DEF Rows
<1>6. RowsCountedOnce' /\ OutputAheadOfCheckpoint'
  BY <1>1, <1>3, <1>5 DEF RowsCountedOnce, OutputAheadOfCheckpoint, Typed
<1>7. QED  BY <1>2, <1>4, <1>6

\* The counters are made to fit the rows that are there.
LEMMA ReconciledFits ==
  ASSUME Typed, OutputAheadOfCheckpoint
  PROVE  /\ Reconciled(saved) \in Counters
         /\ Reconciled(saved).kept = Len(out)
         /\ Reconciled(saved).offset = saved.offset
<1>1. Len(out) \in Nat /\ saved.kept \in Nat /\ saved.scanned \in Nat
  BY DEF Typed, Counters
<1>2. CASE Len(out) > saved.kept
  <2> DEFINE n == saved.scanned + Len(out) - saved.kept
  <2>1. n \in Nat
    BY <1>1, <1>2
  <2>2. Reconciled(saved) = [saved EXCEPT !.scanned = n, !.kept = Len(out)]
    BY <1>2 DEF Reconciled
  <2>3. saved \in Counters
    BY DEF Typed
  <2> HIDE DEF n
  <2>4. QED  BY <1>1, <2>1, <2>2, <2>3 DEF Counters
<1>3. CASE ~(Len(out) > saved.kept)
  BY <1>1, <1>3 DEF Reconciled, Typed, Counters
<1>4. QED  BY <1>2, <1>3

LEMMA ResumeIInv ==
  ASSUME IInv, Start, Resume
  PROVE  IInv'
<1> USE DEF IInv, Start, Resume, given
<1>1. ~Running /\ buffer = <<>> /\ cp = NewCheckpoint
  BY DEF Running, Flushed, RowsCountedOnce
<1>2. UNCHANGED <<doc, useIndex, out, buffer, saved, afterFlush, pos>>
  OBVIOUS
<1>3. \/ cp' = Reconciled(saved) /\ pc' = "idle"
      \/ cp' = cp /\ pc' = "ending"
  OBVIOUS
<1>4. Typed'
  BY <1>2, <1>3, ReconciledFits DEF Typed
<1>5. ~Uncounted' /\ (Running' <=> pc' = "idle")
  BY <1>3 DEF Running, Alive, Uncounted, Flushing
<1>6. InLine' /\ Flushed' /\ Cleared'
  BY <1>1, <1>2, <1>3, <1>5 DEF InLine, Flushed, Cleared
<1>7. NothingFromNothing'
  BY <1>2, <1>3, ReconciledFits DEF NothingFromNothing
<1>8. Rows' = out
  BY <1>1, <1>2, EmptyConcatenation DEF Rows, Typed
<1>9. RowsCountedOnce'
  <2>1. CASE cp' = Reconciled(saved) /\ pc' = "idle"
    <3>1. Reconciled(saved).kept = Len(out) /\ Len(out) \in Nat
      BY ReconciledFits DEF Typed
    <3>2. cp'.kept = Len(Rows') /\ Len(Rows') \in Nat
      BY ONLY <2>1, <3>1, <1>8
    <3>3. Running' /\ ~Uncounted'
      BY ONLY <1>5, <2>1
    <3>4. QED  BY ONLY <3>2, <3>3 DEF RowsCountedOnce
  <2>2. CASE cp' = cp /\ pc' = "ending"
    BY ONLY <1>1, <1>5, <2>2 DEF RowsCountedOnce
  <2>3. QED  BY ONLY <1>3, <2>1, <2>2
<1>10. OutputAheadOfCheckpoint'
  BY <1>2 DEF OutputAheadOfCheckpoint
<1>11. QED  BY <1>4, <1>6, <1>7, <1>9, <1>10

LEMMA ClearIInv ==
  ASSUME IInv, StartFresh \/ RemoveOutput \/ RemoveIndex
  PROVE  IInv'
<1> USE DEF IInv, given, rowVars
<1>1. /\ ~Running /\ buffer = <<>> /\ cp = NewCheckpoint
      /\ UNCHANGED <<doc, useIndex, cp, buffer, afterFlush, pos>>
  BY DEF Running, Alive, Flushed, RowsCountedOnce, StartFresh, RemoveOutput,
         RemoveIndex
<1>2. /\ NewCheckpoint \in Counters
      /\ NewCheckpoint.kept = 0 /\ NewCheckpoint.offset = 0
  BY CountsAssumption DEF NewCheckpoint, Counters
<1>3. /\ saved' \in {saved, NewCheckpoint} /\ out' \in {out, <<>>}
      /\ saved'.offset = 0 /\ saved'.kept = 0
  BY <1>2 DEF StartFresh, RemoveOutput, RemoveIndex, Cleared, NothingFromNothing
<1>4. /\ pc' \in {"clearing", "clearingIndex", "idle"}
      /\ pc' # "clearing" => out' = <<>>
  BY DEF StartFresh, RemoveOutput, RemoveIndex, Cleared
<1>5. Typed'
  BY <1>1, <1>2, <1>3, <1>4 DEF Typed
<1>6. ~Uncounted' /\ (Running' <=> pc' = "idle")
  BY <1>4 DEF Running, Alive, Uncounted, Flushing
<1>7. InLine' /\ Flushed' /\ Cleared' /\ NothingFromNothing'
  BY <1>1, <1>2, <1>3, <1>4, <1>6
  DEF InLine, Flushed, Cleared, NothingFromNothing
<1>8. RowsCountedOnce'
  BY <1>1, <1>2, <1>4, <1>6 DEF RowsCountedOnce, Rows
<1>9. OutputAheadOfCheckpoint'
  BY <1>3, <1>5 DEF OutputAheadOfCheckpoint, Typed
<1>10. QED  BY <1>5, <1>7, <1>8, <1>9
--------------------------------------------------------------------------------
(***************************************************************************)
(* The lines.                                                               *)
(***************************************************************************)
\* The fast workers and a first signal touch nothing of this.
LEMMA AsideIInv ==
  ASSUME IInv,
         UNCHANGED <<doc, useIndex, out, buffer, saved, cp, pc, afterFlush, pos>>
  PROVE  IInv'
BY DEF IInv, Typed, InLine, Line, NothingFromNothing, Flushed, Cleared,
       RowsCountedOnce, OutputAheadOfCheckpoint, Uncounted, Flushing, Running,
       Alive, Rows

\* Between two chunks or two lines, only the counters have changed.
LEMMA BetweenIInv ==
  ASSUME IInv, Running, pc' \in {"idle", "chunks"},
         UNCHANGED <<doc, useIndex, out, buffer, saved, afterFlush>>,
         cp' \in Counters, cp'.offset > 0,
         cp'.kept = cp.kept + (IF Uncounted THEN 1 ELSE 0),
         pos' \in Nat \ {0}, pc' = "chunks" => pos' <= Len(Line'.chunks)
  PROVE  IInv'
<1> USE DEF IInv
<1>1. Typed'
  BY DEF Typed
<1>2. Running' /\ ~Uncounted'
  BY DEF Running, Alive, Uncounted, Flushing
<1>3. cp'.offset # 0
  BY DEF Counters
<1>4. InLine' /\ NothingFromNothing' /\ Flushed' /\ Cleared'
  BY <1>2, <1>3 DEF InLine, NothingFromNothing, Flushed, Cleared
<1>5. RowsCountedOnce'
  BY <1>2 DEF RowsCountedOnce, Rows, Counters
<1>6. OutputAheadOfCheckpoint'
  BY DEF OutputAheadOfCheckpoint
<1>7. QED  BY <1>1, <1>4, <1>5, <1>6

LEMMA NextChunkInLine ==
  ASSUME IInv, NextChunk, pc \in {"chunks", "count"}, doc' = doc,
         cp'.offset = cp.offset
  PROVE  /\ pc' \in {"idle", "chunks"} /\ pos' \in Nat \ {0}
         /\ pc' = "chunks" => pos' <= Len(Line'.chunks)
<1>1. cp.offset \in 0 .. Total /\ cp.offset > 0 /\ Total \in Nat
  <2>1. cp.offset > 0
    <3>1. pc = "chunks" \/ Uncounted
      BY DEF Uncounted
    <3>2. QED  BY <3>1 DEF IInv, InLine
  <2>2. cp \in Counters /\ Total \in Nat
    BY CountsAssumption DEF IInv, Typed
  <2>3. QED  BY <2>1, <2>2 DEF Counters
<1>2. cp.offset - 1 \in Lines
  BY <1>1 DEF Lines
<1>3. Line \in Doc /\ Line' = Line
  BY <1>2, DocsAssumption DEF Line, IInv, Typed
<1>4. Len(Line.chunks) \in Nat
  BY <1>3 DEF Doc
<1>5. CASE pos < Len(Line.chunks)
  BY <1>3, <1>4, <1>5 DEF NextChunk, IInv, Typed
<1>6. CASE ~(pos < Len(Line.chunks))
  BY <1>6 DEF NextChunk
<1>7. QED  BY <1>5, <1>6

LEMMA TakeLineIInv ==
  ASSUME IInv, TakeLine
  PROVE  IInv'
<1> DEFINE n == cp.offset
           d == IF fast[n] = "known" THEN KnownDocument ELSE doc[n]
           nothing == d.chunks = <<>> /\ d.rejects = 0
           scanned == IF d.kind = "blank" THEN 0 ELSE 1
           rejected == CASE d.kind = "blank" -> 0
                         [] d.kind = "empty" -> 1
                         [] OTHER -> IF nothing THEN 1 ELSE d.rejects
<1>1. /\ cp' = [cp EXCEPT !.offset = @ + 1, !.scanned = @ + scanned,
                          !.rejected = @ + rejected]
      /\ pc' = IF d.chunks # <<>> THEN "chunks" ELSE "idle"
      /\ pos' = 1
      /\ UNCHANGED <<doc, useIndex, out, buffer, saved, afterFlush>>
  BY DEF TakeLine, given, diskVars, rowVars
<1>2. pc = "idle" /\ n < Total /\ n \in Nat /\ Total \in Nat
  BY CountsAssumption DEF TakeLine, IInv, Typed, Counters
<1>3. doc[n] \in Doc
  BY <1>2, DocsAssumption DEF Lines, IInv, Typed
<1>4. d \in [kind : {"blank", "empty", "processed"}, rejects : Nat, chunks : Seq(Contents)]
      /\ (d.chunks # <<>> => d = doc[n])
  BY <1>3 DEF KnownDocument, Doc
<1>5. d.rejects \in Nat
  BY <1>4
<1> HIDE DEF d
<1>6. scanned \in Nat /\ rejected \in Nat
  BY <1>5
<1> HIDE DEF scanned, rejected, nothing
<1>7. cp \in Counters
  BY DEF IInv, Typed
<1>8. cp' \in Counters /\ cp'.offset = n + 1 /\ cp'.kept = cp.kept
  <2>1. /\ cp.offset + 1 \in 0 .. Total
        /\ cp.scanned + scanned \in Nat /\ cp.rejected + rejected \in Nat
    BY <1>2, <1>6, <1>7 DEF Counters
  <2>2. QED  BY <1>1, <1>7, <2>1 DEF Counters
<1>9. Running /\ ~Uncounted
  BY <1>2 DEF Running, Alive, Uncounted, Flushing
<1>10. pc' = "chunks" => Line' = d
  BY <1>1, <1>2, <1>4, <1>8 DEF Line
<1>11. pc' = "chunks" => 1 <= Len(Line'.chunks)
  <2>1. d.chunks \in Seq(Contents)
    BY <1>4
  <2>2. d.chunks # <<>> => 1 <= Len(d.chunks)
    BY <2>1
  <2>3. QED  BY <1>1, <1>10, <2>2
<1>12. cp'.offset > 0 /\ cp.kept \in Nat
  BY <1>2, <1>7, <1>8 DEF Counters
<1>13. pc' \in {"idle", "chunks"} /\ pos' \in Nat \ {0}
       /\ (pc' = "chunks" => pos' <= Len(Line'.chunks))
  BY <1>1, <1>11
<1>14. cp'.kept = cp.kept + (IF Uncounted THEN 1 ELSE 0)
  BY <1>8, <1>9, <1>12
<1>15. QED  BY <1>1, <1>8, <1>9, <1>12, <1>13, <1>14, BetweenIInv

LEMMA ChunkIInv ==
  ASSUME IInv, SkipChunks \/ RejectDuplicate \/ RejectUnfit \/ CountRow
  PROVE  IInv'
<1>1. /\ UNCHANGED <<doc, useIndex, out, buffer, saved, afterFlush>>
      /\ pc \in {"count", "chunks"}
  BY DEF SkipChunks, RejectDuplicate, RejectUnfit, CountRow, given, diskVars,
         rowVars
<1>2. cp \in Counters /\ cp.offset > 0
  <2>1. pc = "chunks" \/ Uncounted
    BY <1>1 DEF Uncounted
  <2>2. QED  BY <2>1 DEF IInv, Typed, InLine
<1>3. Running /\ (Uncounted <=> pc = "count")
  BY <1>1 DEF Running, Alive, Uncounted, Flushing
<1>4. /\ cp' \in Counters /\ cp'.offset = cp.offset
      /\ cp'.kept = cp.kept + (IF Uncounted THEN 1 ELSE 0)
  <2>1. CASE SkipChunks
    BY <1>2, <1>3, <2>1 DEF SkipChunks, Counters
  <2>2. CASE RejectDuplicate \/ RejectUnfit
    BY <1>2, <1>3, <2>2 DEF RejectDuplicate, RejectUnfit, Counters
  <2>3. CASE CountRow
    BY <1>2, <1>3, <2>3 DEF CountRow, Counters
  <2>4. QED  BY <2>1, <2>2, <2>3
<1>5. /\ pc' \in {"idle", "chunks"} /\ pos' \in Nat \ {0}
      /\ pc' = "chunks" => pos' <= Len(Line'.chunks)
  <2>1. CASE SkipChunks
    BY <2>1 DEF SkipChunks
  <2>2. CASE RejectDuplicate \/ RejectUnfit \/ CountRow
    BY <1>1, <1>4, <2>2, NextChunkInLine
    DEF RejectDuplicate, RejectUnfit, CountRow
  <2>3. QED  BY <2>1, <2>2
<1>6. QED  BY <1>1, <1>2, <1>3, <1>4, <1>5, BetweenIInv

LEMMA WriteRowIInv ==
  ASSUME IInv, WriteRow
  PROVE  IInv'
<1> USE DEF IInv
<1>1. /\ pc = "chunks" /\ pc' \in {"write", "count"} /\ afterFlush' = "count"
      /\ buffer' = Append(buffer, Chunk)
      /\ UNCHANGED <<doc, useIndex, out, saved, cp, pos>>
  BY DEF WriteRow, given
<1>2. Chunk \in Contents
  BY <1>1, ChunkInContents
<1>3. Typed'
  BY <1>1, <1>2 DEF Typed
<1>4. Running /\ ~Uncounted /\ Running' /\ Uncounted'
  BY <1>1 DEF Running, Alive, Uncounted, Flushing
<1>5. InLine' /\ NothingFromNothing' /\ Flushed' /\ Cleared'
  BY <1>1, <1>4 DEF InLine, Line, NothingFromNothing, Flushed, Cleared
<1>6. Rows \in Seq(Contents) /\ Rows' = Append(Rows, Chunk)
  BY <1>1, <1>2, AppendToConcatenation DEF Rows, Typed
<1>7. RowsCountedOnce'
  <2>1. Len(Rows') = Len(Rows) + 1 /\ Len(Rows) \in Nat /\ cp.kept \in Nat
    BY <1>2, <1>6 DEF Typed, Counters
  <2>2. cp.kept = Len(Rows)
    BY <1>4, <2>1 DEF RowsCountedOnce
  <2>3. QED  BY <1>1, <1>4, <2>1, <2>2 DEF RowsCountedOnce
<1>8. OutputAheadOfCheckpoint'
  BY <1>1 DEF OutputAheadOfCheckpoint
<1>9. QED  BY <1>3, <1>5, <1>7, <1>8
--------------------------------------------------------------------------------
(***************************************************************************)
(* The flush of the sink, and the end of a session.                         *)
(***************************************************************************)
LEMMA FlushRowsIInv ==
  ASSUME IInv, FlushRows
  PROVE  IInv'
<1> USE DEF IInv
<1>1. /\ pc = "write" /\ pc' = "index" /\ out' = Rows /\ buffer' = <<>>
      /\ UNCHANGED <<doc, useIndex, saved, cp, afterFlush, pos>>
  BY DEF FlushRows, given, Rows
<1>2. Rows \in Seq(Contents) /\ Len(out) <= Len(Rows)
  BY DEF Rows, Typed
<1>3. Typed'
  BY <1>1, <1>2 DEF Typed
<1>4. Running /\ Running' /\ (Uncounted' <=> Uncounted)
  BY <1>1 DEF Running, Alive, Uncounted, Flushing
<1>5. InLine' /\ NothingFromNothing' /\ Flushed' /\ Cleared'
  BY <1>1, <1>4 DEF InLine, Line, NothingFromNothing, Flushed, Cleared
<1>6. Rows' = Rows
  BY <1>1, <1>2, EmptyConcatenation DEF Rows
<1>7. RowsCountedOnce'
  BY <1>1, <1>4, <1>6 DEF RowsCountedOnce
<1>8. OutputAheadOfCheckpoint'
  BY <1>1, <1>2 DEF OutputAheadOfCheckpoint, Typed, Counters
<1>9. QED  BY <1>3, <1>5, <1>7, <1>8

\* Steps of the main thread and of the flush that leave the rows where they
\* are, and may save the counters.
LEMMA SaveIInv ==
  ASSUME IInv, FlushIndex \/ AutoSave \/ Pause \/ SavePaused \/ CloseSink
  PROVE  IInv'
<1> USE DEF IInv
<1>1. /\ pc \in {"index", "save", "idle", "pause"}
      /\ UNCHANGED <<doc, useIndex, out, buffer, pos>>
      /\ cp' \in {cp, [cp EXCEPT !.lines = cp.kept]}
  BY DEF FlushIndex, AutoSave, Pause, SavePaused, CloseSink, given, diskVars,
         rowVars
<1>2. \/ pc \in {"index", "save"} /\ pc' = "save" /\ afterFlush' = afterFlush
      \/ pc = "save" /\ pc' = afterFlush /\ afterFlush' = afterFlush
      \/ /\ pc \in {"idle", "pause"} /\ pc' = "write"
         /\ afterFlush' \in {"pause", "leave", "finish"}
  BY DEF FlushIndex, AutoSave, Pause, SavePaused, CloseSink, BeginFlush
<1>3. cp \in Counters /\ cp' \in Counters
      /\ cp'.kept = cp.kept /\ cp'.offset = cp.offset
  <2>1. cp \in Counters
    BY DEF Typed
  <2>2. [cp EXCEPT !.lines = cp.kept] \in Counters
    BY <2>1 DEF Counters
  <2>3. QED  BY <1>1, <2>1, <2>2 DEF Counters
<1>4. saved' = saved \/ (saved' = cp' /\ pc \in {"save", "pause"})
  BY DEF FlushIndex, AutoSave, Pause, SavePaused, CloseSink, diskVars
<1>5. Typed'
  BY <1>1, <1>2, <1>3, <1>4 DEF Typed
<1>6. Running /\ Running' /\ (Uncounted' <=> Uncounted)
  BY <1>2 DEF Running, Alive, Uncounted, Flushing, Typed
<1>7. InLine'
  <2>1. pc' # "chunks"
    BY <1>2 DEF Typed
  <2>2. QED  BY <1>1, <1>3, <1>6, <2>1 DEF InLine, Line
<1>8. NothingFromNothing'
  BY <1>3, <1>4 DEF NothingFromNothing
<1>9. Flushed' /\ Cleared'
  <2>1. pc' \in {"index", "save", "pause", "leave", "finish"} => pc \in {"index", "save"}
    BY <1>2
  <2>2. pc' \notin {"clearing", "clearingIndex"}
    BY <1>6 DEF Running
  <2>3. QED  BY <1>1, <1>6, <2>1, <2>2 DEF Flushed, Cleared
<1>10. RowsCountedOnce'
  BY <1>1, <1>3, <1>6 DEF RowsCountedOnce, Rows
<1>11. OutputAheadOfCheckpoint'
  <2>1. CASE saved' = saved
    BY <1>1, <2>1 DEF OutputAheadOfCheckpoint
  <2>2. CASE saved' = cp' /\ pc \in {"save", "pause"}
    <3>1. Rows = out
      BY <2>2, EmptyConcatenation DEF Rows, Flushed, Typed
    <3>2. cp.kept <= Len(Rows)
      BY <1>3, <1>6 DEF RowsCountedOnce, Counters
    <3>3. QED  BY <1>1, <1>3, <2>2, <3>1, <3>2 DEF OutputAheadOfCheckpoint
  <2>3. QED  BY <1>4, <2>1, <2>2
<1>12. QED  BY <1>5, <1>7, <1>8, <1>9, <1>10, <1>11

LEMMA LeaveIInv ==
  ASSUME IInv,
         Refuse \/ Leave \/ LeaveUnsaved \/ FailToComplete \/ Complete \/ Crash
  PROVE  IInv'
<1>1. PICK status \in {"down", "refused", "failed"} : Down(status)
  BY DEF Refuse, Leave, LeaveUnsaved, FailToComplete, Complete, Crash
<1>2. UNCHANGED <<given, out>>
  BY DEF Refuse, Leave, LeaveUnsaved, FailToComplete, Complete, Crash, diskVars
<1>3. saved' \in Counters /\ saved'.kept <= Len(out)
      /\ (saved'.offset = 0 => saved'.kept = 0)
  <2>1. CASE Complete
    <3>1. pc = "finish" /\ saved' = [cp EXCEPT !.complete = TRUE]
      BY <2>1 DEF Complete
    <3>2. cp \in Counters /\ Running /\ Rows = out
      BY <3>1, EmptyConcatenation
      DEF IInv, Typed, Running, Alive, Rows, Flushed
    <3>3. cp.kept <= Len(out)
      BY <3>2 DEF IInv, RowsCountedOnce, Counters
    <3>4. QED  BY <3>1, <3>2, <3>3 DEF IInv, NothingFromNothing, Counters
  <2>2. CASE ~Complete
    <3>1. saved' = saved
      BY <2>2 DEF Refuse, Leave, LeaveUnsaved, FailToComplete, Crash, diskVars
    <3>2. QED  BY <3>1 DEF IInv, Typed, NothingFromNothing, OutputAheadOfCheckpoint
  <2>3. QED  BY <2>1, <2>2
<1>4. QED  BY <1>1, <1>2, <1>3, DownIInv

LEMMA NextIInv == IInv /\ [Next]_vars => IInv'
<1> SUFFICES ASSUME IInv, [Next]_vars PROVE IInv'
  OBVIOUS
<1>1. CASE Start
  BY <1>1, StartFromScratchIInv, ResumeIInv DEF Start
<1>2. CASE StartFresh \/ RemoveOutput \/ RemoveIndex
  BY <1>2, ClearIInv
<1>3. ASSUME NEW n \in Lines, FastChain(n) \/ FallBack(n) PROVE IInv'
  BY <1>3, AsideIInv DEF FastChain, FallBack, given, diskVars, rowVars, runVars
<1>4. CASE FlushShard \/ StopSignal \/ UNCHANGED vars
  BY <1>4, AsideIInv
  DEF FlushShard, StopSignal, given, diskVars, rowVars, runVars, vars
<1>5. CASE TakeLine
  BY <1>5, TakeLineIInv
<1>6. CASE SkipChunks \/ RejectDuplicate \/ RejectUnfit \/ CountRow
  BY <1>6, ChunkIInv
<1>7. CASE WriteRow
  BY <1>7, WriteRowIInv
<1>8. CASE FlushRows
  BY <1>8, FlushRowsIInv
<1>9. CASE FlushIndex \/ AutoSave \/ Pause \/ SavePaused \/ CloseSink
  BY <1>9, SaveIInv
<1>10. CASE Refuse \/ Leave \/ LeaveUnsaved \/ FailToComplete \/ Complete \/ Crash
  BY <1>10, LeaveIInv
<1>11. QED
  BY <1>1, <1>2, <1>3, <1>4, <1>5, <1>6, <1>7, <1>8, <1>9, <1>10 DEF Next

LEMMA Invariance == Spec => []IInv
BY InitIInv, NextIInv, PTL DEF Spec

(* The checkpoint on disk never counts a row that the output does not have,  *)
(* whatever was stopped, killed, resumed or cleared (checkpoint.py:277,      *)
(* apply/lifecycle.py:106).                                                  *)
THEOREM NeverAhead == Spec => []OutputAheadOfCheckpoint
<1>1. IInv => OutputAheadOfCheckpoint
  BY DEF IInv
<1>2. QED  BY <1>1, Invariance, PTL

(* While there is a checkpoint to resume from, rows are only appended: a     *)
(* start without one truncates the file, and --fresh removes the checkpoint  *)
(* first (setup.py:175, checkpoint.py:206).                                  *)
THEOREM Kept == Spec => RowsAreKept
<1>1. IInv /\ [Next]_vars => [saved.offset > 0 => IsPrefix(out, out')]_out
  <2> SUFFICES ASSUME IInv, [Next]_vars, out' # out, saved.offset > 0
               PROVE  IsPrefix(out, out')
    OBVIOUS
  <2>1. saved.offset # 0
    BY DEF IInv, Typed, Counters
  <2>2. CASE FlushRows
    BY <2>2, PrefixOfConcatenation DEF FlushRows, IInv, Typed
  <2>3. CASE StartFromScratch \/ RemoveOutput
    BY <2>1, <2>3 DEF StartFromScratch, RemoveOutput, IInv, Cleared
  <2>4. CASE ~FlushRows /\ ~StartFromScratch /\ ~RemoveOutput
    BY <2>4 DEF Next, vars, diskVars, given, Start, Resume, Refuse, StartFresh,
       RemoveIndex, FastChain, FallBack, FlushShard, TakeLine, SkipChunks,
       RejectDuplicate, RejectUnfit, WriteRow, CountRow, FlushIndex, AutoSave,
       Pause, SavePaused, Leave, CloseSink, LeaveUnsaved, FailToComplete,
       Complete, StopSignal, Crash
  <2>5. QED  BY <2>2, <2>3, <2>4
<1>2. QED  BY <1>1, Invariance, PTL DEF Spec, RowsAreKept
--------------------------------------------------------------------------------
(***************************************************************************)
(* No content twice, where a resumed merge reads back every row.            *)
(***************************************************************************)
Repeatless(s) == \A i, j \in DOMAIN s : i < j => s[i] # s[j]

\* Without this, rows whose hashes were lost are not read (apply/dedup.py:110).
ReadsAllRows == NearLayers \/ TRUE \notin IndexChoices

\* While a merge runs, every row it has is known to its duplicate filter.
RowsKnown == Running => \A i \in DOMAIN Rows : Rows[i] \in Known

KInv == Repeatless(Rows) /\ RowsKnown

LEMMA RepeatlessPrefix ==
  ASSUME NEW S, NEW s \in Seq(S), NEW t \in Seq(S), Repeatless(s \o t)
  PROVE  Repeatless(s)
<1>1. \A i \in DOMAIN s : i \in DOMAIN (s \o t) /\ (s \o t)[i] = s[i]
  OBVIOUS
<1>2. QED  BY <1>1 DEF Repeatless

LEMMA RepeatlessAppend ==
  ASSUME NEW S, NEW s \in Seq(S), NEW c \in S, Repeatless(s),
         \A i \in DOMAIN s : s[i] # c
  PROVE  Repeatless(Append(s, c))
<1> DEFINE t == Append(s, c)
<1>1. /\ DOMAIN s = 1 .. Len(s) /\ DOMAIN t = 1 .. Len(s) + 1 /\ Len(s) \in Nat
      /\ t[Len(s) + 1] = c
      /\ \A i \in DOMAIN s : t[i] = s[i]
  OBVIOUS
<1> HIDE DEF t
<1>2. ASSUME NEW i \in DOMAIN t, NEW j \in DOMAIN t, i < j
      PROVE  t[i] # t[j]
  <2>1. i \in DOMAIN s
    BY <1>1, <1>2
  <2>2. CASE j \in DOMAIN s
    BY <1>1, <1>2, <2>1, <2>2 DEF Repeatless
  <2>3. CASE j = Len(s) + 1
    BY <1>1, <2>1, <2>3
  <2>4. QED  BY <1>1, <2>2, <2>3
<1>3. Repeatless(t)
  BY <1>2 DEF Repeatless
<1>4. QED  BY <1>3 DEF t

LEMMA KnownGrows ==
  ASSUME NEW c, Register(c)
  PROVE  Known \cup {c} \subseteq Known'
BY DEF Register, Known

\* The rows stay where they are, and nothing is forgotten.
LEMMA SameRowsKInv ==
  ASSUME KInv, Rows' = Rows, Running' => Running, Known \subseteq Known'
  PROVE  KInv'
BY DEF KInv, RowsKnown, Repeatless

\* No merge is running.
LEMMA StoppedKInv ==
  ASSUME IInv, KInv, ~Running', out' \in {out, <<>>}, buffer' = <<>>
  PROVE  KInv'
<1>1. Repeatless(out)
  BY RepeatlessPrefix DEF KInv, Rows, IInv, Typed
<1>2. Rows' = out \/ Rows' = <<>>
  BY EmptyConcatenation DEF Rows, IInv, Typed
<1>3. Repeatless(Rows')
  BY <1>1, <1>2 DEF Repeatless
<1>4. QED  BY <1>3 DEF KInv, RowsKnown, Repeatless

LEMMA EmptyKInv ==
  ASSUME out' = <<>>, buffer' = <<>>
  PROVE  KInv'
<1>1. Rows' = <<>>
  BY DEF Rows
<1>2. QED  BY <1>1 DEF KInv, RowsKnown, Repeatless

LEMMA ResumeKInv ==
  ASSUME ReadsAllRows, IInv, KInv, Start, Resume
  PROVE  KInv'
<1>1. ~Running /\ buffer = <<>> /\ UNCHANGED <<out, buffer>>
  BY DEF Start, Resume, Running, IInv, Flushed
<1>2. Rows = out /\ Rows' = Rows
  BY <1>1, EmptyConcatenation DEF Rows, IInv, Typed
<1>3. NearLayers \/ ~useIndex
  BY OptionsAssumption DEF ReadsAllRows, IInv, Typed
<1>4. \A i \in DOMAIN out : out[i] \in SeededFrom(saved)
  <2>1. RowsNotSeeded(saved) = 0
    BY <1>3 DEF RowsNotSeeded
  <2>2. \A i \in DOMAIN out : i > 0
    BY DEF IInv, Typed
  <2>3. QED  BY <2>1, <2>2 DEF SeededFrom
<1>5. SeededFrom(saved) \subseteq Known'
  BY DEF Resume, Known
<1>6. QED  BY <1>2, <1>4, <1>5 DEF KInv, RowsKnown, Repeatless

LEMMA WriteRowKInv ==
  ASSUME IInv, KInv, WriteRow
  PROVE  KInv'
<1>1. /\ pc = "chunks" /\ Chunk \notin Known /\ Register(Chunk)
      /\ buffer' = Append(buffer, Chunk) /\ out' = out
  BY DEF WriteRow
<1>2. Chunk \in Contents
  BY <1>1, ChunkInContents DEF IInv
<1>3. Rows \in Seq(Contents) /\ Rows' = Append(Rows, Chunk)
  BY <1>1, <1>2, AppendToConcatenation DEF Rows, IInv, Typed
<1>4. \A i \in DOMAIN Rows : Rows[i] \in Known
  BY <1>1 DEF KInv, RowsKnown, Running, Alive
<1>5. Repeatless(Append(Rows, Chunk))
  BY <1>1, <1>2, <1>3, <1>4, RepeatlessAppend DEF KInv
<1>6. \A i \in DOMAIN Append(Rows, Chunk) : Append(Rows, Chunk)[i] \in Known \cup {Chunk}
  BY <1>2, <1>3, <1>4
<1>7. Known \cup {Chunk} \subseteq Known'
  BY <1>1, KnownGrows
<1>8. QED  BY <1>3, <1>5, <1>6, <1>7 DEF KInv, RowsKnown, Repeatless

LEMMA NextKInv == ReadsAllRows /\ IInv /\ KInv /\ [Next]_vars => KInv'
<1> SUFFICES ASSUME ReadsAllRows, IInv, KInv, [Next]_vars PROVE KInv'
  OBVIOUS
<1>1. CASE Start /\ StartFromScratch
  <2>1. buffer = <<>>
    BY <1>1 DEF Start, Running, IInv, Flushed
  <2>2. QED  BY <1>1, <2>1, EmptyKInv DEF StartFromScratch, rowVars
<1>2. CASE Start /\ Resume
  BY <1>2, ResumeKInv
<1>3. CASE StartFresh \/ RemoveOutput
  <2>1. /\ buffer = <<>> /\ buffer' = buffer /\ out' \in {out, <<>>}
        /\ pc' \in {"clearing", "clearingIndex"}
    BY <1>3 DEF StartFresh, RemoveOutput, Running, rowVars, IInv, Flushed
  <2>2. QED  BY <2>1, StoppedKInv DEF Running
<1>4. CASE RemoveIndex
  BY <1>4, EmptyKInv DEF RemoveIndex, Running, rowVars, IInv, Flushed, Cleared
<1>5. CASE Refuse \/ Leave \/ LeaveUnsaved \/ FailToComplete \/ Complete \/ Crash
  <2>1. out' = out /\ buffer' = <<>> /\ pc' \in {"down", "refused", "failed"}
    BY <1>5 DEF Refuse, Leave, LeaveUnsaved, FailToComplete, Complete, Crash,
                Down, diskVars
  <2>2. QED  BY <2>1, StoppedKInv DEF Running, Alive
<1>6. ASSUME NEW n \in Lines, FastChain(n) \/ FallBack(n) PROVE KInv'
  BY <1>6, SameRowsKInv
  DEF FastChain, FallBack, diskVars, rowVars, runVars, Rows, Known, Running, Alive
<1>7. CASE FlushShard \/ StopSignal \/ UNCHANGED vars
  BY <1>7, SameRowsKInv
  DEF FlushShard, StopSignal, vars, diskVars, rowVars, runVars, Rows, Known,
      Running, Alive
<1>8. CASE TakeLine \/ SkipChunks \/ CountRow
  <2>1. pc \in {"idle", "chunks", "count"} /\ UNCHANGED <<diskVars, rowVars>>
    BY <1>8 DEF TakeLine, SkipChunks, CountRow
  <2>2. QED
    BY <2>1, SameRowsKInv DEF diskVars, rowVars, Rows, Known, Running, Alive
<1>9. CASE RejectDuplicate \/ RejectUnfit
  <2>1. pc = "chunks" /\ UNCHANGED <<out, buffer>>
    BY <1>9 DEF RejectDuplicate, RejectUnfit, diskVars
  <2>2. Known \subseteq Known'
    BY <1>9, KnownGrows DEF RejectDuplicate, RejectUnfit, Known, diskVars
  <2>3. QED  BY <2>1, <2>2, SameRowsKInv DEF Rows, Running, Alive
<1>10. CASE WriteRow
  BY <1>10, WriteRowKInv
<1>11. CASE FlushRows
  <2>1. /\ pc = "write" /\ out' = Rows /\ buffer' = <<>>
        /\ UNCHANGED <<db, seen, pending>>
    BY <1>11 DEF FlushRows, Rows
  <2>2. Rows' = Rows
    BY <2>1, EmptyConcatenation DEF Rows, IInv, Typed
  <2>3. QED  BY <2>1, <2>2, SameRowsKInv DEF Known, Running, Alive
<1>12. CASE FlushIndex \/ AutoSave \/ Pause \/ SavePaused \/ CloseSink
  <2>1. /\ pc \in {"index", "save", "idle", "pause"}
        /\ UNCHANGED <<out, buffer>> /\ Known \subseteq Known'
    BY <1>12 DEF FlushIndex, AutoSave, Pause, SavePaused, CloseSink, diskVars,
                 rowVars, Known
  <2>2. QED  BY <2>1, SameRowsKInv DEF Rows, Running, Alive
<1>13. QED
  BY <1>1, <1>2, <1>3, <1>4, <1>5, <1>6, <1>7, <1>8, <1>9, <1>10, <1>11, <1>12
  DEF Next, Start

(* However a merge was stopped, killed and started again, no content is in   *)
(* its output twice, provided a resumed merge reads all rows back: it has    *)
(* near-duplicate layers, or no hash index (apply/dedup.py:110).             *)
THEOREM WrittenOnce == ASSUME ReadsAllRows PROVE Spec => []NoRepeats
<1>1. Init => KInv
  BY DEF Init, KInv, RowsKnown, Repeatless, Rows
<1>2. IInv /\ KInv => NoRepeats
  BY RepeatlessPrefix DEF IInv, Typed, KInv, Rows, Repeatless, NoRepeats
<1>3. QED  BY <1>1, <1>2, Invariance, NextKInv, PTL DEF Spec
--------------------------------------------------------------------------------
(***************************************************************************)
(* The reference, where every line is one chunk at most: it is made line by *)
(* line.                                                                    *)
(***************************************************************************)
LinesTyped == doc \in [Lines -> Docs]

\* Line k is the first with its content, and the gate takes it.
New(k) ==
  /\ doc[k].chunks # <<>>
  /\ doc[k].chunks[1] \notin Unfit
  /\ \A m \in 0 .. k - 1 :
       doc[m].chunks # <<>> => doc[m].chunks[1] # doc[k].chunks[1]

\* How many rows an uninterrupted run has after n lines, and all its rows.
Sizes == [n \in 0 .. Total |-> Cardinality(Firsts(n))]
Whole == Reference(Total)

\* A set of numbers that is not empty has a least one.
LEMMA LeastNumber ==
  ASSUME NEW T \in SUBSET Nat, T # {}
  PROVE  \E n \in T : \A m \in T : n <= m
<1> DEFINE R == {ss \in Nat \X Nat : ss[1] < ss[2]}
<1>1. IsWellFoundedOn(R, Nat)
  BY NatLessThanWellFounded DEF OpToRel
<1> HIDE DEF R
<1>2. PICK n \in T : \A m \in T : <<m, n>> \notin R
  BY <1>1, WFMin
<1>3. \A m \in T : ~(m < n)
  BY <1>2 DEF R
<1>4. QED  BY <1>3

LEMMA LineTyped ==
  ASSUME LinesTyped, NEW k \in Nat, k < Total
  PROVE  k \in Lines /\ doc[k] \in Doc /\ doc[k].chunks \in Seq(Contents)
<1>1. k \in Lines /\ Total \in Nat
  BY CountsAssumption DEF Lines
<1>2. doc[k] \in Docs
  BY <1>1 DEF LinesTyped
<1>3. doc[k] \in Doc
  BY <1>2, DocsAssumption
<1>4. QED  BY <1>1, <1>3 DEF Doc

LEMMA OneChunk ==
  ASSUME LinesTyped, OneChunkEach, NEW k \in Nat, k < Total
  PROVE  /\ DOMAIN doc[k].chunks = IF doc[k].chunks = <<>> THEN {} ELSE {1}
         /\ doc[k].chunks # <<>> =>
              doc[k].chunks[1] \in Contents /\ Len(doc[k].chunks) = 1 /\ doc[k].rejects = 0
         /\ doc[k].rejects \in {0, 1}
<1>1. /\ Len(doc[k].chunks) + doc[k].rejects <= 1
      /\ doc[k].rejects \in Nat /\ doc[k].chunks \in Seq(Contents)
  BY LineTyped DEF OneChunkEach, Doc
<1> DEFINE c == doc[k].chunks
<1>2. c \in Seq(Contents) /\ Len(c) + doc[k].rejects <= 1
  BY <1>1
<1> HIDE DEF c
<1>3. /\ DOMAIN c = 1 .. Len(c) /\ Len(c) \in Nat
      /\ c # <<>> => Len(c) # 0
      /\ c = <<>> => Len(c) = 0
  BY <1>2
<1>4. Len(c) \in {0, 1} /\ (Len(c) = 1 => doc[k].rejects = 0) /\ doc[k].rejects \in {0, 1}
  BY <1>1, <1>2, <1>3
<1>5. Len(c) = 1 => DOMAIN c = {1} /\ c[1] \in Contents
  BY <1>2, <1>3
<1>6. Len(c) = 0 => DOMAIN c = {}
  BY <1>3
<1>7. QED  BY <1>3, <1>4, <1>5, <1>6 DEF c

LEMMA PlacesAre ==
  ASSUME LinesTyped, OneChunkEach, NEW n \in 0 .. Total
  PROVE  Places(n) = {p \in (0 .. n - 1) \X {1} : doc[p[1]].chunks # <<>>}
<1>1. Total \in Nat
  BY CountsAssumption
<1>2. \A m \in 0 .. n - 1 :
        DOMAIN doc[m].chunks = IF doc[m].chunks = <<>> THEN {} ELSE {1}
  BY <1>1, OneChunk
<1>3. QED  BY <1>2 DEF Places

LEMMA FirstsAre ==
  ASSUME LinesTyped, OneChunkEach, NEW n \in 0 .. Total
  PROVE  Firsts(n) = {p \in (0 .. n - 1) \X {1} : New(p[1])}
<1>1. Total \in Nat
  BY CountsAssumption
<1>2. ASSUME NEW p \in (0 .. n - 1) \X {1}
      PROVE  p \in Firsts(n) <=> New(p[1])
  <2> DEFINE k == p[1]
  <2>1. p = <<k, 1>> /\ k \in 0 .. n - 1 /\ k \in Nat /\ n \in Nat
    BY <1>1
  <2> HIDE DEF k
  <2>2. ASSUME NEW q \in Places(n), Earlier(q, p)
        PROVE  q[1] \in 0 .. k - 1 /\ doc[q[1]].chunks # <<>> /\ q[2] = 1
    BY <2>1, <2>2, PlacesAre DEF Earlier
  <2>3. ASSUME NEW m \in 0 .. k - 1, doc[m].chunks # <<>>
        PROVE  <<m, 1>> \in Places(n) /\ Earlier(<<m, 1>>, p)
    BY <2>1, <2>3, PlacesAre DEF Earlier
  <2>4. p \in Places(n) <=> doc[k].chunks # <<>>
    BY <2>1, PlacesAre
  <2>5. (\E q \in Places(n) : Earlier(q, p) /\ At(q) = At(p)) <=>
          \E m \in 0 .. k - 1 : doc[m].chunks # <<>> /\ doc[m].chunks[1] = doc[k].chunks[1]
    BY <2>1, <2>2, <2>3 DEF At
  <2>6. QED  BY <2>1, <2>4, <2>5 DEF Firsts, New, At
<1>3. Firsts(n) \subseteq (0 .. n - 1) \X {1}
  BY PlacesAre DEF Firsts
<1>4. QED  BY <1>2, <1>3

LEMMA FirstsFinite ==
  ASSUME LinesTyped, OneChunkEach, NEW n \in 0 .. Total
  PROVE  IsFiniteSet(Firsts(n)) /\ Sizes[n] \in Nat /\ Sizes[n] = Cardinality(Firsts(n))
<1>1. Total \in Nat /\ n \in Nat
  BY CountsAssumption
<1>2. IsFiniteSet(0 .. n - 1)
  <2>1. 0 \in Int /\ n - 1 \in Int
    BY <1>1
  <2>2. QED  BY <2>1, FS_Interval
<1>3. IsFiniteSet((0 .. n - 1) \X {1})
  <2>1. IsFiniteSet({1})
    BY FS_Singleton
  <2>2. QED  BY <1>2, <2>1, FS_Product
<1>4. IsFiniteSet(Firsts(n))
  BY <1>3, FirstsAre, FS_Subset
<1>5. QED  BY <1>4, FS_CardinalityType DEF Sizes

\* What a line adds.
LEMMA SizesStep ==
  ASSUME LinesTyped, OneChunkEach, NEW k \in Nat, k < Total
  PROVE  Sizes[k + 1] = Sizes[k] + (IF New(k) THEN 1 ELSE 0)
<1>1. Total \in Nat /\ k \in 0 .. Total /\ k + 1 \in 0 .. Total
  BY CountsAssumption
<1>2. (0 .. (k + 1) - 1) = (0 .. k - 1) \cup {k} /\ k \notin 0 .. k - 1
  OBVIOUS
<1>3. Firsts(k + 1) = {p \in ((0 .. k - 1) \cup {k}) \X {1} : New(p[1])}
  BY <1>1, <1>2, FirstsAre
<1>4. Firsts(k) = {p \in (0 .. k - 1) \X {1} : New(p[1])}
  BY <1>1, FirstsAre
<1>5. <<k, 1>> \notin Firsts(k)
  BY <1>2, <1>4
<1>6. CASE New(k)
  <2>1. Firsts(k + 1) = Firsts(k) \cup {<<k, 1>>}
    BY <1>3, <1>4, <1>6
  <2>2. QED  BY <1>1, <1>5, <1>6, <2>1, FirstsFinite, FS_AddElement
<1>7. CASE ~New(k)
  <2>1. Firsts(k + 1) = Firsts(k)
    BY <1>3, <1>4, <1>7
  <2>2. QED  BY <1>1, <1>7, <2>1, FirstsFinite
<1>8. QED  BY <1>6, <1>7

LEMMA SizesZero ==
  ASSUME LinesTyped, OneChunkEach
  PROVE  Sizes[0] = 0
<1>1. 0 \in 0 .. Total /\ (0 .. 0 - 1) = {}
  BY CountsAssumption
<1>2. Firsts(0) = {}
  BY <1>1, FirstsAre
<1>3. QED  BY <1>1, <1>2, FirstsFinite, FS_EmptySet

LEMMA SizesGrow ==
  ASSUME LinesTyped, OneChunkEach, NEW m \in 0 .. Total, NEW n \in 0 .. Total, m <= n
  PROVE  Sizes[m] <= Sizes[n]
<1>1. Firsts(m) \subseteq Firsts(n)
  <2>1. (0 .. m - 1) \subseteq 0 .. n - 1
    BY CountsAssumption
  <2>2. QED  BY <2>1, FirstsAre
<1>2. QED  BY <1>1, FirstsFinite, FS_Subset

\* Every number of rows is reached at a line that adds the next one.
LEMMA SizesReach ==
  ASSUME LinesTyped, OneChunkEach, NEW n \in 0 .. Total, NEW i \in 1 .. Sizes[n]
  PROVE  \E k \in 0 .. n - 1 : New(k) /\ Sizes[k] = i - 1
<1> DEFINE T == {j \in 0 .. n : Sizes[j] >= i}
<1>1. Total \in Nat /\ n \in Nat /\ Sizes[n] \in Nat /\ i \in Nat
  BY CountsAssumption, FirstsFinite
<1>2. n \in T /\ T \in SUBSET Nat
  BY <1>1
<1>3. PICK j \in T : \A m \in T : j <= m
  BY <1>2, LeastNumber
<1>4. j \in 0 .. n /\ Sizes[j] >= i
  BY <1>3
<1>5. j # 0
  BY <1>1, <1>4, SizesZero
<1> DEFINE k == j - 1
<1>6. k \in Nat /\ k < Total /\ k \in 0 .. n - 1 /\ k \in 0 .. n /\ j = k + 1 /\ k < j
  BY <1>1, <1>4, <1>5
<1>7. ~(Sizes[k] >= i)
  <2>1. k \notin T
    BY <1>3, <1>6
  <2>2. QED  BY <1>6, <2>1
<1>8. Sizes[k] \in Nat
  BY <1>1, <1>6, FirstsFinite
<1> HIDE DEF k
<1>9. Sizes[k + 1] = Sizes[k] + (IF New(k) THEN 1 ELSE 0)
  BY <1>6, SizesStep
<1>10. New(k) /\ Sizes[k] = i - 1
  BY <1>1, <1>4, <1>6, <1>7, <1>8, <1>9
<1>11. QED  BY <1>6, <1>10

LEMMA RankIsSize ==
  ASSUME LinesTyped, OneChunkEach, NEW n \in 0 .. Total, NEW k \in 0 .. n - 1, New(k)
  PROVE  /\ <<k, 1>> \in Firsts(n) /\ Rank(<<k, 1>>, n) = Sizes[k]
         /\ Sizes[k] \in Nat /\ Sizes[k] < Sizes[n]
<1>1. /\ Total \in Nat /\ n \in Nat /\ k \in Nat /\ k < Total /\ k \in 0 .. Total
      /\ k + 1 \in 0 .. Total /\ k + 1 <= n
  BY CountsAssumption
<1>2. Firsts(n) = {p \in (0 .. n - 1) \X {1} : New(p[1])}
  BY FirstsAre
<1>3. Firsts(k) = {p \in (0 .. k - 1) \X {1} : New(p[1])}
  BY <1>1, FirstsAre
<1>4. {q \in Firsts(n) : Earlier(q, <<k, 1>>)} = Firsts(k)
  <2>1. ASSUME NEW q \in Firsts(n), Earlier(q, <<k, 1>>)
        PROVE  q \in Firsts(k)
    BY <1>1, <1>2, <1>3, <2>1 DEF Earlier
  <2>2. ASSUME NEW q \in Firsts(k)
        PROVE  q \in Firsts(n) /\ Earlier(q, <<k, 1>>)
    BY <1>1, <1>2, <1>3 DEF Earlier
  <2>3. QED  BY <2>1, <2>2
<1>5. Rank(<<k, 1>>, n) = Sizes[k] /\ Sizes[k] \in Nat
  BY <1>1, <1>4, FirstsFinite DEF Rank
<1>6. Sizes[k] < Sizes[n]
  <2>1. Sizes[k + 1] = Sizes[k] + 1
    BY <1>1, SizesStep
  <2>2. Sizes[k + 1] <= Sizes[n] /\ Sizes[n] \in Nat
    BY <1>1, SizesGrow, FirstsFinite
  <2>3. QED  BY <1>5, <2>1, <2>2
<1>7. QED  BY <1>2, <1>5, <1>6

\* The row that a line adds, and no other line the same.
LEMMA RowOfLine ==
  ASSUME LinesTyped, OneChunkEach, NEW n \in 0 .. Total, NEW k \in 0 .. n - 1, New(k)
  PROVE  /\ Sizes[k] + 1 \in 1 .. Sizes[n]
         /\ Reference(n)[Sizes[k] + 1] = doc[k].chunks[1]
<1>1. /\ <<k, 1>> \in Firsts(n) /\ Rank(<<k, 1>>, n) = Sizes[k]
      /\ Sizes[k] \in Nat /\ Sizes[k] < Sizes[n]
  BY RankIsSize
<1>2. Total \in Nat /\ n \in Nat /\ k \in Nat /\ Sizes[n] \in Nat
      /\ Sizes[n] = Cardinality(Firsts(n))
  BY CountsAssumption, FirstsFinite
<1>3. ASSUME NEW p \in Firsts(n), Rank(p, n) = Sizes[k]
      PROVE  p = <<k, 1>>
  <2> DEFINE m == p[1]
  <2>1. m \in 0 .. n - 1 /\ New(m) /\ p = <<m, 1>>
    BY FirstsAre
  <2> HIDE DEF m
  <2>2. Sizes[m] = Sizes[k]
    BY <1>3, <2>1, RankIsSize
  <2>3. m \in 0 .. Total /\ m \in Nat /\ k \in 0 .. Total
    BY <1>2, <2>1
  <2>4. Sizes[m] \in Nat
    BY <2>3, FirstsFinite
  <2>5. CASE m < k
    <3>1. m \in 0 .. k - 1
      BY <1>2, <2>3, <2>5
    <3>2. Sizes[m] < Sizes[k]
      BY <2>1, <2>3, <3>1, RankIsSize
    <3>3. QED  BY <2>2, <2>4, <3>2
  <2>6. CASE k < m
    <3>1. k \in 0 .. m - 1
      BY <1>2, <2>3, <2>6
    <3>2. Sizes[k] < Sizes[m]
      BY <2>3, <3>1, RankIsSize
    <3>3. QED  BY <2>2, <2>4, <3>2
  <2>7. QED  BY <1>2, <2>1, <2>3, <2>5, <2>6
<1> DEFINE i == Sizes[k] + 1
<1>4. i \in 1 .. Sizes[n] /\ i - 1 = Sizes[k]
  BY <1>1, <1>2
<1>5. (CHOOSE p \in Firsts(n) : Rank(p, n) = i - 1) = <<k, 1>>
  BY <1>1, <1>3, <1>4
<1>6. Reference(n)[i] = At(CHOOSE p \in Firsts(n) : Rank(p, n) = i - 1)
  BY <1>2, <1>4 DEF Reference
<1>7. At(<<k, 1>>) = doc[k].chunks[1]
  BY DEF At
<1>8. Reference(n)[i] = doc[k].chunks[1]
  BY <1>5, <1>6, <1>7
<1>9. QED  BY <1>4, <1>8

LEMMA ReferenceTyped ==
  ASSUME LinesTyped, OneChunkEach, NEW n \in 0 .. Total
  PROVE  Reference(n) \in Seq(Contents) /\ Len(Reference(n)) = Sizes[n]
<1>1. Sizes[n] \in Nat /\ Sizes[n] = Cardinality(Firsts(n)) /\ Total \in Nat
  BY CountsAssumption, FirstsFinite
<1>2. Reference(n) = [i \in 1 .. Sizes[n] |-> Reference(n)[i]]
  BY <1>1 DEF Reference
<1>3. ASSUME NEW i \in 1 .. Sizes[n]
      PROVE  Reference(n)[i] \in Contents
  <2>1. PICK k \in 0 .. n - 1 : New(k) /\ Sizes[k] = i - 1
    BY SizesReach
  <2>2. Reference(n)[i] = doc[k].chunks[1]
    BY <1>1, <2>1, RowOfLine
  <2>3. k \in Nat /\ k < Total
    BY <1>1
  <2>4. QED  BY <2>1, <2>2, <2>3, OneChunk DEF New
<1> DEFINE r == Reference(n)
<1>4. r = [i \in 1 .. Sizes[n] |-> r[i]] /\ \A i \in 1 .. Sizes[n] : r[i] \in Contents
  BY <1>2, <1>3
<1> HIDE DEF r
<1>5. r \in Seq(Contents) /\ Len(r) = Sizes[n]
  BY <1>1, <1>4
<1>6. QED  BY <1>5 DEF r

\* What the first lines add stands at the beginning of the whole.
LEMMA ReferenceBegins ==
  ASSUME LinesTyped, OneChunkEach, NEW n \in 0 .. Total, NEW i \in 1 .. Sizes[n]
  PROVE  i \in 1 .. Sizes[Total] /\ Reference(n)[i] = Whole[i]
<1>1. Total \in Nat /\ n \in Nat /\ Total \in 0 .. Total /\ Sizes[n] \in Nat
  BY CountsAssumption, FirstsFinite
<1>2. PICK k \in 0 .. n - 1 : New(k) /\ Sizes[k] = i - 1
  BY SizesReach
<1>3. k \in 0 .. Total - 1
  BY <1>1
<1>4. Reference(n)[Sizes[k] + 1] = doc[k].chunks[1]
  BY <1>2, RowOfLine
<1>5. /\ Sizes[k] + 1 \in 1 .. Sizes[Total]
      /\ Reference(Total)[Sizes[k] + 1] = doc[k].chunks[1]
  BY <1>1, <1>2, <1>3, RowOfLine
<1>6. Sizes[k] + 1 = i
  BY <1>1, <1>2
<1>7. QED  BY <1>4, <1>5, <1>6 DEF Whole

\* No content is in the whole twice.
LEMMA WholeRepeatless ==
  ASSUME LinesTyped, OneChunkEach,
         NEW i \in 1 .. Sizes[Total], NEW j \in 1 .. Sizes[Total], Whole[i] = Whole[j]
  PROVE  i = j
<1>1. Total \in Nat /\ Total \in 0 .. Total /\ Sizes[Total] \in Nat
  BY CountsAssumption, FirstsFinite
<1>2. PICK k \in 0 .. Total - 1 : New(k) /\ Sizes[k] = i - 1
  BY <1>1, SizesReach
<1>3. PICK m \in 0 .. Total - 1 : New(m) /\ Sizes[m] = j - 1
  BY <1>1, SizesReach
<1>4. Sizes[k] + 1 = i /\ Sizes[m] + 1 = j
  BY <1>1, <1>2, <1>3
<1>5. doc[k].chunks[1] = doc[m].chunks[1]
  BY <1>1, <1>2, <1>3, <1>4, RowOfLine DEF Whole
<1>6. ~(k < m) /\ ~(m < k)
  BY <1>1, <1>2, <1>3, <1>5 DEF New
<1>7. k = m
  BY <1>1, <1>6
<1>8. QED  BY <1>4, <1>7

\* A fit content that stands in one of the first lines has its row among
\* what these lines add.
LEMMA ContentHasRow ==
  ASSUME LinesTyped, OneChunkEach, NEW n \in 0 .. Total, NEW k \in 0 .. n - 1,
         doc[k].chunks # <<>>, doc[k].chunks[1] \notin Unfit
  PROVE  \E i \in 1 .. Sizes[n] : Whole[i] = doc[k].chunks[1]
<1> DEFINE T == {m \in 0 .. k : doc[m].chunks # <<>> /\ doc[m].chunks[1] = doc[k].chunks[1]}
<1>1. Total \in Nat /\ n \in Nat /\ k \in Nat
  BY CountsAssumption
<1>2. k \in T /\ T \in SUBSET Nat
  BY <1>1
<1>3. PICK m \in T : \A j \in T : m <= j
  BY <1>2, LeastNumber
<1>4. m \in 0 .. k /\ m \in 0 .. n - 1 /\ doc[m].chunks[1] = doc[k].chunks[1]
      /\ doc[m].chunks # <<>>
  BY <1>1, <1>3
<1>5. ASSUME NEW j \in 0 .. m - 1, doc[j].chunks # <<>>, doc[j].chunks[1] = doc[m].chunks[1]
      PROVE  FALSE
  <2>1. j \in T
    BY <1>1, <1>4, <1>5
  <2>2. QED  BY <1>1, <1>3, <1>4, <2>1
<1>6. New(m)
  BY <1>4, <1>5 DEF New
<1>7. /\ Sizes[m] + 1 \in 1 .. Sizes[n]
      /\ Reference(n)[Sizes[m] + 1] = doc[k].chunks[1]
  BY <1>4, <1>6, RowOfLine
<1>8. QED  BY <1>7, ReferenceBegins
--------------------------------------------------------------------------------
(***************************************************************************)
(* A resumed merge and one that was never interrupted.                      *)
(***************************************************************************)
\* Lines that were read and are neither kept nor rejected.
Unsettled(c) == c.scanned - c.kept - c.rejected

InHand == IF pc = "chunks" \/ Uncounted THEN 1 ELSE 0

\* The lines whose rows are there, unless one was skipped.
Through == IF pc = "chunks" THEN cp.offset - 1 ELSE cp.offset

\* What is written is the beginning of what an uninterrupted run writes.
RowsFollow ==
  /\ Len(Rows) <= Sizes[Total]
  /\ \A i \in 1 .. Len(Rows) : Rows[i] = Whole[i]

\* The counters tell whether a line was skipped, and it was only after a stop.
Settled ==
  Running =>
    /\ Unsettled(cp) >= InHand
    /\ Unsettled(cp) = InHand => Sizes[Through] <= Len(Rows)
    /\ Unsettled(cp) > InHand => stop /\ ~Uncounted /\ (pc = "chunks" => skip)

SavedSettled ==
  /\ Unsettled(saved) >= 0
  /\ Unsettled(saved) = 0 => Sizes[saved.offset] <= Len(out)
  /\ saved.complete => saved.offset = Total /\ Unsettled(saved) = 0

Closing == pc = "finish" \/ (Flushing /\ afterFlush = "finish")

Ordered ==
  /\ saved.offset = 0 => Unsettled(saved) = 0
  /\ cp.offset = 0 => Unsettled(cp) = 0
  /\ ~cp.complete
  /\ skip => stop
  /\ Closing => cp.offset = Total

Agreement == RowsFollow /\ Settled /\ SavedSettled /\ Ordered

LEMMA Facts ==
  ASSUME IInv
  PROVE  /\ LinesTyped /\ Total \in Nat /\ Total \in 0 .. Total
         /\ Rows \in Seq(Contents) /\ Len(Rows) \in Nat
         /\ out \in Seq(Contents) /\ Len(out) \in Nat
         /\ cp \in Counters /\ cp.offset \in 0 .. Total /\ cp.scanned \in Nat
         /\ cp.kept \in Nat /\ cp.rejected \in Nat
         /\ saved \in Counters /\ saved.offset \in 0 .. Total /\ saved.scanned \in Nat
         /\ saved.kept \in Nat /\ saved.rejected \in Nat
<1>1. Typed
  BY DEF IInv
<1>2. LinesTyped /\ Total \in Nat /\ Total \in 0 .. Total
  BY <1>1, CountsAssumption DEF Typed, LinesTyped
<1>3. out \in Seq(Contents) /\ Len(out) \in Nat /\ buffer \in Seq(Contents)
  BY <1>1 DEF Typed
<1>4. Rows \in Seq(Contents) /\ Len(Rows) \in Nat
  BY <1>3 DEF Rows
<1>5. cp \in Counters /\ saved \in Counters
  BY <1>1 DEF Typed
<1>6. \A c \in Counters : /\ c.offset \in 0 .. Total /\ c.scanned \in Nat
                          /\ c.kept \in Nat /\ c.rejected \in Nat
  BY DEF Counters
<1>7. QED  BY <1>2, <1>3, <1>4, <1>5, <1>6

LEMMA SameDoc ==
  ASSUME doc' = doc
  PROVE  Sizes' = Sizes /\ Whole' = Whole
BY DEF Sizes, Whole, Reference, Firsts, Rank, Places, At

LEMMA NewIsSettled ==
  ASSUME OneChunkEach, LinesTyped
  PROVE  /\ Unsettled(NewCheckpoint) = 0 /\ NewCheckpoint.offset = 0
         /\ ~NewCheckpoint.complete /\ Sizes[0] = 0
BY SizesZero DEF Unsettled, NewCheckpoint

\* The line after the first k has its row, or adds none.
LEMMA Covered ==
  ASSUME IInv, OneChunkEach, RowsFollow,
         NEW k \in Nat, k < Total, Sizes[k] <= Len(Rows),
         \/ doc[k].chunks = <<>>
         \/ doc[k].chunks[1] \in Unfit
         \/ \E i \in DOMAIN Rows : Rows[i] = doc[k].chunks[1]
  PROVE  Sizes[k + 1] <= Len(Rows)
<1>1. /\ LinesTyped /\ Total \in Nat /\ Total \in 0 .. Total /\ Len(Rows) \in Nat
      /\ Rows \in Seq(Contents) /\ k \in 0 .. Total /\ k \in 0 .. Total - 1
  BY Facts
<1>2. Sizes[k] \in Nat /\ Sizes[Total] \in Nat
  BY <1>1, FirstsFinite
<1>3. Sizes[k + 1] = Sizes[k] + (IF New(k) THEN 1 ELSE 0)
  BY <1>1, SizesStep
<1>4. CASE ~New(k)
  BY <1>2, <1>3, <1>4
<1>5. CASE New(k)
  <2>1. PICK i \in DOMAIN Rows : Rows[i] = doc[k].chunks[1]
    BY <1>5 DEF New
  <2>2. i \in 1 .. Len(Rows) /\ i \in 1 .. Sizes[Total] /\ Whole[i] = doc[k].chunks[1]
    BY <1>1, <1>2, <2>1 DEF RowsFollow
  <2>3. /\ Sizes[k] + 1 \in 1 .. Sizes[Total]
        /\ Whole[Sizes[k] + 1] = doc[k].chunks[1]
    BY <1>1, <1>5, RowOfLine DEF Whole
  <2>4. i = Sizes[k] + 1
    BY <1>1, <2>2, <2>3, WholeRepeatless
  <2>5. QED  BY <1>1, <1>2, <1>3, <1>5, <2>2, <2>4
<1>6. QED  BY <1>4, <1>5

\* The row of the line after the first k is the next one, if it has none yet.
LEMMA NextRow ==
  ASSUME IInv, OneChunkEach, RowsFollow,
         NEW k \in Nat, k < Total, Sizes[k] <= Len(Rows),
         doc[k].chunks # <<>>, doc[k].chunks[1] \notin Unfit,
         \A i \in DOMAIN Rows : Rows[i] # doc[k].chunks[1]
  PROVE  /\ Sizes[k + 1] = Len(Rows) + 1 /\ Len(Rows) + 1 <= Sizes[Total]
         /\ Whole[Len(Rows) + 1] = doc[k].chunks[1]
<1>1. /\ LinesTyped /\ Total \in Nat /\ Total \in 0 .. Total /\ Len(Rows) \in Nat
      /\ Rows \in Seq(Contents) /\ k \in 0 .. Total /\ k \in 0 .. Total - 1
      /\ k + 1 \in 0 .. Total /\ k \in 0 .. (k + 1) - 1
  BY Facts
<1>2. Sizes[k] \in Nat /\ Sizes[Total] \in Nat /\ Sizes[k + 1] \in Nat
  BY <1>1, FirstsFinite
<1>3. Sizes[k + 1] = Sizes[k] + (IF New(k) THEN 1 ELSE 0)
  BY <1>1, SizesStep
<1>4. PICK i \in 1 .. Sizes[k + 1] : Whole[i] = doc[k].chunks[1]
  BY <1>1, ContentHasRow
<1>5. Sizes[k + 1] <= Sizes[Total]
  BY <1>1, SizesGrow
<1>6. i > Len(Rows)
  <2>1. ~(i \in 1 .. Len(Rows))
    BY <1>1, <1>4 DEF RowsFollow
  <2>2. QED  BY <1>1, <1>2, <1>4, <2>1
<1>7. i = Len(Rows) + 1 /\ Sizes[k + 1] = i
  BY <1>1, <1>2, <1>3, <1>4, <1>6
<1>8. QED  BY <1>4, <1>5, <1>7
--------------------------------------------------------------------------------
LEMMA AsideAgreement ==
  ASSUME Agreement, stop => stop',
         UNCHANGED <<doc, out, buffer, saved, cp, pc, afterFlush, skip>>
  PROVE  Agreement'
<1>1. Sizes' = Sizes /\ Whole' = Whole
  BY SameDoc
<1>2. UNCHANGED <<Rows, Running, Uncounted, InHand, Through, Closing>>
  BY DEF Rows, Running, Alive, Uncounted, Flushing, InHand, Through, Closing
<1>3. QED
  BY <1>1, <1>2 DEF Agreement, RowsFollow, Settled, SavedSettled, Ordered

\* The rows on disk follow, too.
LEMMA OutFollows ==
  ASSUME IInv, RowsFollow, OneChunkEach
  PROVE  /\ Len(out) <= Sizes[Total] /\ Len(out) <= Len(Rows)
         /\ \A i \in 1 .. Len(out) : out[i] = Whole[i]
<1>1. out \in Seq(Contents) /\ buffer \in Seq(Contents) /\ Rows = out \o buffer
  BY DEF IInv, Typed, Rows
<1>2. Len(out) <= Len(Rows) /\ \A i \in 1 .. Len(out) : Rows[i] = out[i] /\ i \in 1 .. Len(Rows)
  BY <1>1
<1>3. Sizes[Total] \in Nat
  BY Facts, FirstsFinite
<1>4. /\ Len(Rows) \in Nat /\ Len(out) \in Nat /\ Len(Rows) <= Sizes[Total]
      /\ \A i \in 1 .. Len(Rows) : Rows[i] = Whole[i]
  BY Facts DEF RowsFollow
<1>5. Len(out) <= Sizes[Total]
  BY ONLY <1>2, <1>3, <1>4
<1>6. \A i \in 1 .. Len(out) : out[i] = Whole[i]
  BY ONLY <1>2, <1>4
<1>7. QED  BY <1>2, <1>5, <1>6

LEMMA DownAgreement ==
  ASSUME IInv, OneChunkEach, Agreement, doc' = doc,
         NEW status \in {"down", "refused", "failed"}, Down(status), out' = out,
         \/ saved' = saved
         \/ /\ saved' = [cp EXCEPT !.complete = TRUE]
            /\ pc = "finish" /\ Unsettled(cp) = 0
  PROVE  Agreement'
<1>1. Sizes' = Sizes /\ Whole' = Whole
  BY SameDoc
<1>2. LinesTyped /\ out \in Seq(Contents) /\ cp \in Counters
  BY Facts
<1>3. pc' = status /\ cp' = NewCheckpoint /\ buffer' = <<>> /\ ~skip'
  BY DEF Down
<1>4. Rows' = out
  BY <1>2, <1>3, EmptyConcatenation DEF Rows
<1>5. RowsFollow'
  BY <1>1, <1>4, OutFollows DEF RowsFollow, Agreement
<1>6. ~Running' /\ ~Closing'
  BY <1>3 DEF Running, Alive, Closing, Flushing
<1>7. Settled'
  BY <1>6 DEF Settled
<1>8. SavedSettled' /\ (saved'.offset = 0 => Unsettled(saved') = 0)
  <2>1. CASE saved' = saved
    BY <1>1, <2>1 DEF SavedSettled, Agreement, Ordered
  <2>2. CASE saved' = [cp EXCEPT !.complete = TRUE] /\ pc = "finish" /\ Unsettled(cp) = 0
    <3>1. saved'.offset = cp.offset /\ Unsettled(saved') = 0
      BY <1>2, <2>2 DEF Counters, Unsettled
    <3>2. cp.offset = Total /\ Running /\ Through = cp.offset /\ InHand = 0
      BY <2>2
      DEF Agreement, Ordered, Closing, Running, Alive, Through, InHand, Uncounted, Flushing
    <3>3. Rows = out
      BY <1>2, <2>2, EmptyConcatenation DEF IInv, Flushed, Rows
    <3>4. Sizes[cp.offset] <= Len(out)
      BY <2>2, <3>2, <3>3 DEF Agreement, Settled
    <3>5. QED  BY <1>1, <3>1, <3>2, <3>4 DEF SavedSettled
  <2>3. QED  BY <2>1, <2>2
<1>9. Ordered'
  BY <1>2, <1>3, <1>6, <1>8, NewIsSettled DEF Ordered
<1>10. QED  BY <1>5, <1>7, <1>8, <1>9 DEF Agreement

LEMMA StartFromScratchAgreement ==
  ASSUME IInv, OneChunkEach, Agreement, doc' = doc, Start, StartFromScratch
  PROVE  Agreement'
<1>1. Sizes' = Sizes /\ Whole' = Whole
  BY SameDoc
<1>2. /\ ~Running /\ buffer' = <<>> /\ out' = <<>> /\ cp' = saved /\ pc' = "idle"
      /\ UNCHANGED <<saved, skip, stop>> /\ saved.offset = 0 /\ ~saved.complete
  BY DEF Start, StartFromScratch, rowVars, Running, IInv, Flushed
<1>3. Rows' = <<>> /\ Len(Rows') = 0 /\ Len(out') = 0
  BY <1>2 DEF Rows
<1>4. Sizes[0] = 0 /\ Sizes[Total] \in Nat
  BY Facts, SizesZero, FirstsFinite
<1>5. Unsettled(saved) = 0
  BY <1>2 DEF Agreement, Ordered
<1>6. InHand' = 0 /\ Through' = 0 /\ ~Closing'
  BY <1>2 DEF InHand, Through, Uncounted, Flushing, Closing
<1>7. RowsFollow'
  BY <1>1, <1>3, <1>4 DEF RowsFollow
<1>8. Settled'
  BY <1>1, <1>2, <1>3, <1>4, <1>5, <1>6 DEF Settled
<1>9. SavedSettled' /\ Ordered'
  BY <1>1, <1>2, <1>3, <1>4, <1>5, <1>6 DEF SavedSettled, Agreement, Ordered
<1>10. QED  BY <1>7, <1>8, <1>9 DEF Agreement

LEMMA ReconciledUnsettled ==
  ASSUME IInv
  PROVE  /\ Unsettled(Reconciled(saved)) = Unsettled(saved)
         /\ Reconciled(saved).complete = saved.complete
<1>1. /\ saved \in Counters /\ Len(out) \in Nat /\ saved.scanned \in Nat
      /\ saved.kept \in Nat /\ saved.rejected \in Nat /\ saved.kept <= Len(out)
  BY Facts DEF IInv, OutputAheadOfCheckpoint
<1>2. CASE Len(out) > saved.kept
  <2> DEFINE n == saved.scanned + Len(out) - saved.kept
  <2>1. Reconciled(saved) = [saved EXCEPT !.scanned = n, !.kept = Len(out)]
    BY <1>2 DEF Reconciled
  <2>2. n - Len(out) = saved.scanned - saved.kept
    BY <1>1
  <2> HIDE DEF n
  <2>3. /\ Reconciled(saved).scanned = n /\ Reconciled(saved).kept = Len(out)
        /\ Reconciled(saved).rejected = saved.rejected
        /\ Reconciled(saved).complete = saved.complete
    BY <1>1, <2>1 DEF Counters
  <2>4. QED  BY <2>2, <2>3 DEF Unsettled
<1>3. CASE Len(out) = saved.kept
  BY <1>1, <1>3 DEF Reconciled, Unsettled, Counters
<1>4. QED  BY <1>1, <1>2, <1>3

LEMMA ResumeAgreement ==
  ASSUME IInv, OneChunkEach, Agreement, doc' = doc, Start, Resume
  PROVE  Agreement'
<1>1. Sizes' = Sizes /\ Whole' = Whole
  BY SameDoc
<1>2. /\ ~Running /\ buffer = <<>> /\ cp = NewCheckpoint
      /\ UNCHANGED <<out, buffer, saved, skip, stop>> /\ ~saved.complete /\ saved.offset > 0
      /\ \/ /\ cp' = Reconciled(saved) /\ pc' = "idle"
            /\ Accounted(Reconciled(saved))
         \/ cp' = cp /\ pc' = "ending"
  BY DEF Start, Resume, Running, IInv, Flushed, RowsCountedOnce
<1>3. Rows' = Rows /\ Rows = out
  BY <1>2, Facts, EmptyConcatenation DEF Rows
<1>4. RowsFollow'
  BY <1>1, <1>3 DEF RowsFollow, Agreement
<1>5. SavedSettled'
  BY <1>1, <1>2 DEF SavedSettled, Agreement
<1>6. ~Closing'
  BY <1>2 DEF Closing, Flushing
<1>7. CASE cp' = cp /\ pc' = "ending"
  <2>1. ~Running'
    BY <1>7 DEF Running
  <2>2. Settled' /\ Ordered'
    BY <1>2, <1>6, <1>7, <2>1 DEF Settled, Ordered, Agreement
  <2>3. QED  BY <1>4, <1>5, <2>2 DEF Agreement
<1>8. CASE cp' = Reconciled(saved) /\ pc' = "idle" /\ Accounted(Reconciled(saved))
  <2>1. cp' \in Counters /\ cp'.offset = saved.offset /\ ~cp'.complete
    BY <1>2, <1>8, ReconciledFits, ReconciledUnsettled DEF IInv
  <2>2. Unsettled(cp') = 0 /\ Unsettled(saved) = 0
    <3>1. Unsettled(cp') = 0
      BY <1>8, <2>1 DEF Accounted, Unsettled, Counters
    <3>2. QED  BY <1>8, <3>1, ReconciledUnsettled
  <2>3. InHand' = 0 /\ Through' = saved.offset
    BY <1>8, <2>1 DEF InHand, Through, Uncounted, Flushing
  <2>4. Sizes[saved.offset] <= Len(Rows')
    BY <1>3, <2>2 DEF Agreement, SavedSettled
  <2>5. Settled'
    BY <1>1, <2>2, <2>3, <2>4 DEF Settled
  <2>6. Ordered'
    BY <1>2, <1>6, <2>1, <2>2 DEF Ordered, Agreement
  <2>7. QED  BY <1>4, <1>5, <2>5, <2>6 DEF Agreement
<1>9. QED  BY <1>2, <1>7, <1>8

LEMMA ClearAgreement ==
  ASSUME IInv, OneChunkEach, Agreement, doc' = doc,
         StartFresh \/ RemoveOutput \/ RemoveIndex
  PROVE  Agreement'
<1>1. Sizes' = Sizes /\ Whole' = Whole
  BY SameDoc
<1>2. /\ ~Running /\ buffer' = <<>> /\ cp' = NewCheckpoint
      /\ UNCHANGED <<skip, stop>>
  BY DEF Running, Alive, IInv, Flushed, RowsCountedOnce, StartFresh, RemoveOutput, RemoveIndex,
         rowVars
<1>3. /\ saved' \in {saved, NewCheckpoint} /\ out' \in {out, <<>>}
      /\ saved'.offset = 0
      /\ pc' \in {"clearing", "clearingIndex", "idle"}
      /\ pc' # "clearing" => out' = <<>>
  BY DEF StartFresh, RemoveOutput, RemoveIndex, IInv, Cleared, NewCheckpoint
<1>4. /\ Unsettled(NewCheckpoint) = 0 /\ NewCheckpoint.offset = 0
      /\ ~NewCheckpoint.complete /\ Sizes[0] = 0 /\ Sizes[Total] \in Nat
  BY Facts, NewIsSettled, FirstsFinite
<1>5. Rows' = out' /\ Len(out') \in Nat /\ (out' = <<>> => Len(out') = 0)
  BY <1>2, <1>3, Facts, EmptyConcatenation DEF Rows
<1>6. RowsFollow'
  <2>1. CASE out' = <<>>
    BY <1>1, <1>4, <1>5, <2>1 DEF RowsFollow
  <2>2. CASE out' = out
    BY <1>1, <1>5, <2>2, OutFollows DEF RowsFollow, Agreement
  <2>3. QED  BY <1>3, <2>1, <2>2
<1>7. Unsettled(saved') = 0
  BY <1>3, <1>4 DEF Agreement, Ordered
<1>8. SavedSettled'
  <2>1. saved'.complete => saved'.offset = Total
    BY <1>3, <1>4 DEF Agreement, SavedSettled
  <2>2. QED  BY <1>1, <1>3, <1>4, <1>5, <1>7, <2>1 DEF SavedSettled
<1>9. ~Closing' /\ InHand' = 0 /\ (pc' = "idle" => Through' = 0)
      /\ (Running' => pc' = "idle")
  BY <1>2, <1>3, <1>4
  DEF Closing, Flushing, InHand, Uncounted, Through, Running
<1>10. Settled'
  BY <1>1, <1>2, <1>3, <1>4, <1>5, <1>9 DEF Settled
<1>11. Ordered'
  BY <1>2, <1>3, <1>4, <1>7, <1>9 DEF Ordered, Agreement
<1>12. QED  BY <1>6, <1>8, <1>10, <1>11 DEF Agreement
--------------------------------------------------------------------------------
\* A line is through.
LEMMA IdleAgreement ==
  ASSUME IInv, OneChunkEach, Agreement, UNCHANGED <<doc, out, buffer, saved, stop>>,
         pc' = "idle", skip' \in {skip, stop}, cp' \in Counters, cp'.offset > 0, ~cp'.complete,
         Unsettled(cp') >= 0,
         Unsettled(cp') = 0 => Sizes[cp'.offset] <= Len(Rows),
         Unsettled(cp') > 0 => stop
  PROVE  Agreement'
<1>1. Sizes' = Sizes /\ Whole' = Whole /\ Rows' = Rows
  BY SameDoc DEF Rows
<1>2. InHand' = 0 /\ Through' = cp'.offset /\ ~Closing' /\ ~Uncounted'
  BY DEF InHand, Through, Closing, Uncounted, Flushing
<1>3. RowsFollow' /\ SavedSettled'
  BY <1>1 DEF Agreement, RowsFollow, SavedSettled
<1>4. Settled'
  BY <1>1, <1>2 DEF Settled
<1>5. cp'.offset # 0
  BY DEF Counters
<1>6. Ordered'
  BY <1>2, <1>5 DEF Agreement, Ordered
<1>7. QED  BY <1>3, <1>4, <1>6 DEF Agreement

\* The line in hand, and its one chunk.
LEMMA TheLine ==
  ASSUME IInv, OneChunkEach, pc = "chunks" \/ Uncounted
  PROVE  /\ cp.offset - 1 \in Nat /\ cp.offset - 1 < Total
         /\ (cp.offset - 1) + 1 = cp.offset /\ cp.offset > 0
         /\ doc[cp.offset - 1].chunks # <<>> /\ pos = 1 /\ Len(Line.chunks) = 1
         /\ Chunk = doc[cp.offset - 1].chunks[1] /\ Chunk \in Contents
<1>1. cp.offset \in 0 .. Total /\ Total \in Nat /\ LinesTyped
  BY Facts
<1>2. cp.offset > 0 /\ pos <= Len(Line.chunks) /\ pos \in Nat \ {0}
  BY DEF IInv, InLine, Typed
<1> DEFINE k == cp.offset - 1
<1>3. k \in Nat /\ k < Total /\ k + 1 = cp.offset
  BY <1>1, <1>2
<1>4. Line = doc[k]
  BY DEF Line
<1> HIDE DEF k
<1>5. doc[k].chunks \in Seq(Contents)
  BY <1>1, <1>3, LineTyped
<1>6. doc[k].chunks # <<>>
  BY <1>2, <1>4, <1>5
<1>7. Len(doc[k].chunks) = 1 /\ doc[k].chunks[1] \in Contents
  BY <1>1, <1>3, <1>6, OneChunk
<1>8. pos = 1
  BY <1>2, <1>4, <1>7
<1>9. QED  BY <1>2, <1>3, <1>4, <1>6, <1>7, <1>8 DEF Chunk, k

\* A fit content that is not missing is one of the rows.
LEMMA NotMissing ==
  ASSUME IInv, NEW S, NEW c \in S, ~Missing(S), c \notin Unfit
  PROVE  \E i \in DOMAIN Rows : Rows[i] = c
<1>1. Contains(out \o buffer, c)
  BY DEF Missing
<1>2. Rows \in Seq(Contents)
  BY Facts
<1>3. QED  BY <1>1, <1>2 DEF Contains, Rows

LEMMA TakeLineAgreement ==
  ASSUME IInv, OneChunkEach, Agreement, TakeLine, ~phantom'
  PROVE  Agreement'
<1> DEFINE n == cp.offset
           d == IF fast[n] = "known" THEN KnownDocument ELSE doc[n]
           nothing == d.chunks = <<>> /\ d.rejects = 0
           scanned == IF d.kind = "blank" THEN 0 ELSE 1
           rejected == CASE d.kind = "blank" -> 0
                         [] d.kind = "empty" -> 1
                         [] OTHER -> IF nothing THEN 1 ELSE d.rejects
<1>1. /\ cp' = [cp EXCEPT !.offset = @ + 1, !.scanned = @ + scanned,
                          !.rejected = @ + rejected]
      /\ pc' = IF d.chunks # <<>> THEN "chunks" ELSE "idle"
      /\ skip' = stop
      /\ phantom' = (phantom \/ (fast[n] = "known" /\ Missing(Range(doc[n].chunks))))
      /\ pc = "idle" /\ n < Total
      /\ UNCHANGED <<doc, out, buffer, saved, stop>>
  BY DEF TakeLine, given, diskVars, rowVars
<1>2. n \in Nat /\ Total \in Nat /\ LinesTyped
  BY Facts
<1>3. /\ doc[n] \in Docs /\ doc[n] \in Doc
      /\ doc[n].kind \in {"blank", "empty", "processed"}
      /\ doc[n].kind # "processed" => doc[n].chunks = <<>>
  <2>1. n \in Lines /\ doc[n] \in Doc
    BY <1>1, <1>2, LineTyped
  <2>2. doc[n] \in Docs
    BY <2>1 DEF IInv, Typed
  <2>3. QED  BY <2>1, <2>2, DocsAssumption DEF Doc
<1>4. /\ doc[n].rejects \in {0, 1}
      /\ doc[n].chunks # <<>> => doc[n].rejects = 0 /\ Len(doc[n].chunks) = 1
  BY <1>1, <1>2, OneChunk
<1>5. /\ d.kind \in {"blank", "empty", "processed"} /\ d.rejects \in {0, 1}
      /\ d.chunks # <<>> => d = doc[n] /\ d.kind = "processed" /\ d.rejects = 0
      /\ d.chunks = <<>> => fast[n] = "known" \/ doc[n].chunks = <<>>
  BY <1>3, <1>4 DEF KnownDocument
<1> HIDE DEF d
<1>6. /\ scanned \in {0, 1} /\ rejected \in {0, 1}
      /\ d.chunks # <<>> => scanned = 1 /\ rejected = 0
      /\ d.chunks = <<>> => scanned = rejected
  <2>1. CASE d.kind = "blank"
    BY <1>5, <2>1
  <2>2. CASE d.kind = "empty"
    BY <1>5, <2>2
  <2>3. CASE d.kind = "processed"
    BY <1>5, <2>3
  <2>4. QED  BY <1>5, <2>1, <2>2, <2>3
<1> HIDE DEF scanned, rejected, nothing
<1>7. /\ cp \in Counters /\ cp.offset \in 0 .. Total /\ cp.scanned \in Nat
      /\ cp.kept \in Nat /\ cp.rejected \in Nat
  BY Facts
<1>8. /\ cp' \in Counters /\ cp'.offset = n + 1 /\ cp'.complete = cp.complete
      /\ Unsettled(cp') = Unsettled(cp) + scanned - rejected
  <2>1. /\ cp.offset + 1 \in 0 .. Total
        /\ cp.scanned + scanned \in Nat /\ cp.rejected + rejected \in Nat
    BY <1>1, <1>2, <1>6, <1>7
  <2>2. /\ cp' \in Counters /\ cp'.offset = n + 1 /\ cp'.complete = cp.complete
        /\ cp'.scanned = cp.scanned + scanned /\ cp'.rejected = cp.rejected + rejected
        /\ cp'.kept = cp.kept
    BY <1>1, <1>7, <2>1 DEF Counters
  <2>3. QED  BY <1>6, <1>7, <2>2 DEF Unsettled
<1>9. Running /\ InHand = 0 /\ Through = n /\ ~Uncounted
  BY <1>1 DEF Running, Alive, InHand, Uncounted, Flushing, Through
<1>10. /\ Unsettled(cp) \in Int /\ Unsettled(cp) >= 0
       /\ Unsettled(cp) = 0 => Sizes[n] <= Len(Rows)
       /\ Unsettled(cp) > 0 => stop
       /\ ~cp.complete
  BY <1>7, <1>9 DEF Agreement, Settled, Ordered, Unsettled
<1>11. CASE d.chunks = <<>>
  <2>1. pc' = "idle" /\ Unsettled(cp') = Unsettled(cp)
    BY <1>1, <1>6, <1>8, <1>10, <1>11
  <2>2. ASSUME Unsettled(cp) = 0
        PROVE  Sizes[n + 1] <= Len(Rows)
    <3>1. CASE doc[n].chunks = <<>>
      BY <1>1, <1>2, <1>10, <2>2, <3>1, Covered DEF Agreement
    <3>2. CASE doc[n].chunks # <<>> /\ fast[n] = "known"
      <4>1. ~Missing(Range(doc[n].chunks))
        BY <1>1, <3>2
      <4>2. doc[n].chunks[1] \in Range(doc[n].chunks)
        BY <1>1, <1>2, <3>2, OneChunk DEF Range
      <4>3. \/ doc[n].chunks[1] \in Unfit
            \/ \E i \in DOMAIN Rows : Rows[i] = doc[n].chunks[1]
        BY <4>1, <4>2, NotMissing
      <4>4. QED  BY <1>1, <1>2, <1>10, <2>2, <4>3, Covered DEF Agreement
    <3>3. QED  BY <1>5, <1>11, <3>1, <3>2
  <2>3. cp'.offset > 0
    BY <1>2, <1>8
  <2>4. QED
    BY <1>1, <1>8, <1>10, <2>1, <2>2, <2>3, IdleAgreement
<1>12. CASE d.chunks # <<>>
  <2>1. pc' = "chunks" /\ Unsettled(cp') = Unsettled(cp) + 1
    BY <1>1, <1>6, <1>8, <1>10, <1>12
  <2>2. Sizes' = Sizes /\ Whole' = Whole /\ Rows' = Rows
    BY <1>1, SameDoc DEF Rows
  <2>3. InHand' = 1 /\ Through' = n /\ ~Uncounted' /\ ~Closing'
    BY <1>2, <1>8, <2>1 DEF InHand, Through, Uncounted, Closing, Flushing
  <2>4. RowsFollow' /\ SavedSettled'
    BY <1>1, <2>2 DEF Agreement, RowsFollow, SavedSettled
  <2>5. Settled'
    BY <1>1, <1>10, <2>1, <2>2, <2>3 DEF Settled
  <2>6. Ordered'
    BY <1>1, <1>2, <1>8, <2>3 DEF Agreement, Ordered
  <2>7. QED  BY <2>4, <2>5, <2>6 DEF Agreement
<1>13. QED  BY <1>11, <1>12

LEMMA NextChunkEnds ==
  ASSUME IInv, OneChunkEach, pc = "chunks" \/ Uncounted, NextChunk
  PROVE  pc' = "idle"
<1>1. pos = 1 /\ Len(Line.chunks) = 1
  BY TheLine
<1>2. ~(pos < Len(Line.chunks))
  BY <1>1
<1>3. QED  BY <1>2 DEF NextChunk

LEMMA SkipChunksAgreement ==
  ASSUME IInv, OneChunkEach, Agreement, SkipChunks
  PROVE  Agreement'
<1>1. /\ UNCHANGED <<doc, out, buffer, saved, cp, stop, skip>>
      /\ pc = "chunks" /\ pc' = "idle" /\ skip
  BY DEF SkipChunks, given, diskVars, rowVars
<1>2. cp \in Counters /\ cp.offset > 0 /\ Unsettled(cp) \in Int
  BY <1>1, TheLine, Facts DEF Unsettled
<1>3. Running /\ InHand = 1
  BY <1>1 DEF Running, Alive, InHand
<1>4. Unsettled(cp) >= 1 /\ ~cp.complete /\ stop
  BY <1>1, <1>3 DEF Agreement, Settled, Ordered
<1>5. QED  BY <1>1, <1>2, <1>4, IdleAgreement

LEMMA RejectAgreement ==
  ASSUME IInv, OneChunkEach, Agreement, RejectDuplicate \/ RejectUnfit, ~phantom'
  PROVE  Agreement'
<1> DEFINE k == cp.offset - 1
<1>1. /\ UNCHANGED <<doc, out, buffer, saved, stop, skip>>
      /\ pc = "chunks" /\ ~skip /\ NextChunk
      /\ cp' = [cp EXCEPT !.rejected = @ + 1]
      /\ Chunk \in Unfit \/ ~Missing({Chunk})
  BY DEF RejectDuplicate, RejectUnfit, given, diskVars
<1>2. pc' = "idle"
  BY <1>1, NextChunkEnds
<1>3. /\ k \in Nat /\ k < Total /\ k + 1 = cp.offset /\ cp.offset > 0
      /\ Chunk = doc[k].chunks[1]
  BY <1>1, TheLine
<1>4. /\ cp \in Counters /\ cp.scanned \in Nat /\ cp.kept \in Nat /\ cp.rejected \in Nat
  BY Facts
<1>5. Running /\ InHand = 1 /\ Through = k
  BY <1>1 DEF Running, Alive, InHand, Through
<1>6. Unsettled(cp) = 1 /\ Sizes[k] <= Len(Rows) /\ ~cp.complete
  <2>1. Unsettled(cp) \in Int
    BY <1>4 DEF Unsettled
  <2>2. Unsettled(cp) >= 1 /\ ~(Unsettled(cp) > 1)
    BY <1>1, <1>5 DEF Agreement, Settled
  <2>3. QED  BY <1>5, <2>1, <2>2 DEF Agreement, Settled, Ordered
<1>7. Sizes[k + 1] <= Len(Rows)
  <2>1. \/ doc[k].chunks[1] \in Unfit
        \/ \E i \in DOMAIN Rows : Rows[i] = doc[k].chunks[1]
    BY <1>1, <1>3, NotMissing
  <2>2. QED  BY <1>3, <1>6, <2>1, Covered DEF Agreement
<1> HIDE DEF k
<1>8. /\ cp' \in Counters /\ cp'.offset = cp.offset /\ cp'.complete = cp.complete
      /\ Unsettled(cp') = 0
  <2>1. /\ cp' \in Counters /\ cp'.offset = cp.offset /\ cp'.complete = cp.complete
        /\ cp'.scanned = cp.scanned /\ cp'.kept = cp.kept
        /\ cp'.rejected = cp.rejected + 1
    BY <1>1, <1>4 DEF Counters
  <2>2. QED  BY <1>4, <1>6, <2>1 DEF Unsettled
<1>9. QED  BY <1>1, <1>2, <1>3, <1>6, <1>7, <1>8, IdleAgreement

LEMMA CountRowAgreement ==
  ASSUME IInv, OneChunkEach, Agreement, CountRow
  PROVE  Agreement'
<1>1. /\ UNCHANGED <<doc, out, buffer, saved, stop, skip>>
      /\ pc = "count" /\ NextChunk /\ cp' = [cp EXCEPT !.kept = @ + 1]
  BY DEF CountRow, given, diskVars, rowVars
<1>2. Uncounted /\ Running /\ InHand = 1 /\ Through = cp.offset
  BY <1>1 DEF Uncounted, Running, Alive, InHand, Through
<1>3. pc' = "idle" /\ cp.offset > 0
  BY <1>1, <1>2, NextChunkEnds, TheLine
<1>4. /\ cp \in Counters /\ cp.scanned \in Nat /\ cp.kept \in Nat /\ cp.rejected \in Nat
  BY Facts
<1>5. Unsettled(cp) = 1 /\ Sizes[cp.offset] <= Len(Rows) /\ ~cp.complete
  <2>1. Unsettled(cp) \in Int
    BY <1>4 DEF Unsettled
  <2>2. Unsettled(cp) >= 1 /\ ~(Unsettled(cp) > 1)
    BY <1>2 DEF Agreement, Settled
  <2>3. QED  BY <1>2, <2>1, <2>2 DEF Agreement, Settled, Ordered
<1>6. /\ cp' \in Counters /\ cp'.offset = cp.offset /\ cp'.complete = cp.complete
      /\ Unsettled(cp') = 0
  <2>1. /\ cp' \in Counters /\ cp'.offset = cp.offset /\ cp'.complete = cp.complete
        /\ cp'.scanned = cp.scanned /\ cp'.kept = cp.kept + 1
        /\ cp'.rejected = cp.rejected
    BY <1>1, <1>4 DEF Counters
  <2>2. QED  BY <1>4, <1>5, <2>1 DEF Unsettled
<1>7. QED  BY <1>1, <1>3, <1>5, <1>6, IdleAgreement

LEMMA WriteRowAgreement ==
  ASSUME IInv, KInv, OneChunkEach, Agreement, WriteRow
  PROVE  Agreement'
<1> DEFINE k == cp.offset - 1
<1>1. /\ UNCHANGED <<doc, out, saved, cp, stop, skip>>
      /\ pc = "chunks" /\ ~skip /\ Chunk \notin Known /\ Chunk \notin Unfit
      /\ buffer' = Append(buffer, Chunk)
      /\ pc' \in {"write", "count"} /\ afterFlush' = "count"
  BY DEF WriteRow, given
<1>2. /\ k \in Nat /\ k < Total /\ k + 1 = cp.offset /\ cp.offset > 0
      /\ Chunk = doc[k].chunks[1] /\ doc[k].chunks # <<>> /\ Chunk \in Contents
  BY <1>1, TheLine
<1>3. Running /\ InHand = 1 /\ Through = k
  BY <1>1 DEF Running, Alive, InHand, Through
<1> HIDE DEF k
<1>4. Rows \in Seq(Contents) /\ Len(Rows) \in Nat /\ LinesTyped /\ Rows' = Append(Rows, Chunk)
  <2>1. out \in Seq(Contents) /\ buffer \in Seq(Contents)
    BY DEF IInv, Typed
  <2>2. out \o Append(buffer, Chunk) = Append(out \o buffer, Chunk)
    BY <1>2, <2>1, AppendToConcatenation
  <2>3. Rows' = Append(Rows, Chunk)
    BY <1>1, <2>2 DEF Rows
  <2>4. QED  BY <2>3, Facts
<1>5. \A i \in DOMAIN Rows : Rows[i] # Chunk
  BY <1>1, <1>3 DEF KInv, RowsKnown
<1>6. Unsettled(cp) = 1 /\ Sizes[k] <= Len(Rows)
  <2>1. Unsettled(cp) \in Int
    BY Facts DEF Unsettled
  <2>2. Unsettled(cp) >= 1 /\ ~(Unsettled(cp) > 1)
    BY <1>1, <1>3 DEF Agreement, Settled
  <2>3. QED  BY <1>3, <2>1, <2>2 DEF Agreement, Settled
<1>7. /\ Sizes[cp.offset] = Len(Rows) + 1 /\ Len(Rows) + 1 <= Sizes[Total]
      /\ Whole[Len(Rows) + 1] = Chunk
  BY <1>1, <1>2, <1>5, <1>6, NextRow DEF Agreement
<1>8. Sizes' = Sizes /\ Whole' = Whole
  BY <1>1, SameDoc
<1>9. /\ Len(Rows') = Len(Rows) + 1 /\ Rows'[Len(Rows) + 1] = Chunk
      /\ \A i \in 1 .. Len(Rows) : Rows'[i] = Rows[i]
  BY <1>2, <1>4
<1>10. RowsFollow'
  <2>1. \A i \in 1 .. Len(Rows) + 1 : i \in 1 .. Len(Rows) \/ i = Len(Rows) + 1
    BY <1>4
  <2>2. QED  BY <1>7, <1>8, <1>9, <2>1 DEF RowsFollow, Agreement
<1>11. InHand' = 1 /\ Through' = cp.offset /\ ~Closing'
  BY <1>1 DEF InHand, Through, Uncounted, Flushing, Closing
<1>12. Settled'
  <2>1. Sizes'[Through'] <= Len(Rows')
    BY <1>4, <1>7, <1>8, <1>9, <1>11
  <2>2. Unsettled(cp') = 1
    BY <1>1, <1>6
  <2>3. QED  BY <1>11, <2>1, <2>2 DEF Settled
<1>13. SavedSettled' /\ Ordered'
  BY <1>1, <1>8, <1>11 DEF Agreement, SavedSettled, Ordered
<1>14. QED  BY <1>10, <1>12, <1>13 DEF Agreement
--------------------------------------------------------------------------------
LEMMA FlushRowsAgreement ==
  ASSUME IInv, OneChunkEach, Agreement, FlushRows
  PROVE  Agreement'
<1>1. /\ UNCHANGED <<doc, saved, cp, stop, skip, afterFlush>>
      /\ pc = "write" /\ pc' = "index" /\ out' = Rows /\ buffer' = <<>>
  BY DEF FlushRows, given, Rows
<1>2. Rows' = Rows /\ Sizes' = Sizes /\ Whole' = Whole
  BY <1>1, Facts, SameDoc, EmptyConcatenation DEF Rows
<1>3. InHand' = InHand /\ Through' = Through /\ (Uncounted' <=> Uncounted)
      /\ (Closing' <=> Closing) /\ Running
  BY <1>1 DEF InHand, Through, Uncounted, Flushing, Closing, Running, Alive
<1>4. RowsFollow'
  BY <1>2 DEF Agreement, RowsFollow
<1>5. Settled'
  BY <1>1, <1>2, <1>3 DEF Agreement, Settled
<1>6. Ordered'
  BY <1>1, <1>3 DEF Agreement, Ordered
<1>7. SavedSettled'
  <2>1. Len(out) <= Len(out') /\ Len(out) \in Nat /\ Len(out') \in Nat
    BY <1>1, Facts, OutFollows DEF Agreement
  <2>2. Sizes[saved.offset] \in Nat
    BY Facts, FirstsFinite
  <2>3. QED  BY <1>1, <1>2, <2>1, <2>2 DEF Agreement, SavedSettled
<1>8. QED  BY <1>4, <1>5, <1>6, <1>7 DEF Agreement

LEMMA SaveAgreement ==
  ASSUME IInv, OneChunkEach, Agreement,
         FlushIndex \/ AutoSave \/ Pause \/ SavePaused \/ CloseSink
  PROVE  Agreement'
<1>1. /\ UNCHANGED <<doc, out, buffer, stop, skip>>
      /\ cp' \in {cp, [cp EXCEPT !.lines = cp.kept]}
      /\ saved' = saved \/ (saved' = cp' /\ pc \in {"save", "pause"})
  BY DEF FlushIndex, AutoSave, Pause, SavePaused, CloseSink, given, diskVars, rowVars
<1>2. \/ pc = "index" /\ pc' = "save" /\ afterFlush' = afterFlush
      \/ pc = "save" /\ pc' = afterFlush /\ afterFlush' = afterFlush
      \/ /\ pc \in {"idle", "pause"} /\ pc' = "write"
         /\ \/ afterFlush' \in {"pause", "leave"}
            \/ afterFlush' = "finish" /\ cp.offset = Total
  BY DEF FlushIndex, AutoSave, Pause, SavePaused, CloseSink, BeginFlush
<1>3. Rows' = Rows /\ Sizes' = Sizes /\ Whole' = Whole
  BY <1>1, SameDoc DEF Rows
<1>4. /\ cp \in Counters /\ cp' \in Counters /\ cp'.offset = cp.offset
      /\ cp'.complete = cp.complete /\ Unsettled(cp') = Unsettled(cp)
  <2>1. cp \in Counters
    BY Facts
  <2>2. /\ [cp EXCEPT !.lines = cp.kept] \in Counters
        /\ Unsettled([cp EXCEPT !.lines = cp.kept]) = Unsettled(cp)
        /\ [cp EXCEPT !.lines = cp.kept].offset = cp.offset
        /\ [cp EXCEPT !.lines = cp.kept].complete = cp.complete
    BY <2>1 DEF Counters, Unsettled
  <2>3. QED  BY <1>1, <2>1, <2>2
<1>5. afterFlush \in {"idle", "count", "pause", "leave", "finish"}
  BY DEF IInv, Typed
<1>6. /\ Running /\ (Uncounted' <=> Uncounted) /\ InHand' = InHand
      /\ Through = cp.offset /\ Through' = cp.offset /\ pc' # "chunks"
  BY <1>2, <1>4, <1>5 DEF Running, Alive, Uncounted, Flushing, InHand, Through
<1>7. RowsFollow'
  BY <1>3 DEF Agreement, RowsFollow
<1>8. Settled'
  BY <1>1, <1>3, <1>4, <1>6 DEF Agreement, Settled
<1>9. Closing' => Closing \/ cp.offset = Total
  BY <1>2, <1>5 DEF Closing, Flushing
<1>10. SavedSettled' /\ (saved'.offset = 0 => Unsettled(saved') = 0)
  <2>1. CASE saved' = saved
    BY <1>1, <1>3, <2>1 DEF Agreement, SavedSettled, Ordered
  <2>2. CASE saved' = cp' /\ pc \in {"save", "pause"}
    <3>1. Rows = out
      BY <2>2, Facts, EmptyConcatenation DEF Rows, IInv, Flushed
    <3>2. Unsettled(cp) >= InHand /\ InHand \in {0, 1} /\ Unsettled(cp) \in Int
      BY <1>6, Facts DEF Agreement, Settled, InHand, Unsettled
    <3>3. Unsettled(cp) = 0 => Sizes[cp.offset] <= Len(out)
      BY <1>6, <3>1, <3>2 DEF Agreement, Settled
    <3>4. QED
      BY <1>1, <1>3, <1>4, <2>2, <3>2, <3>3 DEF Agreement, SavedSettled, Ordered
  <2>3. QED  BY <1>1, <2>1, <2>2
<1>11. Ordered'
  BY <1>1, <1>4, <1>9, <1>10 DEF Agreement, Ordered
<1>12. QED  BY <1>7, <1>8, <1>10, <1>11 DEF Agreement

LEMMA LeaveAgreement ==
  ASSUME IInv, OneChunkEach, Agreement,
         Refuse \/ Leave \/ LeaveUnsaved \/ FailToComplete \/ Complete \/ Crash
  PROVE  Agreement'
<1>1. PICK status \in {"down", "refused", "failed"} : Down(status)
  BY DEF Refuse, Leave, LeaveUnsaved, FailToComplete, Complete, Crash
<1>2. doc' = doc /\ out' = out
  BY DEF Refuse, Leave, LeaveUnsaved, FailToComplete, Complete, Crash, diskVars, given
<1>3. CASE Complete
  <2>1. pc = "finish" /\ saved' = [cp EXCEPT !.complete = TRUE] /\ Accounted(cp)
    BY <1>3 DEF Complete
  <2>2. Unsettled(cp) = 0
    BY <2>1, Facts DEF Accounted, Unsettled
  <2>3. QED  BY <1>1, <1>2, <2>1, <2>2, DownAgreement
<1>4. CASE ~Complete
  <2>1. saved' = saved
    BY <1>4 DEF Refuse, Leave, LeaveUnsaved, FailToComplete, Crash, diskVars
  <2>2. QED  BY <1>1, <1>2, <2>1, DownAgreement
<1>5. QED  BY <1>3, <1>4

LEMMA NextAgreement ==
  IInv /\ KInv /\ OneChunkEach /\ Agreement /\ [Next]_vars /\ ~phantom' => Agreement'
<1> SUFFICES ASSUME IInv, KInv, OneChunkEach, Agreement, [Next]_vars, ~phantom'
             PROVE  Agreement'
  OBVIOUS
<1>1. CASE Start
  <2>1. doc' = doc
    BY <1>1 DEF Start, given
  <2>2. QED  BY <1>1, <2>1, StartFromScratchAgreement, ResumeAgreement DEF Start
<1>2. CASE StartFresh \/ RemoveOutput \/ RemoveIndex
  <2>1. doc' = doc
    BY <1>2 DEF StartFresh, RemoveOutput, RemoveIndex, given
  <2>2. QED  BY <1>2, <2>1, ClearAgreement
<1>3. ASSUME NEW n \in Lines, FastChain(n) \/ FallBack(n) PROVE Agreement'
  BY <1>3, AsideAgreement DEF FastChain, FallBack, given, diskVars, rowVars, runVars
<1>4. CASE FlushShard \/ StopSignal \/ UNCHANGED vars
  BY <1>4, AsideAgreement
  DEF FlushShard, StopSignal, given, diskVars, rowVars, runVars, vars
<1>5. CASE TakeLine
  BY <1>5, TakeLineAgreement
<1>6. CASE SkipChunks \/ RejectDuplicate \/ RejectUnfit \/ CountRow
  BY <1>6, SkipChunksAgreement, RejectAgreement, CountRowAgreement
<1>7. CASE WriteRow
  BY <1>7, WriteRowAgreement
<1>8. CASE FlushRows
  BY <1>8, FlushRowsAgreement
<1>9. CASE FlushIndex \/ AutoSave \/ Pause \/ SavePaused \/ CloseSink
  BY <1>9, SaveAgreement
<1>10. CASE Refuse \/ Leave \/ LeaveUnsaved \/ FailToComplete \/ Complete \/ Crash
  BY <1>10, LeaveAgreement
<1>11. QED
  BY <1>1, <1>2, <1>3, <1>4, <1>5, <1>6, <1>7, <1>8, <1>9, <1>10 DEF Next

LEMMA InitAgreement == Init /\ OneChunkEach => Agreement
<1> SUFFICES ASSUME Init, OneChunkEach PROVE Agreement
  OBVIOUS
<1>1. IInv
  BY InitIInv
<1>2. /\ Unsettled(NewCheckpoint) = 0 /\ NewCheckpoint.offset = 0
      /\ ~NewCheckpoint.complete /\ Sizes[0] = 0 /\ Sizes[Total] \in Nat
  BY <1>1, Facts, NewIsSettled, FirstsFinite
<1>3. /\ out = <<>> /\ buffer = <<>> /\ saved = NewCheckpoint /\ cp = NewCheckpoint
      /\ pc = "down" /\ ~skip
  BY DEF Init
<1>4. Rows = <<>> /\ Len(Rows) = 0 /\ Len(out) = 0
  BY <1>3 DEF Rows
<1>5. ~Running /\ ~Closing
  BY <1>3 DEF Running, Alive, Closing, Flushing
<1>6. QED
  BY <1>2, <1>3, <1>4, <1>5
  DEF Agreement, RowsFollow, Settled, SavedSettled, Ordered

\* History only grows, and the lines stay the same.
LEMMA PhantomGrows == [Next]_vars => (phantom => phantom') /\ doc' = doc
<1> SUFFICES ASSUME [Next]_vars PROVE (phantom => phantom') /\ doc' = doc
  OBVIOUS
<1>1. CASE TakeLine
  <2>1. doc' = doc
    BY <1>1 DEF TakeLine, given
  <2>2. phantom => phantom'
    BY <1>1 DEF TakeLine
  <2>3. QED  BY <2>1, <2>2
<1>2. CASE RejectDuplicate
  BY <1>2 DEF RejectDuplicate, given
<1>3. CASE ~TakeLine /\ ~RejectDuplicate
  <2>1. UNCHANGED <<doc, phantom>>
    BY <1>3
    DEF Next, vars, given, Start, StartFresh, RemoveOutput, RemoveIndex, Refuse, FastChain,
        FallBack, FlushShard, SkipChunks, RejectUnfit, WriteRow, CountRow, FlushRows,
        FlushIndex, AutoSave, Pause, SavePaused, Leave, CloseSink, LeaveUnsaved,
        FailToComplete, Complete, StopSignal, Crash
  <2>2. QED  BY <2>1
<1>4. QED  BY <1>1, <1>2, <1>3

AInv == OneChunkEach /\ ~phantom => Agreement

LEMMA AInvHolds == ASSUME ReadsAllRows PROVE Spec => [](IInv /\ KInv /\ AInv)
<1>1. Init => IInv /\ KInv /\ AInv
  BY InitIInv, InitAgreement DEF AInv, Init, KInv, RowsKnown, Repeatless, Rows
<1>2. IInv /\ KInv /\ AInv /\ [Next]_vars => (IInv /\ KInv /\ AInv)'
  <2> SUFFICES ASSUME IInv, KInv, AInv, [Next]_vars PROVE (IInv /\ KInv /\ AInv)'
    OBVIOUS
  <2>1. IInv' /\ KInv'
    BY NextIInv, NextKInv
  <2>2. ASSUME OneChunkEach', ~phantom' PROVE Agreement'
    <3>1. doc' = doc /\ ~phantom
      BY <2>2, PhantomGrows
    <3>2. OneChunkEach
      BY <2>2, <3>1 DEF OneChunkEach
    <3>3. QED  BY <2>2, <3>1, <3>2, NextAgreement DEF AInv
  <2>3. QED  BY <2>1, <2>2 DEF AInv
<1>3. QED  BY <1>1, <1>2, PTL DEF Spec

LEMMA PrefixByRows ==
  ASSUME NEW S, NEW s \in Seq(S), NEW t \in Seq(S), Len(s) <= Len(t),
         \A i \in 1 .. Len(s) : s[i] = t[i]
  PROVE  IsPrefix(s, t)
<1>1. SubSeq(s, 1, Len(s)) = SubSeq(t, 1, Len(s))
  OBVIOUS
<1>2. QED  BY <1>1 DEF IsPrefix

(* A merge that was let in, wherever it was stopped or killed before, has    *)
(* all rows of an uninterrupted one so far and none that such a one would    *)
(* not write, lines of one chunk and no phantom duplicate provided           *)
(* (checkpoint.py:323, monitor/invariants.py:22).                            *)
THEOREM OnTheReference == ASSUME ReadsAllRows PROVE Spec => []OnReference
<1>1. IInv /\ KInv /\ AInv => OnReference
  <2> SUFFICES ASSUME IInv, AInv, OneChunkEach, pc = "idle", ~stop, ~phantom
               PROVE  /\ IsPrefix(Reference(cp.offset), Rows)
                      /\ IsPrefix(Rows, Reference(Total))
    BY DEF OnReference, Rows
  <2>1. /\ LinesTyped /\ Rows \in Seq(Contents) /\ Len(Rows) \in Nat
        /\ cp.offset \in 0 .. Total /\ Total \in 0 .. Total
    BY Facts
  <2>2. /\ Reference(cp.offset) \in Seq(Contents) /\ Len(Reference(cp.offset)) = Sizes[cp.offset]
        /\ Whole \in Seq(Contents) /\ Len(Whole) = Sizes[Total]
        /\ Sizes[cp.offset] \in Nat
    BY <2>1, ReferenceTyped, FirstsFinite DEF Whole
  <2>3. Running /\ InHand = 0 /\ Through = cp.offset
    BY DEF Running, Alive, InHand, Uncounted, Flushing, Through
  <2>4. Unsettled(cp) = 0
    <3>1. Unsettled(cp) \in Int
      BY Facts DEF Unsettled
    <3>2. QED  BY <2>3, <3>1 DEF AInv, Agreement, Settled
  <2>5. Sizes[cp.offset] <= Len(Rows) /\ RowsFollow
    BY <2>3, <2>4 DEF AInv, Agreement, Settled
  <2>6. IsPrefix(Rows, Whole)
    BY <2>1, <2>2, <2>5, PrefixByRows DEF RowsFollow
  <2>7. \A i \in 1 .. Sizes[cp.offset] : Reference(cp.offset)[i] = Rows[i]
    <3> SUFFICES ASSUME NEW i \in 1 .. Sizes[cp.offset]
                 PROVE  Reference(cp.offset)[i] = Rows[i]
      OBVIOUS
    <3>1. Reference(cp.offset)[i] = Whole[i]
      BY <2>1, ReferenceBegins
    <3>2. i \in 1 .. Len(Rows)
      BY <2>1, <2>2, <2>5
    <3>3. QED  BY <2>5, <3>1, <3>2 DEF RowsFollow
  <2>8. IsPrefix(Reference(cp.offset), Rows)
    BY <2>1, <2>2, <2>5, <2>7, PrefixByRows
  <2>9. QED  BY <2>6, <2>8 DEF Whole
<1>2. QED  BY <1>1, AInvHolds, PTL

(* A merge that is recorded as complete has the output of one that was never *)
(* interrupted, with the same two provisos (dispatch/parallel.py:773).       *)
THEOREM CompletedIsReference == ASSUME ReadsAllRows PROVE Spec => []CompleteIsReference
<1>1. IInv /\ KInv /\ AInv => CompleteIsReference
  <2> SUFFICES ASSUME IInv, AInv, OneChunkEach, saved.complete, ~phantom
               PROVE  out = Reference(Total)
    BY DEF CompleteIsReference
  <2>1. /\ LinesTyped /\ out \in Seq(Contents) /\ Len(out) \in Nat /\ Total \in 0 .. Total
    BY Facts
  <2>2. Whole \in Seq(Contents) /\ Len(Whole) = Sizes[Total] /\ Sizes[Total] \in Nat
    BY <2>1, ReferenceTyped, FirstsFinite DEF Whole
  <2>3. Sizes[Total] <= Len(out) /\ RowsFollow
    BY DEF AInv, Agreement, SavedSettled
  <2>4. Len(out) <= Sizes[Total] /\ \A i \in 1 .. Len(out) : out[i] = Whole[i]
    BY <2>3, OutFollows
  <2>5. Len(out) = Len(Whole)
    BY <2>1, <2>2, <2>3, <2>4
  <2>6. out = Whole
    BY <2>1, <2>2, <2>4, <2>5
  <2>7. QED  BY <2>6 DEF Whole
<1>2. QED  BY <1>1, AInvHolds, PTL
================================================================================
