------------------------------ MODULE MergeResume ------------------------------
(***************************************************************************)
(* What is on disk when a merge stops or dies, and what the next merge      *)
(* makes of it: the output file, the checkpoint, the hash index and the     *)
(* document hashes of the fast workers (src/indw/schedule/apply/merge.py,   *)
(* state/checkpoint.py, state/setup.py, apply/dedup.py, dispatch/workers.py,*)
(* monitor/invariants.py, ingest/sink.py and hash.py, dedup/).              *)
(*                                                                          *)
(* One source, whose lines reach the apply thread in order (module          *)
(* ApplyCoordinator), but pass the fast workers in any.  A line is cut into *)
(* chunks; a chunk is its content, of which only matters whether it was     *)
(* seen before and whether the gate takes it.  Equal documents have equal   *)
(* text.  Near-duplicate filters let everything pass, and no heavy task     *)
(* fails.  The main thread touches the files only when the apply thread     *)
(* has been joined, so that one program counter is enough for the two; a    *)
(* join that times out and a second signal are left out.                    *)
(*                                                                          *)
(* A "Variant" is not part of the specification: it is the definition after *)
(* it with a mistake in it, which the property README.md names must notice. *)
(***************************************************************************)
EXTENDS Integers, Sequences, FiniteSets, SequencesExt

CONSTANTS
  Total,        \* lines of the source
  Docs,         \* what a line may be cleaned to
  Contents,     \* the contents a chunk can have
  Unfit,        \* those the quality gate rejects
  BufferRows,   \* write_buffer_bytes, in rows
  HashBatch,    \* batch_size of the hash index
  IndexChoices, \* the values useIndex may have
  NearLayers,   \* near-duplicate layers are configured
  FastFails,    \* whether a fast task may fail
  MaxSessions   \* merges started on the work directory

Doc == [kind : {"blank", "empty", "processed"}, rejects : Nat,
        chunks : Seq(Contents)]

ASSUME CountsAssumption ==
  Total \in Nat /\ {BufferRows, HashBatch, MaxSessions} \subseteq Nat \ {0}
ASSUME DocsAssumption ==
  /\ Docs \subseteq Doc /\ Unfit \subseteq Contents
  /\ \A d \in Docs : d.kind # "processed" => d.chunks = <<>>
ASSUME OptionsAssumption ==
  IndexChoices \subseteq BOOLEAN /\ {NearLayers, FastFails} \subseteq BOOLEAN

Lines == 0 .. Total - 1

VARIABLES
  doc,          \* doc[n]: what line n is cleaned to
  useIndex,     \* there is a corpus registry, and with it a hash index on disk
  \* on disk
  out,          \* filtered.jsonl
  saved,        \* merge_checkpoint.json
  db,           \* content_hashes of the hash index
  docIndex,     \* content_hashes of dedup_shards
  \* in the memory of the process
  cp,           \* the MergeCheckpoint
  buffer,       \* rows of the BufferedJsonlWriter
  seen,         \* _seen of ExactHashDedup
  pending,      \* _pending of PersistentHashIndex
  registered,   \* whether exact.kept > 0
  docPending,   \* _pending of the fast workers' shards
  fast,         \* fast[n]: "new" or "known" to the fast chain, "none" before it
  pc,
  afterFlush,   \* where a flush of the sink returns to
  pos,          \* the chunk that is being applied
  skip,         \* the stop_requested argument of this line
  stop,         \* stop_state.requested
  sessions,     \* merges started so far
  phantom       \* history: a fit content was rejected as a duplicate of no row

diskVars == <<out, saved, db>>
rowVars == <<buffer, seen, pending, registered>>
fastVars == <<docIndex, docPending, fast>>
runVars == <<pc, afterFlush, pos, skip, stop>>
given == <<doc, useIndex>>
vars == <<given, diskVars, cp, rowVars, fastVars, runVars, sessions, phantom>>

\* A checkpoint file that is not there reads like one in which nothing has
\* been done; lines is filtered_line_count.
NewCheckpoint ==
  [offset |-> 0, scanned |-> 0, kept |-> 0, rejected |-> 0, lines |-> 0,
   complete |-> FALSE]

\* No process: nothing is in memory.
Down(status) ==
  /\ pc' = status
  /\ cp' = NewCheckpoint
  /\ buffer' = <<>> /\ seen' = {} /\ pending' = {} /\ registered' = FALSE
  /\ docPending' = {} /\ fast' = [n \in Lines |-> "none"]
  /\ afterFlush' = "idle" /\ pos' = 1 /\ skip' = FALSE /\ stop' = FALSE

Init ==
  /\ doc \in [Lines -> Docs] /\ useIndex \in IndexChoices
  /\ out = <<>> /\ saved = NewCheckpoint /\ db = {}
  /\ cp = NewCheckpoint
  /\ buffer = <<>> /\ seen = {} /\ pending = {} /\ registered = FALSE
  /\ pc = "down" /\ afterFlush = "idle" /\ pos = 1
  /\ skip = FALSE /\ stop = FALSE
  /\ docIndex = {} /\ docPending = {} /\ fast = [n \in Lines |-> "none"]
  /\ sessions = 0 /\ phantom = FALSE

Alive == pc \notin {"down", "refused", "failed"}

\* bootstrap_merge_run has returned.
Running == Alive /\ pc \notin {"clearing", "clearingIndex", "ending"}

--------------------------------------------------------------------------------
(***************************************************************************)
(* bootstrap_merge_run.                                                     *)
(***************************************************************************)

\* Variant: the rows the checkpoint has counted are not read.
RowsCounted(c) == c.kept

\* restore_merge_dedup_from_output: how many rows from the top it does not
\* read, because the index is taken to have them.
RowsNotSeeded(c) ==
  LET fileLines == IF c.lines > 0 THEN c.lines
                   ELSE IF c.kept > 0 THEN c.kept ELSE Len(out)
      indexed == Cardinality(db)
  IN IF NearLayers \/ ~useIndex THEN 0
     ELSE IF indexed >= fileLines THEN Len(out) ELSE indexed

SeededFrom(c) ==
  {out[i] : i \in {j \in DOMAIN out : j > RowsNotSeeded(c)}}

\* reconcile_checkpoint_output, for one source, when it does not raise.
Reconciled(c) ==
  IF Len(out) > c.kept
  THEN [c EXCEPT !.scanned = @ + Len(out) - c.kept, !.kept = Len(out)]
  ELSE [c EXCEPT !.kept = Len(out)]

OutputLost(c) == out = <<>> /\ c.kept > 0

\* Variant: only the output is compared with the counters.
AccountedRows(c) == c.kept = Len(out)

\* validate_merge_accounting, but for the index.
Accounted(c) == c.scanned = c.kept + c.rejected /\ c.kept = Len(out)

StartFromScratch ==
  /\ saved.offset = 0
  /\ cp' = saved
  /\ out' = <<>>                        \* the file is opened with mode "w"
  /\ pc' = "idle"
  /\ UNCHANGED <<saved, db, rowVars>>

Resume ==
  /\ saved.offset > 0
  /\ IF useIndex
     THEN db' = db \cup SeededFrom(saved) /\ UNCHANGED seen
     ELSE seen' = SeededFrom(saved) /\ UNCHANGED db
  /\ IF ~OutputLost(saved) /\ Accounted(Reconciled(saved))
     THEN cp' = Reconciled(saved) /\ pc' = "idle"
     ELSE UNCHANGED cp /\ pc' = "ending"
  /\ UNCHANGED <<out, saved, buffer, pending, registered>>

\* A complete checkpoint ends the merge before it begins.
Start ==
  /\ ~Alive
  /\ sessions < MaxSessions
  /\ ~saved.complete
  /\ sessions' = sessions + 1
  /\ StartFromScratch \/ Resume
  /\ UNCHANGED <<given, fastVars, afterFlush, pos, skip, stop, phantom>>

\* Variant: the checkpoint is not removed.
KeepCheckpoint ==
  /\ ~Alive
  /\ sessions \in 1 .. MaxSessions - 1
  /\ sessions' = sessions + 1
  /\ pc' = "clearing"
  /\ UNCHANGED <<given, fastVars, out, saved, db, cp, rowVars, afterFlush, pos,
                 skip, stop, phantom>>

\* A merge with --fresh, whatever there is: clear_merge_outputs removes one
\* file after the other, the checkpoint first.  In the first session there
\* is nothing to remove.
StartFresh ==
  /\ ~Alive
  /\ sessions \in 1 .. MaxSessions - 1
  /\ sessions' = sessions + 1
  /\ saved' = NewCheckpoint
  /\ pc' = "clearing"
  /\ UNCHANGED <<given, fastVars, out, db, cp, rowVars, afterFlush, pos, skip,
                 stop, phantom>>

RemoveOutput ==
  /\ pc = "clearing"
  /\ out' = <<>>
  /\ pc' = "clearingIndex"
  /\ UNCHANGED <<given, fastVars, saved, db, cp, rowVars, afterFlush, pos, skip,
                 stop, sessions, phantom>>

\* The hash index of the registry goes, the workers' shards stay.
RemoveIndex ==
  /\ pc = "clearingIndex"
  /\ db' = {}
  /\ pc' = "idle"
  /\ UNCHANGED <<given, fastVars, out, saved, cp, rowVars, afterFlush, pos, skip,
                 stop, sessions, phantom>>

\* MergeAccountingError leaves merge_with_quality.
Refuse ==
  /\ pc = "ending"
  /\ Down("refused")
  /\ UNCHANGED <<given, docIndex, diskVars, sessions, phantom>>

(***************************************************************************)
(* The fast workers.                                                        *)
(***************************************************************************)

\* The pools are shut down, and their workers have ended, before the main
\* thread goes on to the end of the session.
Working == Running /\ afterFlush \in {"idle", "count"}

\* Lines that get as far as the document hash.
Hashed(n) == doc[n].kind = "processed"

\* process_stage0_batch registers the document it has not found.  A worker
\* sees what is on disk and what itself has not yet written.
FastChain(n) ==
  /\ Working
  /\ n >= cp.offset /\ Hashed(n) /\ fast[n] = "none"
  /\ \/ /\ doc[n] \notin docIndex
        /\ docPending' = docPending \cup {doc[n]}
        /\ fast' = [fast EXCEPT ![n] = "new"]
     \/ /\ doc[n] \in docIndex \cup docPending
        /\ fast' = [fast EXCEPT ![n] = "known"]
        /\ UNCHANGED docPending
  /\ UNCHANGED <<given, diskVars, docIndex, cp, rowVars, runVars, sessions,
                 phantom>>

\* The task of the line failed after this, and its batch is run again.
FallBack(n) ==
  /\ FastFails
  /\ Working
  /\ n >= cp.offset /\ fast[n] # "none"
  /\ fast' = [fast EXCEPT ![n] = "none"]
  /\ UNCHANGED <<given, diskVars, docIndex, docPending, cp, rowVars, runVars,
                 sessions, phantom>>

\* A shard writes its hashes when a batch of them is full, and when the worker
\* ends: after a stop the tasks in flight are waited for, and not collected.
FlushShard ==
  /\ Working
  /\ \E d \in docPending :
       docIndex' = docIndex \cup {d} /\ docPending' = docPending \ {d}
  /\ UNCHANGED <<given, diskVars, fast, cp, rowVars, runVars, sessions, phantom>>

(***************************************************************************)
(* apply_merge_preprocessed_line: counters and the chunk loop.              *)
(***************************************************************************)
Line == doc[cp.offset - 1]
Chunk == Line.chunks[pos]

\* The content of a line that is rejected as a duplicate is missing.
Missing(chunks) == \E c \in chunks : c \notin Unfit /\ ~Contains(out \o buffer, c)

KnownDocument == [kind |-> "processed", rejects |-> 1, chunks |-> <<>>]

TakeLine ==
  /\ pc = "idle"
  /\ cp.offset < Total
  /\ LET n == cp.offset
         d == IF fast[n] = "known" THEN KnownDocument ELSE doc[n]
         nothing == d.chunks = <<>> /\ d.rejects = 0
         scanned == IF d.kind = "blank" THEN 0 ELSE 1
         rejected == CASE d.kind = "blank" -> 0
                       [] d.kind = "empty" -> 1
                       [] OTHER -> IF nothing THEN 1 ELSE d.rejects
     IN /\ Hashed(n) => fast[n] # "none"
        /\ cp' = [cp EXCEPT !.offset = @ + 1, !.scanned = @ + scanned,
                            !.rejected = @ + rejected]
        /\ pc' = IF d.chunks # <<>> THEN "chunks" ELSE "idle"
        /\ fast' = [fast EXCEPT ![n] = "none"]
        /\ phantom' = (phantom \/ (fast[n] = "known"
                                    /\ Missing(Range(doc[n].chunks))))
  /\ pos' = 1
  /\ skip' = stop
  /\ UNCHANGED <<given, diskVars, docIndex, docPending, rowVars, afterFlush, stop,
                 sessions>>

NextChunk ==
  IF pos < Len(Line.chunks)
  THEN pos' = pos + 1 /\ pc' = "chunks"
  ELSE pos' = 1 /\ pc' = "idle"

\* Variant: a skipped line counts as rejected.
RejectSkipped ==
  /\ pc = "chunks"
  /\ skip
  /\ cp' = [cp EXCEPT !.rejected = @ + 1]
  /\ pos' = 1 /\ pc' = "idle"
  /\ UNCHANGED <<given, fastVars, diskVars, rowVars, afterFlush, skip, stop,
                 sessions, phantom>>

\* The rest of the line is skipped, and nothing counts it.
SkipChunks ==
  /\ pc = "chunks"
  /\ skip
  /\ pos' = 1 /\ pc' = "idle"
  /\ UNCHANGED <<given, fastVars, diskVars, cp, rowVars, afterFlush, skip, stop,
                 sessions, phantom>>

Known == seen \cup pending \cup db

RejectDuplicate ==
  /\ pc = "chunks"
  /\ ~skip
  /\ Chunk \in Known
  /\ cp' = [cp EXCEPT !.rejected = @ + 1]
  /\ seen' = seen \cup {Chunk}
  /\ phantom' = (phantom \/ Missing({Chunk}))
  /\ NextChunk
  /\ UNCHANGED <<given, fastVars, diskVars, buffer, pending, registered,
                 afterFlush, skip, stop, sessions>>

\* is_duplicate registers the content it has not found, before the gate has
\* seen it; a full batch of hashes is written at once.
Register(c) ==
  /\ seen' = seen \cup {c}
  /\ registered' = TRUE
  /\ IF ~useIndex THEN UNCHANGED <<pending, db>>
     ELSE IF Cardinality(pending \cup {c}) >= HashBatch
          THEN db' = db \cup pending \cup {c} /\ pending' = {}
          ELSE pending' = pending \cup {c} /\ UNCHANGED db

RejectUnfit ==
  /\ pc = "chunks"
  /\ ~skip
  /\ Chunk \notin Known /\ Chunk \in Unfit
  /\ Register(Chunk)
  /\ cp' = [cp EXCEPT !.rejected = @ + 1]
  /\ NextChunk
  /\ UNCHANGED <<given, fastVars, out, saved, buffer, afterFlush, skip, stop,
                 sessions, phantom>>

\* write_row: a full buffer is flushed before the row is counted.
WriteRow ==
  /\ pc = "chunks"
  /\ ~skip
  /\ Chunk \notin Known /\ Chunk \notin Unfit
  /\ Register(Chunk)
  /\ buffer' = Append(buffer, Chunk)
  /\ pc' = IF Len(buffer') >= BufferRows THEN "write" ELSE "count"
  /\ afterFlush' = "count"
  /\ UNCHANGED <<given, fastVars, out, saved, cp, pos, skip, stop, sessions,
                 phantom>>

CountRow ==
  /\ pc = "count"
  /\ cp' = [cp EXCEPT !.kept = @ + 1]
  /\ NextChunk
  /\ UNCHANGED <<given, fastVars, diskVars, rowVars, afterFlush, skip, stop,
                 sessions, phantom>>

(***************************************************************************)
(* BufferedJsonlWriter.flush with the checkpoint flusher as its hook.       *)
(***************************************************************************)

FlushRows ==
  /\ pc = "write"
  /\ out' = out \o buffer
  /\ buffer' = <<>>
  /\ pc' = "index"
  /\ UNCHANGED <<given, fastVars, saved, db, cp, seen, pending, registered,
                 afterFlush, pos, skip, stop, sessions, phantom>>

FlushIndex ==
  /\ pc = "index"
  /\ db' = db \cup pending
  /\ pending' = {}
  /\ pc' = "save"
  /\ UNCHANGED <<given, fastVars, out, saved, cp, buffer, seen, registered,
                 afterFlush, pos, skip, stop, sessions, phantom>>

\* The checkpoint is saved only if checkpoint_save_sec have passed since.
AutoSave ==
  /\ pc = "save"
  /\ \/ UNCHANGED <<cp, saved>>
     \/ /\ cp' = [cp EXCEPT !.lines = cp.kept]
        /\ saved' = cp'
  /\ pc' = afterFlush
  /\ UNCHANGED <<given, fastVars, out, db, rowVars, afterFlush, pos, skip, stop,
                 sessions, phantom>>

(***************************************************************************)
(* The end of a session, on the main thread: the coordinator has returned.  *)
(***************************************************************************)
BeginFlush(continuation) == pc' = "write" /\ afterFlush' = continuation

\* Variant: the checkpoint is saved before the rows are flushed.
PauseUnflushed ==
  /\ pc = "idle"
  /\ pc' = "pause" /\ afterFlush' = "pause"
  /\ UNCHANGED <<given, fastVars, diskVars, cp, rowVars, pos, skip, stop,
                 sessions, phantom>>

\* A stop was requested, or the time limit was reached: pause_merge_run.
Pause ==
  /\ pc = "idle"
  /\ BeginFlush("pause")
  /\ UNCHANGED <<given, fastVars, diskVars, cp, rowVars, pos, skip, stop,
                 sessions, phantom>>

\* ... which saves the checkpoint; then the sink is closed, with one flush more.
SavePaused ==
  /\ pc = "pause"
  /\ saved' = cp
  /\ BeginFlush("leave")
  /\ UNCHANGED <<given, fastVars, out, db, cp, rowVars, pos, skip, stop, sessions,
                 phantom>>

Leave ==
  /\ pc = "leave"
  /\ Down("down")
  /\ UNCHANGED <<given, docIndex, diskVars, sessions, phantom>>

\* All lines are applied and nobody asked for a stop: the sink is closed.
CloseSink ==
  /\ pc = "idle"
  /\ cp.offset = Total
  /\ ~stop
  /\ BeginFlush("finish")
  /\ UNCHANGED <<given, fastVars, diskVars, cp, rowVars, pos, skip, stop,
                 sessions, phantom>>

IndexLost == registered /\ Cardinality(Known) < cp.kept

\* A stop that comes this late leaves without a save.
LeaveUnsaved ==
  /\ pc = "finish"
  /\ stop
  /\ Down("down")
  /\ UNCHANGED <<given, docIndex, diskVars, sessions, phantom>>

FailToComplete ==
  /\ pc = "finish"
  /\ ~stop
  /\ ~Accounted(cp) \/ IndexLost
  /\ Down("failed")
  /\ UNCHANGED <<given, docIndex, diskVars, sessions, phantom>>

Complete ==
  /\ pc = "finish"
  /\ ~stop
  /\ Accounted(cp) /\ ~IndexLost
  /\ saved' = [cp EXCEPT !.complete = TRUE]
  /\ Down("down")
  /\ UNCHANGED <<given, docIndex, out, db, sessions, phantom>>

StopSignal ==
  /\ Running
  /\ ~stop
  /\ stop' = TRUE
  /\ UNCHANGED <<given, fastVars, diskVars, cp, rowVars, pc, afterFlush, pos,
                 skip, sessions, phantom>>

Crash ==
  /\ Alive
  /\ Down("down")
  /\ UNCHANGED <<given, docIndex, diskVars, sessions, phantom>>

Next ==
  \/ Start \/ Refuse
  \/ StartFresh \/ RemoveOutput \/ RemoveIndex
  \/ \E n \in Lines : FastChain(n) \/ FallBack(n)
  \/ FlushShard
  \/ TakeLine \/ SkipChunks
  \/ RejectDuplicate \/ RejectUnfit \/ WriteRow \/ CountRow
  \/ FlushRows \/ FlushIndex \/ AutoSave
  \/ Pause \/ SavePaused \/ Leave
  \/ CloseSink \/ LeaveUnsaved \/ FailToComplete \/ Complete
  \/ StopSignal \/ Crash

Spec == Init /\ [][Next]_vars
--------------------------------------------------------------------------------
Counters == [offset : 0 .. Total, scanned : Nat, kept : Nat, rejected : Nat,
             lines : Nat, complete : BOOLEAN]

TypeOK ==
  /\ doc \in [Lines -> Docs] /\ useIndex \in IndexChoices
  /\ {out, buffer} \subseteq Seq(Contents) /\ Len(buffer) <= BufferRows
  /\ saved \in Counters /\ cp \in Counters
  /\ {db, seen, pending} \subseteq SUBSET Contents
  /\ pc \in {"down", "refused", "failed", "ending", "clearing", "clearingIndex",
             "idle", "chunks", "count", "write", "index", "save", "pause", "leave",
             "finish"}
  /\ afterFlush \in {"idle", "count", "pause", "leave", "finish"}
  /\ pos \in Nat \ {0}
  /\ {registered, skip, stop} \subseteq BOOLEAN
  /\ {docIndex, docPending} \subseteq SUBSET Docs
  /\ fast \in [Lines -> {"none", "new", "known"}]
  /\ sessions \in 0 .. MaxSessions /\ phantom \in BOOLEAN

\* The chunks of the first n lines, by line and number.
Places(n) == UNION {{m} \X DOMAIN doc[m].chunks : m \in 0 .. n - 1}
At(p) == doc[p[1]].chunks[p[2]]
Earlier(p, q) == p[1] < q[1] \/ (p[1] = q[1] /\ p[2] < q[2])

\* Those the gate takes that have no equal before them, and how many of them
\* one has before it.
Firsts(n) ==
  {p \in Places(n) : At(p) \notin Unfit /\
     ~(\E q \in Places(n) : Earlier(q, p) /\ At(q) = At(p))}
Rank(p, n) == Cardinality({q \in Firsts(n) : Earlier(q, p)})

(* What one uninterrupted run writes for the first n lines: every content   *)
(* the gate takes, where it occurs first.                                   *)
Reference(n) ==
  [i \in 1 .. Cardinality(Firsts(n)) |->
     At(CHOOSE p \in Firsts(n) : Rank(p, n) = i - 1)]

(* However the merge was stopped, killed and started again, it never        *)
(* saves a checkpoint that counts a row the output file does not have.      *)
OutputAheadOfCheckpoint == saved.kept <= Len(out)

(* No content is written twice, not even when the rows a killed session     *)
(* flushed after its last checkpoint are applied again.                     *)
NoRepeats == \A i, j \in DOMAIN out : i < j => out[i] # out[j]

\* A line is kept or rejected as a whole.  With several sections a rejection
\* may make up, in the counters, for a line that was skipped.
OneChunkEach == \A n \in Lines : Len(doc[n].chunks) + doc[n].rejects <= 1

(* A session that was let in has every row an uninterrupted run would have  *)
(* written so far, and no other row than such a run would write: a resumed  *)
(* output with a hole is refused, not continued.  It may be ahead, by rows  *)
(* that were flushed after the last checkpoint.  The duplicate filters are  *)
(* excepted: their hashes are on disk before the rows are.                  *)
OnReference ==
  OneChunkEach /\ pc = "idle" /\ ~stop /\ ~phantom =>
    /\ IsPrefix(Reference(cp.offset), out \o buffer)
    /\ IsPrefix(out \o buffer, Reference(Total))

(* A merge that is recorded as complete has the output of one that was      *)
(* never interrupted, with the same exception.                              *)
CompleteIsReference ==
  OneChunkEach /\ saved.complete /\ ~phantom => out = Reference(Total)

(* "Interrupted merges resume from checkpoint ... output hash remains       *)
(* stable" (workflows.mdx), without the exception.                          *)
OutputIsStable == saved.complete => out = Reference(Total)

(* Once there is a checkpoint to resume from, rows are only ever appended.  *)
RowsAreKept == [][saved.offset > 0 => IsPrefix(out, out')]_out

(* "Interrupted merges resume from checkpoint" (workflows.mdx).             *)
NeverRefused == pc # "refused"
================================================================================
