# Verification of the InDW merge

InDW (`src/src/indw`) downloads raw text corpora, filters them into one JSONL
file, publishes it as a version of a corpus, and packs its tokens into training
rows. Its core is the *merge*: a reader, two pools of workers, a scheduler loop
and one apply thread process lines out of order and write them in order, and a
checkpoint lets a merge that was stopped or killed go on later. This directory
holds TLA+ models of the merge and of what is around it, the TLC configurations
that check them on small instances, and proofs about nine of them checked by
TLAPS.

Paths of source files below are relative to `src/src/indw`.

## 1. The system

### 1.1 How a merge works

```
                      stop event (signal, time limit)
                                  |
 sources -> reader thread -> read_queue -> scheduler loop (main thread)
   ^                                          |   ^
   | download               fast tasks        v   |   results, in any order
   | (ingest)                         fast worker pool <-> document hashes
                      terminal lines  /        \  survivors   (dedup_shards)
                                     v          v
                         reorder buffer <--    lanes: normal, large, huge
                         (_line_results)   \        |
                                |           \       v
                                v            heavy worker pool
                          apply thread
                                |
            counters, exact duplicates, gate, write buffer
                                |
     filtered.jsonl    merge_checkpoint.json    hash index (with a registry)
           |
  corpus registry: replay pool, manifest, latest.json  ->  token shards -> rows
```

A merge runs inside one merge run lock, a JSON file in the work directory.

| Component | State | Operations | Talks to |
|---|---|---|---|
| Reader thread (`schedule/dispatch/parallel.py:59`) | batch in hand, sequence number | fill a batch, put it with a timeout, put the sentinel | `read_queue`, stop event |
| Interleaved sources (`schedule/core.py`, `schedule/read/sources.py`) | a handle and line number per source, the tick | open at the saved offsets, next line by weight | reader, checkpoint |
| Scheduler loop (`schedule/graph/runner.py`) | tables of fast and heavy tasks, drain mode | pull, collect in id order, fall back, submit the head or from the lanes, drain | queue, pools, lanes, coordinator |
| Lanes (`schedule/dispatch/lanes.py`, `schedule/config/tune.py`) | three sorted lists, slot limits | route, pick a batch, pop the head | scheduler |
| Worker pools (`schedule/dispatch/workers.py`, `schedule/stages/pools/chain.py`, `schedule/backends/`) | a context per process | run a batch; may raise | scheduler, document dedup |
| Document dedup (`schedule/stages/pools/stage0.py`, `dedup/service/exact_shard.py`, `ingest/hash.py`, `dedup/exact.py`) | `_seen`, lookup cache, pending hashes and a cursor per process; SQLite shards | look up, register, flush a full batch, flush at the end | fast workers, the next merge |
| Apply coordinator (`schedule/apply/coordinator.py`) | `_line_results`, `_next_write_seq`, `_stop` | ingest, pop, apply, advance, stop | scheduler thread, apply thread |
| Applying a line (`schedule/apply/merge.py`, `ingest/sink.py`, `ingest/hash.py`) | counters, write buffer, `_seen` | count, reject duplicate or unfit, write row, flush | apply thread, checkpoint |
| Checkpoint and resume (`schedule/state/checkpoint.py`, `schedule/state/setup.py`, `schedule/apply/dedup.py`, `schedule/monitor/invariants.py`, `schedule/apply/lifecycle.py`) | `merge_checkpoint.json` | load, prune, reconcile, restore hashes, assert, save on flush, pause, complete | output file, hash index |
| Atomic files (`store/io/atomic.py`) | file, temporary file, backup | back up, write, replace | checkpoint |
| Merge run lock (`schedule/state/lock.py`) | the lock file | acquire, release, staleness, force | other processes |
| Signals (`schedule/row/signals.py`) | `stop_state.requested` | first signal asks for a stop, second one saves and exits | everything |
| Ingestion and registry (`ingest/run.py`, `ingest/download.py`, `store/corpus/`) | raw files, replay pool, manifests, `latest.json` | download up to a cap or skip, merge, save a manifest, roll back | the merge |
| Packing (`store/export/packed_stream.py`, `store/export/packing/binpack.py`) | carry, queue of documents | feed a chunk, split, pack a row, next window | training |

The other components are listed in section 7 with the reason they are not
modelled, and all of them in `PROJECT.json`.

### 1.2 What is hard about it

* **Order.** Workers finish in any order, and the apply thread pops under the
  lock, applies outside it and advances under it again.
* **Backpressure against order.** Submission stops when the reorder buffer is
  full, and the buffer drains only when the head, possibly among what is not
  submitted, arrives. Head priority exists to prevent this.
* **Failure of a part.** Fast tasks are run again on the main thread, although
  the first attempt has left its hashes; heavy tasks are dropped; the reader and
  the apply thread die silently.
* **Stopping.** A stop or time limit comes at any point; queue, lanes, tasks
  and the reader's untimed put of the sentinel must not keep the run alive. A
  join expires, or a second signal saves, while the apply thread still works on
  the same buffer and the same temporary file.
* **Shared memory without locks.** Threads of one process share the sink, the
  checkpoint file and the hash index.
* **Crash and restart.** Output, checkpoint, hash index and the workers' hash
  shards reach the disk at different moments; a resumed merge has to make one
  consistent state of them, for several sources that come and go.
* **Two merges.** The lock file is read, judged and replaced in three steps.
* **Publication.** Pool, manifest and pointer are written one after the other
  and in place, under names whose order is that of text.
* **Seams.** Chunks, documents and rows end at different tokens.

`PROJECT.json` lists these hazards one by one, each at its line, with the
properties that cover it or the reason none does.

### 1.3 What makes each component correct

* *Coordinator*: output in document order, without hole or repetition; nothing
  delivered is lost; `stop()` drains what is ready.
* *Scheduler, lanes, reader, pools*: every line is in one place; the documented
  limits hold up to a known overshoot; the run ends when asked to, and completes
  when nothing goes wrong; "complete" means what it says.
* *Document dedup*: every text arrives once, whichever worker meets it and
  however often its batch is run.
* *Apply, checkpoint, index*: the saved checkpoint is never ahead of the output;
  a resumed merge repeats nothing, skips nothing, and ends with the output of an
  uninterrupted one; the counters of several sources fit the one output file.
* *Sink and atomic files*: a row is written once, whoever flushes; after a crash
  checkpoint or backup can be read.
* *Lock*: one merge at a time; no lock left behind.
* *Registry*: what is published is what was merged, all parts of one corpus, and
  published versions are not changed.
* *Packing*: tokens keep their order, none is doubled, and those that are lost
  are lost for a known reason.

## 2. The modules

| Module | Models | Uses |
|---|---|---|
| `OrderedOutput` | the promise: results arrive in any order, lines are written 0, 1, 2, ... | |
| `ApplyCoordinator` | the reorder buffer and the apply thread | implements `OrderedOutput` |
| `ApplyCoordinatorProofs` | proofs about it | `TLAPS` |
| `GraphMerge` | a whole parallel run: reader, pools, scheduler loop, lanes, coordinator, deadlines, stop | instantiates `ApplyCoordinator` as `Coord` and is a legal environment of it |
| `GraphMergeProofs` | proofs about it, and what the coordinator's theorems say of a whole run | instantiates `ApplyCoordinatorProofs` |
| `DocumentDedup` | the fast workers' document hashes, on threads or processes, with failing tasks and writes | takes from `ApplyCoordinator` that documents are applied in order |
| `DocumentDedupProofs` | proofs about it | `TLAPS` |
| `MergeRunLock` | the lock file and the sessions that compete for it | |
| `MergeRunLockProofs` | proofs about it | `TLAPS` |
| `MergeResume` | disk and memory of one work directory over several sessions, one source | takes from `ApplyCoordinator` that lines are applied in order |
| `MergeResumeProofs` | proofs about it | `TLAPS` |
| `InterleavedSources` | the same for several sources, with incremental and appending merges | abstracts the steps of `MergeResume` inside a line |
| `InterleavedSourcesProofs` | proofs about it | `TLAPS` |
| `SharedSink` | sink and checkpoint file under apply thread, main thread and signal handler | the end of a merge that `GraphMerge` and `MergeResume` take as one thread's |
| `SharedSinkProofs` | proofs about it | `TLAPS` |
| `CorpusRun` | download, merge, publication, rollback | abstracts the merge |
| `PackedStream` | chunked reading of token shards, the packer and the contiguous windows | |
| `StoreProofs` | proofs about `CorpusRun` and `PackedStream` | `TLAPS` |
| `MC...` | instances for TLC; some have a self-loop `Terminated` in the states where the program is over, so that any other deadlock is reported | |

Definitions named *Variant* in a comment are not part of a specification: each
is the definition after it with a plausible mistake. Section 4 names the
property that must notice it. Every module has a type invariant `TypeOK` (that of
`PackedStream` is `StreamTypes`, in `StoreProofs`); it is not among the runs'
properties, and holds under the same configurations.

### ApplyCoordinator

`lineResults` is the set of keys of `_line_results`, `nextWriteSeq` is
`_next_write_seq`, `stopSet` is `_stop`; `applyPc` says where the apply thread
is in `run_loop`. Each action is one critical section or one call outside the
lock: `Ingest` (`ingest_lines`, `ingest_batch`), `Stop`, `Pop`, `Apply` (the
call of `apply_fn`), `Raise` (it or a hook after it raises; nothing catches it),
`Advance`, `Exit`. `written` and `delivered` are history. The condition variable
does not appear: every wait in the code has a timeout, so a notification only
makes the thread look earlier. The periodic flush every `checkpoint_interval`
lines is left out because it never runs (finding on `schedule/apply/coordinator.py:150`).

The refinement mapping to `OrderedOutput` is the identity on `written` and
`delivered`; all else stutters.

### GraphMerge

A line is its sequence number; `kind` draws in the initial state what the
filters would say of it. The main thread's program counter `pc` walks through a
pass of `run_graph_merge`: `top` (loop condition, drain, backpressure), `pull`,
`collectFast`, `head` and `submit` and `lanes` (`_submit_heavy_lanes`, called
once or twice per pass: `pass`), `collectHeavy`, then `left`, `joining`,
`ended`. A step ends wherever the coordinator is read or written, because the
apply thread may act in between; in particular the ordering gap, the head and
`can_accept` are read in separate steps, as they are in the code. The tables
`pending_fast` and `pending_heavy` are functions from task ids. Lanes are
sets: the code keeps their lists sorted by sequence number, so the first element
is the least one. `PickBatch`, `LaneAccepts` and `NothingToSubmit` are the
conditions of `pick_lane_batch` and `_submit_heavy_lanes`, including the slot
limit of zero that the code treats as one.

`Faults` selects what may go wrong: worker tasks that raise, an apply function
that raises, sources that raise, the time limit, a stop signal, a join that
times out.

### DocumentDedup

A step is what a thread does between two points where Python may switch to
another: `CheckKnown` and `CheckUnknown` (`_seen` and the lookup cache),
`Execute` and `Fetch` (the two calls on the index's one cursor), `Register`
(`_stage_hash`), `Flush` (`flush` takes the pending list) and `Write` (the
insertion and its commit). `Home` says whose memory a thread uses: its own
process's with the process backend, the main process's with the thread backend,
where seen hashes, cache, pending list and cursor are shared by all. A task may
fail between two documents (`Raise`) or in the write (`WriteFails`); the main
thread then runs its batch again (`TakeBatch` of `Main`), in the context that
`run_fallback_merge` opens. `Shutdown` is the end of a process. `earlier` is what the merge before has left in
`dedup_shards`, in `OldShards` shards.

`lost`, `abandoned`, `mixed` and `overlapped` are history: the hashes that a
failed write dropped, that a failed task had registered, whose lookup fetched
another lookup's row, and that were looked up while somebody else was
registering them. The properties except them exactly where the code does go
wrong: each exception, when it is dropped, gives a violation (section 6).

### MergeRunLock

A session is one call of `merge_with_quality`; sessions with one `Pid` run in one
process. `Read`, `Judge` and `Write` are the three steps of
`acquire_merge_run_lock`, `LetGo` and `Unlink` the two of the release. The age of
a lock is one bit, set by `GrowOld` in the file and in what sessions have read of
it. `excuses` is history: it records each circumstance in which a second session
may get in.

### MergeResume

One source over several sessions. On disk: `out`, `saved`, `db` (the hash index)
and `docIndex` (the workers' shards). In memory: the checkpoint object `cp`, the
write buffer, `seen`, `pending`, `docPending`. `Start` with `StartFromScratch` or
`Resume` is `bootstrap_merge_run`; `StartFresh`, `RemoveOutput` and `RemoveIndex` are
its beginning with `--fresh`, which removes the checkpoint, the output and the
hash index one after the other and leaves the shards (`docIndex`); `FastChain`, `FallBack`, `FlushShard` are the
fast workers; `TakeLine`, `SkipChunks`, `RejectDuplicate`, `RejectUnfit`,
`WriteRow`, `CountRow` are `apply_merge_preprocessed_line` and
`write_merge_chunks`; `FlushRows`, `FlushIndex`, `AutoSave` are the flush of the
sink with the checkpoint flusher as its hook, which continues wherever the flush
was called from (`afterFlush`); `Pause` to `Complete` are the end of a session.
`StopSignal` and `Crash` may come between any two of them. `useIndex` says
whether there is a corpus registry, and with it a hash index on disk.

Only what properties tell apart is left of the data: a chunk is its content, of
which only equality and the gate's verdict matter; a document is a few chunks and
a count of rejected ones; a line that is not processed has no chunks. `Reference`
is what an uninterrupted merge of the first lines writes: the fit contents at the
places where they occur first, in their order. `phantom` is history: a fit content was rejected as a
duplicate although no row has it. The properties that compare with an
uninterrupted run except it where they must, and `OutputIsStable` states the same
without the exception and is violated.

### InterleavedSources

The checkpoint has a row of counters per source, `names` is the order of its
dict. `Start`, with `BeginFresh`, `BeginResumed` and `BeginAppending`, is
`bootstrap_merge_run` for the sources that are there, `StartIncremental` for
those of a `source_filter`: `Pruned` drops the rows of other sources, `WithRows`
makes those of new ones, `Reconciled` shares a surplus of rows out by rounded
shares. `ReadLine`, `EndOfFile` and `SkipTurn` are the turns of the weighted
schedule, which is not built as a sequence: `Before` counts the turns of the
sources that come before one, and `tick` is a place in it. Lines wait in `feed` between the reader and the apply thread. A source
may arrive between two sessions (`Download`), the output may lose rows
(`LoseRows`), and a crash may come at any point.

### SharedSink

A step is one access to a shared attribute or file: `write_row` is `LoadBuffer`,
`Put`, `LoadBytes`, `StoreBytes`; `flush` is `CheckBytes`, `GetValue`, `Write`,
`Reset`, `Zero`, `Hook`; `atomic_write_json` is `Snapshot`, `BeginBackup`,
`CopyBackup`, `OpenTemp`, `FillTemp`, `ReplacePath`. A file is an inode: two
names may refer to one, and a thread goes on writing to an inode that has been
renamed. The main thread takes part after its join, and the handler of a second
signal between any two steps of the main thread, whose own steps then wait.
`clashes` and `expired` are history: which uses overlapped, and whether the join
gave up.

### CorpusRun

A run of the pipeline downloads each source (`SkipSource`, `OpenSource`,
`FetchRow`, ...), merges (`BeginFresh` with `--fresh`, `BeginResumed`,
`MergeRow`, and `EndMerge` or `EndMergeShort`) and saves a manifest in its steps: the replay pool is
copied, the number taken, the manifest opened and written, the pointer opened and
written. A file that is open is `Torn`, and stays so after a crash. `Digits` is
how a version is written in a file name, so that the order of names, which
`latest_manifest` and `next_version` rely on, is that of text. `EndMergeShort` is the
merge that becomes complete although rows are missing, as it does after a dropped
heavy batch or the death of the reader or the apply thread (`GraphMerge` has these
faults); any rows may be missing then, and `lost` counts them. `late`, `lost` and
`interrupted` are history.

### PackedStream

A token is its position in the stream, so that its fate can be followed; of its
value only matters whether it is the delimiter. `phase` says which loop is at work,
and the loops of `feed_tokens` and `pack_one` are stepped through, one document at a
time:

* `SkipShard`, `OpenShard`, `EndShard` are the loop over shards, `ReadBlock` is the
  next chunk of one, for both datasets.
* `FeedTokens` joins the chunk to the carry, and leaves it there if all is shorter
  than a document. Otherwise `SplitAtDelimiter` cuts off what comes before the next
  delimiter, and queues or drops it; `SplitTail` queues what comes after the last one,
  or carries it over if it is short.
* `TakeDocument` is one turn of the first loop of `pack_one`. The row ends as
  `PackExactly` (it is full), `PackPadded`, or `FillRow`, the second loop, which fills
  it up without delimiters and truncates the document that fills it. `SplitDocument` is
  the row of a document that is longer than one, and `PackNothing` the return of None.
* `FeedBlock`, `YieldWindow`, `NextBlock` are the contiguous dataset. A window, and the
  two tensors made of it, is a view of the first places of the carry array, so `rows`
  is not what was yielded but what is found there now: whenever something is written to
  the beginning of the array (a chunk, or the rest that is moved), every window of the
  array changes with it (`WriteThrough`, `Overwritten`). `capacity` is the length of the
  array; a chunk that does not fit makes the code take a larger one, and the windows of
  the old one (`released`) keep what they had.

`stream`, `cuts` (where chunks begin in it), `released` and `rows` are history. `Held` is, in this
order, all that was yielded, is packed, queued and carried over. The initial state and
the specification are called `StreamInit` and `StreamSpec`, as `StoreProofs` extends
`CorpusRun` as well.

## 3. The runs

Every passing run ends within about two minutes with two TLC workers.

| Run | Configuration | States | What it shows |
|---|---|---|---|
| `apply_coordinator` | `MCApplyCoordinator.cfg` | 406 | order, no loss, drain at stop, refinement of `OrderedOutput`, and that what can be written is written |
| `graph_bounds` | `MCGraphMergeBounds.cfg` | 243 thousand | how far reorder buffer and lanes overshoot their limits |
| `graph_faults` | `MCGraphMergeFaults.cfg` | 1.7 million | with every fault: each line in one place, slots exceeded by the head only, completion up to the first loss, the coordinator used as specified |
| `graph_liveness` | `MCGraphMergeLiveness.cfg` | 351 thousand | a stop or time limit ends the run; a run in which nothing goes wrong completes or clogs |
| `document_dedup` | `MCDocumentDedup.cfg` | 1.5 million | threads and processes, failing tasks and writes: every text arrives, and once, but for named reasons |
| `run_lock` | `MCMergeRunLock.cfg` | 154 thousand | mutual exclusion except in three named circumstances, no orphan locks |
| `resume` | `MCMergeResume.cfg` | 3.2 million | three sessions, plain or with `--fresh`: output ahead of checkpoint, no repeats, agreement with an uninterrupted run |
| `sources` | `MCInterleavedSources.cfg` | 750 thousand | two sources over four sessions: offsets, counters and output fit together, the mix follows the weights |
| `shared_sink` | `MCSharedSink.cfg` | 1.6 million | two threads and a signal handler on one sink and one checkpoint |
| `corpus` | `MCCorpusRun.cfg` | 3.0 million | download, merge, also one that loses rows, publication and rollback with a crash anywhere |
| `packing` | `MCPackedStream.cfg` | 1.2 million | every pair of short shards, packed and windowed; the windows are looked at after every later step |
| `resume_stable` | `MCMergeResumeStable.cfg` | violation | a crash at the wrong moment, and the completed output lacks a document |

Other configurations are kept to reproduce findings: `MCGraphMergeClogs.cfg`
(`Completes`), `MCGraphMergeHeavyLoss.cfg` (`CompleteMeansAllWritten`),
`MCMergeRunLockRace.cfg` (`Exclusive`), `MCMergeResumeRefused.cfg`
(`NeverRefused`), `MCCorpusRunOverlap.cfg` (`PublishedTogether` with two runs at
once) and `MCDocumentDedupOneShard.cfg` (`EveryTextArrives` with one shard). Each
ends in a violation.

`CHECK_DEADLOCK FALSE` stands in `sources`, `shared_sink`, `corpus`, `packing` and
`document_dedup`, whose programs end: all sessions used, threads finished, nothing
left to pack.

### Bounds, and why they are enough

* `apply_coordinator`: five lines (`Total`). The state depends on which lines are
  there and where the head is; the proofs cover every `Total`.
* `graph_bounds`: five lines, all limits one, batches of two. The overshoot is one
  full set of tasks in flight beyond the limit; five lines are what it takes to
  reach both bounds (each is attained: lowering a bound by one gives a violation).
* `graph_faults`: three lines, two tasks of each sort in flight and batches of up
  to two, so that tasks end out of order, a batch is collected while another one
  runs, and a fault hits one of two. Queue and lanes have limits of one; the
  reorder buffer has one of two, so that it can hold a line and the head still be
  asked for: the first line waits in a lane while the second has its slot and the
  third is buffered, and the lane exceeds its slots. All limits are reached.
* `graph_liveness`: three lines and a lane with no slot at all (`huge`), a reader
  that can block on a queue of one. The reorder buffer has a limit of two, so that one
  line that is out of order does not yet clog it.
* `document_dedup`: four documents in three tasks, so that a task can fail between
  two documents while the other worker has a task and a third is waiting; two
  workers (symmetric: they differ in nothing but their name), index batches of two,
  two texts in the same shard or in two, `OldShards` three against two, one fault.
* `run_lock`: four sessions in three processes; two of them share a process, two
  are forced. The proofs cover any number.
* `resume`: three lines of one chunk without a hash index, so that there can be a
  repetition, a rejection and a fresh content in one file; or, with a hash index
  and its batches of two, two lines of several chunks and a blank one. A write
  buffer of two rows, so that it is flushed in the middle; three sessions, so
  that a resumed session is itself interrupted and resumed, or that a fresh start
  is interrupted between two removals. The fit contents are
  symmetric (`Symmetry`), which is sound here: no action or invariant tells them
  apart and only safety is checked.
* `sources`: two sources with weights 2 and 1 and up to three lines each, a buffer
  of one row, read-ahead of two, four sessions: a source is exhausted before the
  other, arrives between two sessions, or is left out by a filter in one of them;
  and a row is flushed, and the checkpoint saved, before the row is counted, so that
  there is a surplus to share out.
* `shared_sink`: three rows, two to a line, a buffer of two, one save by the hook
  and one by the end; every access of the two threads is a step, so that the
  number of threads and steps makes the state space, not the number of rows.
* `corpus`: one run at a time, two sources of two rows (one optional; one smaller
  than its cap of three, one cut by a cap of one), versions in base 3, four starts, one
  rollback: the number of digits changes at the third version. From one row to
  all of them may be missing when a merge becomes complete. A file that is too small
  to be taken for the source is an empty one at this size; the theorems hold for every
  cap.
* `packing`: two shards of every content up to six tokens, and of seven with at most
  two delimiters, rows of four, documents from two tokens, two segments to a row,
  chunks of six: a document spans chunk and row ends, a tail is short, a row is
  padded and filled; and three tokens carried over and a chunk do not fit into the
  first array of eight, so that a window is left behind in it.
* Nothing else is bounded: counters are limited by the number of lines and
  sessions.

### Fairness

Only `ApplyCoordinator!FairSpec` and `GraphMerge!FairSpec` state fairness, and
only weak fairness, of whole threads rather than of single actions:

* `ApplyStep`/`ApplyThread`, `ReaderStep`, `SchedulerStep`: threads the operating
  system keeps scheduling; all their waits but one have timeouts, and the one
  without, the put of the sentinel, is disabled while the queue is full.
* `WorkerStep`: a task ends. It may end with an exception; a task that hangs is
  outside the model, because the code would wait for it without limit
  (`collect_timeout` is applied to finished tasks only).
* `DrainExpires`: a deadline that has been set passes.

Stop signals, time limit, exceptions and failures are never fair.

## 4. Properties and the mistakes they must notice

| Run | Property | Mistake | In place of |
|---|---|---|---|
| `apply_coordinator` | `WrittenInOrder` | `RaiseAndRetry` | `Raise` |
|  | `NothingLost` | `IngestReplaces` | `Ingest` |
|  | `DoneMeansDrained` | `ExitAtStop` | `Exit` |
|  | `ImplementsOrderedOutput` | `PopBlindly` | `Pop` |
|  | `EventuallyWritten` | `ExitWhenIdle` | `Exit` |
| `graph_bounds` | `ApplyBufferBounded` | `StartPassAnyBuffer` | `StartPass` |
|  | `LanesBounded` | `StartPassAnyLanes` | `StartPass` |
| `graph_faults` | `EachLineInOnePlace` | `SubmitHeadAndKeep` | `SubmitHead` |
|  | `SlotsExceededByHeadOnly` | `LaneAcceptsOneMore` | `LaneAccepts` |
|  | `CompleteUpToFirstLoss` | `AllCollectedButLanes` | `AllCollected` |
|  | `UsesCoordinatorAsSpecified` | `FallBackAndRoute` | `FallBack` |
| `graph_liveness` | `AskedToEnd` | `DrainWithoutDeadline` | `DrainDone` |
|  | `CompletesUnlessClogged` | `LaneAcceptsPerSlot` | `LaneAccepts` |
| `document_dedup` | `EveryTextArrives` | `FailPartly` | `Fail` |
|  | `LetThroughOnce` | `WriteUncommitted` | `Write` |
| `run_lock` | `ExclusiveUnlessExcused` | `GrantsToAnyForced` | `Grants` |
|  | `NoOrphanLock` | `LetGoAndLeave` | `LetGo` |
| `resume` | `OutputAheadOfCheckpoint` | `PauseUnflushed` | `Pause` |
|  | `NoRepeats` | `RowsCounted` | `RowsNotSeeded` |
|  | `OnReference` | `AccountedRows` | `Accounted` |
|  | `CompleteIsReference` | `RejectSkipped` | `SkipChunks` |
|  | `RowsAreKept` | `KeepCheckpoint` | `StartFresh` |
| `sources` | `ReaderMeetsCheckpoint` | `OpenOneAhead` | `OpenSources` |
|  | `CountersMatchOutput` | `RoundedShares` | `Shares` |
|  | `NoRepeats` | `BeginAppendingUnseeded` | `BeginAppending` |
|  | `MixFollowsWeights` | `OneEntry` | `Entries` |
|  | `CompletesWithEveryContent` | `ReconciledBothWays` | `Reconciled` |
| `shared_sink` | `NoRowTwice` | `KeepBuffer` | `Reset` |
|  | `CountedRowsArrive` | `CloseUnflushed` | `CloseSink` |
|  | `CheckpointReadable` | `OpenInPlace` | `OpenTemp` |
|  | `CheckpointNotAhead` | `SaveFirst` | `Pause` |
|  | `CompleteHasAllRows` | `ApplyEndsAtOnce` | `ApplyEnds` |
| `corpus` | `PublishedTogether` | `KeepPool` | `CopyPool` |
|  | `PublishedIsMerged` | `BeginFreshComplete` | `BeginFresh` |
|  | `VersionsAreKept` | `AfterPointer` | `next_version` |
| `packing` | `InOrderOnce` | `FillAndKeep` | `FillRow` |
|  | `LossIsExplained` | `SplitAndDrop` | `SplitDocument` |
|  | `DocumentsAreSeparated` | `RunTogether` | `WithNext` |
|  | `WindowsAsOverwritten` | `RestWithoutOverlap` | `RestOfCarry` |

Some properties name the cases in which they do not hold, because the code goes
wrong there; each case is a finding, and dropping it gives a violation:

* `CompleteUpToFirstLoss` excepts runs whose reader or apply thread died: the code
  records them as complete (`schedule/dispatch/parallel.py:143`,
  `schedule/apply/coordinator.py:141`).
* `OnReference` and `CompleteIsReference` require `OneChunkEach`. With several
  chunks a flush may fall between two chunks of one line, and a merge resumed from
  there has lost the rest; and the counters, in which one rejected section can
  make up for a line that was skipped, say nothing of it (`schedule/apply/merge.py:146`).
* `EveryTextArrives` and `LetThroughOnce` except the texts in `abandoned`, `mixed`,
  `lost` and `overlapped`, the four histories of section 2.
* `ExclusiveUnlessExcused` has its three excuses, and the properties of `SharedSink`
  except overlapping uses and an expired join.

## 5. What is proved

TLAPS checks the proofs for every value of the constants.

### ApplyCoordinatorProofs

For every number of lines, every order of delivery, and whether or not the apply
thread may die: `TypeCorrect`, `OutputInOrder` (`WrittenInOrder`), `NoLineLost`
(`NothingLost`), `StopDrains` (`DoneMeansDrained`) and `Refinement`
(`ImplementsOrderedOutput`). Assumed: `Total` is a natural number
(`TotalAssumption`) and `ApplyMayRaise` a Boolean (`RaiseAssumption`).

The invariants are not inductive: `WrittenInOrder` does not say why the line
appended next is the next one. `IInv` adds that `nextWriteSeq` is the length of
the output, or one behind it between `Apply` and `Advance` (`HeadExact`); that
the buffer holds only lines from `nextWriteSeq` on, and not the line in hand
(`BufferAhead`); that what was delivered is exactly buffer, output and the line
taken (`Accounted`); and that the loop returns only when stopped and with the head
missing (`DoneStopped`), which stays true because nothing is ingested after
`stop()`. `Apply` preserves it by `AppendInOrder`; the refinement follows because
under `HeadExact` the line appended is number `Len(written)`, and under
`Accounted` it has been delivered.

These theorems take for granted that the caller delivers each line once and nothing
after `stop()`.

### GraphMergeProofs

That caller is `GraphMerge`, for every number of lines, size of queue, limit, batch
and set of faults: `OnePlace` (`EachLineInOnePlace`), `LegalEnvironment`
(`UsesCoordinatorAsSpecified`) and, from it and the coordinator's theorems,
`OutputOfARun`: in a whole merge the output is in order and the coordinator loses
nothing.

`LegalEnvironment` needs that a line that is about to be ingested has not been
delivered before, which no single step shows. `IInv` says where a line can be: the
seven places (queue, fast tasks, tasks being collected, lanes, heavy tasks, what
the coordinator was given, lost) are apart and together are the lines sent so far
(`Placed`); within the
queue and within a table two entries have no line in common (`QueueApart`,
`TableApart`), so that a line leaves its place entirely when its entry does; the
id of a task is one of its lines; and the lines of a lane have the lane's kind.
A step moves the lines of an entry from one place to another; lemmas on tables
(`WithTask`, `WithoutTask`, `Split`) say what that does to the lines of a table.

For every run with every fault: `Completion` (`CompleteUpToFirstLoss`) and
`HeadOnly` (`SlotsExceededByHeadOnly`).

For the first, `Ends` follows the end of the input through the system: the reader
puts the sentinel only when it is through (`ReaderThrough`) and nothing comes after
it (`SentinelLast`); the main thread drops the queue only when asked to stop, and
otherwise has seen it empty (`QueueDrained`); it leaves the loop with every table
and lane empty or because it was asked to (`WhyLeft`). Together with `Placed`
this leaves the coordinator as the only place of a line that is
not lost, and the coordinator's own invariant, which holds because `GraphMerge` is
a legal environment (`CoordinatorInvariance`), says that it has written what it
was given up to the first gap.

For the second, a head that is read in one step and used in a later one
(`HeadRead`) is still the least line missing when it is submitted (`HeadIsNext`),
although the apply thread has moved in between: it cannot move past a line that it
has not got. A task over the slots of its lane contains that head (`Within`), which
is written before another one can exceed them (`AdvanceStep`).

For all limits, batch sizes and numbers of slots: `BufferIsBounded`
(`ApplyBufferBounded`) and `LanesAreBounded` (`LanesBounded`). `Sizes` bounds every
batch and table; `Bounds` adds to what is in the buffer or lanes what is in flight
towards it, and says that as long as the scheduler pulls, the tests that it made
at the beginning of the pass still hold: what is in flight only moves, and the apply
thread only takes away. The number of lines of a table is bounded by numbering
them, an injection into tasks times places in a batch, so that no induction over
the table is needed.

### DocumentDedupProofs

For any documents in any tasks, any workers, shards and faults, on threads or on
processes: `Once` (`LetThroughOnce`) and, where the merge's own hash index is not
the workers' (`OwnIndex`), `Arrival` (`EveryTextArrives`). With one shard and a
registry it is, and the second is violated (`MCDocumentDedupOneShard.cfg`). Assumed:
each document is in one task, no task is empty, and documents are numbered in a row
(`BatchesAssumption`).

Both rest on the types, on tasks being owned by one thread each (`OwnTasks`) and on
where pending hashes are (`InItsShard`). `Arrival` follows from `AllBacked`: whatever
hash `_seen`, a cache, a cursor, a pending list or the database knows is that of a
document which is let through, or in one of the histories; so a document is rejected
only if another one with its text arrives. `Once` follows the other way round: a
document that is let through has its hash in the database or on the way there
(`ThroughIsStored`); a lookup that is about to find its hash new finds it rightly new
(`NewIsNew`), as long as nobody else is at that hash (`AloneWithHash`); and a cache
says "absent" only while a thread of its process is about to register the hash
(`AbsentIsRegistered`). `EarlierIsKnown` carries the hashes of the merge before.

### MergeRunLockProofs

For any number of sessions in any number of processes: `TypeCorrect`, `Exclusion`
(`ExclusiveUnlessExcused`) and `LocksAreRemoved` (`NoOrphanLock`). Assumed: every
session has a pid and an owner, and `NoLock` is not a lock.

`NoOrphanLock` is inductive with the types, as a release that does not find its own
lock leaves the owner of the one it found inside. Exclusion is not: `Orderly`
says, as long as there is no excuse, that one session at most is on its way in,
that whoever is inside finds its own lock in the file, that what has been read on
the way in is still that lock, and that the way in was granted only with nobody
inside. The heart is `JudgeIInv`: the lock that was read is that of a session that
is inside and therefore alive (`OnlyTheLive`), so any reason to grant is one that
is recorded as an excuse.

### StoreProofs

The two modules of `store/`. Of `CorpusRun`, for any sources, caps and version base,
with one run at a time (`OneRun`): `Together` (`PublishedTogether`), `Merged`
(`PublishedIsMerged`) and `Kept` (`VersionsAreKept`). With two at once the first is
violated (`MCCorpusRunOverlap.cfg`).

`IInv` describes the run in progress: the tables are well typed (`Tables`), versions
are given in a row up to `Base` (`InRow`), a complete checkpoint describes an
output with everything that was there but the rows that the merge lost itself
(`CompleteIsMerged`; neither a stop, a resumption nor a fresh start adds to them),
and the run that saves
has found the output, the pool and the number that the manifest it writes will
name, in that order (`JobInOrder`). The names of files below version `Base` have
one digit, and sort as the numbers do: `NamesBelowBase` says that until then the
next version is greater than any in use.

Of `PackedStream`, for any length of rows, least document, segments to a row and
size of chunks, and any number of shards of any contents: `StreamInOrderOnce`
(`InOrderOnce`), `StreamLossIsExplained` (`LossIsExplained`),
`StreamDocumentsAreSeparated` (`DocumentsAreSeparated`) and
`StreamWindowsAsOverwritten` (`WindowsAsOverwritten`). Assumed: the sizes are positive
(`RowSizesAssumption`), and a shard is a finite sequence (`ContentsAssumption`).

None of the first three is inductive: what a step of the packer makes of a row depends
on what the queue holds. `StreamInv` (`StreamInvariant`) says where every token is:

* `StreamTypes`: types; a row is never longer than it may be, and every queued
  document has a token.
* `CarryInOrder`: the carry is the end of the stream, from the beginning of a piece on.
  A *piece* is what lies between delimiters and beginnings of chunks.
* `QueueInOrder`: each queued document is an unbroken stretch of the stream without
  delimiter, to the end of a piece; each comes before the next, and all before the
  carry.
* `PackedInOrder`: the row in the making rises, and comes before all that is queued or
  will be (`Coming`). As long as it is not full, each of its tokens is followed by its
  neighbour or ends a piece: this is what makes the loss of a row that is given up a
  loss of ends of pieces. A full row may end anywhere.
* `RowsInOrder`: each row rises, and comes before the next, before the row in the
  making and before all that is coming; with padding, documents in it are separated.
* `LossIsExplained` itself, which is inductive with these. The argument is about
  `Present`, the tokens that are in some place: a step moves them, and where it drops
  some, either they are a whole piece that is too short, or each of them is followed by
  one that is dropped too or ends its piece (`LossStep`). A chunk that is read may
  only add beginnings and ends of pieces, never take one away.
* `WindowsInOrder`: `WindowsAsOverwritten`, which is not inductive either, as it says
  of a window what it may hold and not what will be written over it. All windows of the
  array in use are its first places: what is carried over, and from there on what the
  latest window left. The windows do not reach beyond the stream, and after the first
  of them something is always carried over. `WindowsWritten` is the argument for both
  writes: what is written begins at the beginning and is at least as long as what the
  window held of that stretch, so that a window changes over to a later stretch from
  the front, and an array that is given up stops changing (`OneStretch`).

That the packer loses nothing inside a document and repeats nothing is so for every
way in which chunks, documents and rows can be cut; no property of the sizes is used
but that they are positive.

### MergeResumeProofs

For any number of lines and sessions, any buffer and any contents: `NeverAhead`
(`OutputAheadOfCheckpoint`), `Kept` (`RowsAreKept`) and, for merges that read all
their rows back (`ReadsAllRows`), `WrittenOnce` (`NoRepeats`), `OnTheReference`
(`OnReference`) and `CompletedIsReference` (`CompleteIsReference`). Assumed: the
bounds are positive (`CountsAssumption`), and a line that is not processed has no
chunks (`DocsAssumption`).

`IInv` is about the output, the write buffer and the checkpoint in memory and on
disk: the line at which a session works is the one its checkpoint counts
(`InLine`); a session that starts without a checkpoint starts without rows
(`NothingFromNothing`); what the checkpoint hook saves has been flushed
(`Flushed`); `--fresh` has removed the checkpoint before it removes the output
(`Cleared`); each row in buffer and output is counted once, or is the row in hand
between `WriteRow` and `CountRow` (`RowsCountedOnce`). `NoRepeats` needs in
addition that whatever is in output or buffer is known to the session
(`RowsKnown`). That is false of a merge with a hash index and without near-duplicate
layers, which restores hashes from the index alone (finding on
`schedule/apply/dedup.py:110`): hence the assumption.

The comparison with an uninterrupted merge rests on a third invariant, `Agreement`:
the rows are a beginning of the reference, as long as there is no phantom
(`RowsFollow`); a session whose counters add up has every row of the lines it has
counted, and they fail to add up only after it was asked to stop (`Settled`); a saved
checkpoint that adds up has no hole (`SavedSettled`); and a checkpoint without lines
owes nothing, and a session closes with all lines counted (`Ordered`). The measure
is the number `Unsettled`, the lines counted but neither kept nor rejected: with one
chunk to a line it is the number of lines skipped, reconciliation keeps it
(`ReconciledUnsettled`), and a session is let in only if it is zero. That is why sections of a line that
compensate each other break the property, and `OneChunkEach` is assumed. The
reference is stated by ranks rather than by a fold over the lines, so that one more
line can be reasoned about without induction over data: its rank is the number of
first occurrences before it.

### SharedSinkProofs

For any number of rows, rows to a line, size of the buffer and saves, and for every
interleaving of apply thread, main thread and signal handler: `RowsOnce`
(`NoRowTwice`), `CountedRows` (`CountedRowsArrive`), `OneIsReadable`
(`CheckpointReadable`), `NeverAhead` (`CheckpointNotAhead`) and `CompleteIsAll`
(`CompleteHasAllRows`). Assumed: the bounds are positive.

`IInv` has a part for each condition under which the properties hold, which is
possible because `clashes` and `expired` only grow. `Control` is where the threads
can be, and what they hold. Without overlapping flushes, one thread at most is in a
flush, and output and buffer are in order (`RowsInOrder`), the part that is being
written counted once. If no row was put into the buffer during another thread's
flush either, output and buffer are all rows written so far (`AllRowsThere`), and
the byte count is right (`BytesCounted`), so that a flush that finds it zero has
nothing to flush. Without overlapping saves the file under the path is whole, and
the temporary one belongs to the thread that saves (`FilesInOrder`). If the join did
not expire and no handler runs, there are no clashes at all (`AfterApply`), what is
saved after a flush finds the buffer empty (`AfterFlush`), and no checkpoint in a
file or a thread's hands counts more than the output has (`NotAhead`). And once
any of them says "complete", all is done (`AllDone`), whatever the handler does.

### InterleavedSourcesProofs

For any finite set of sources, any weights, files, size of buffer and read-ahead,
and any number of sessions: `TypeCorrect`, `ReaderMeets` (`ReaderMeetsCheckpoint`),
`CountersMatch` (`CountersMatchOutput`), `NoContentTwice` (`NoRepeats`), `MixFollows`
(`MixFollowsWeights`) and `CompleteHasAll` (`CompletesWithEveryContent`). Assumed:
sources are numbers, in the order of their names (`SourcesAssumption`), files are
finite sequences, and weights and bounds are positive.

`IInv` has a part for each theorem: `Typed`, `Reading` (what waits is what is in a
session's sources and not yet applied), `Counters`, `Knowledge` (what a session knows
is its rows and what does not fit), `There` (every fit content that a checkpoint
says was read has its row) and `Mix`.

Sums over sources are the cardinalities of sets of pairs, so that no recursion is
needed: adding to one source's counter adds as much to the sum, and a sum of parts is
bounded by the sum of the wholes. What is in proportion for each source is so for the
sums (`SumInProportion`): this is proved by induction over the number of sources, as
an argument about the least counterexample (`LeastNumber`). From it follows that the
rounded shares of a surplus are together all of it (`SharesAreAll`), which
`CountersMatch` needs for a resumed session, whose counters are made to fit
the rows that are there.

`Mix` says that what was read, and each beginning of what was applied, is at a place
of the schedule (`At`, `OnSchedule`): some number of whole rounds, and in the one that
has begun the turns before that place, for each source that still had lines. Two
places of the same schedule cannot differ by more than a turn of each source, which
is `MixFollowsWeights`.

The theorems leave the exceptions that the properties name, and no other: rows of an
earlier output that the session counts for nobody (`foreign`), and merges with a
source filter that have cut the output under a checkpoint that counts it (`cleared`).

### Only model-checked

Liveness (`EventuallyWritten`, `AskedToEnd`, `CompletesUnlessClogged`): fairness and
ENABLED are out of the prover's reach. Every other property of a passing run is stated
by a theorem.

## 6. Disagreements between the code and its documentation

`PROJECT.json` lists them under `findings` with the lines that disagree.
`resume_stable` is the run of one of them. The others can be seen by the
configurations of section 3 that end in a violation, or by a small change:

* *Which copy survives is timing-dependent* (`dedup/service/exact_shard.py:26`): change
  `MCMergeResumeStable.cfg` to `Total = 3` and `MaxSessions = 1`;
  `OutputIsStable` is violated without any crash.
* *Rows that are not read back on resume* (`schedule/apply/dedup.py:110`): change
  `MCMergeResume.cfg` to `IndexChoices = {TRUE}` and `NearLayers = FALSE`;
  `NoRepeats` is violated.
* *Hashes that outlive their rows* (`dedup/exact.py:120`): with `useIndex` true,
  `phantom` becomes true.
* *`--fresh` and the shards* (`schedule/state/checkpoint.py:214`):
  `MergeResume!StartFresh` leaves `docIndex` as it is, and `phantom` becomes true.
* *Sections that hide a skipped line* (`schedule/apply/merge.py:146`): drop the
  premise `OneChunkEach` of `CompleteIsReference`.
* *Documents of several sections fail the accounting* (`schedule/apply/merge.py:69`): the
  run `resume` takes `FailToComplete`.
* *A checkpoint between a row and its count* (`schedule/apply/merge.py:274`): the flush
  in the middle of `WriteRow` in `resume`; `InterleavedSources!ApplyKept` spells out
  what reconciliation makes of it.
* *Append and source filters* (`schedule/state/setup.py:175`):
  `InterleavedSources!AppendingCompletes` and `CompleteMatchesOutput` are violated
  as invariants of `MCInterleavedSources.cfg`.
* *A surplus counted for a source that was not read* (`schedule/state/checkpoint.py:369`):
  drop `foreign` from `InterleavedSources!CountersMatchOutput`; it becomes negative where
  a filtered merge of that source counts a row that is not there.
* *Second signal and expired join* (`schedule/row/signals.py:31`, `store/io/atomic.py:30`,
  `schedule/dispatch/parallel.py:663`): drop the premises of `SharedSink!NoRowTwice`,
  `CountedRowsArrive`, `CheckpointReadable`, `CompleteHasAllRows`.
* *Versions, torn manifests, skipped sources, stale merges* (`store/corpus/`,
  `ingest/download.py:75`, `schedule/apply/lifecycle.py:34`):
  `CorpusRun!VersionsAreKeptForEver`, `RegistryReadable`, `SkippedIsWhole` and
  `PublishedIsDownloaded` are violated in `MCCorpusRun.cfg`.
* *A merge that lost lines is published* (`schedule/graph/runner.py:153`,
  `schedule/dispatch/parallel.py:143`, `schedule/apply/coordinator.py:141`):
  `CorpusRun!PublishedIsWhole`, which is `PublishedIsMerged` without `lost`, is violated
  in `MCCorpusRun.cfg`.
* *A window that changes under its reader* (`store/export/packed_stream.py:171`):
  `PackedStream!WindowIsStream` is violated. `WindowsAsOverwritten` says what is found in
  the window instead, its own first token never.
* *Failing tasks, shared cursor, failed writes* (`schedule/graph/runner.py:130`,
  `dedup/exact.py:91`, `dedup/exact.py:63`): drop `abandoned`, `mixed` or `lost` from
  the properties of `DocumentDedup`.
* *Reader and apply thread that die silently*: drop the corresponding premise from
  `CompleteUpToFirstLoss`.

The rest (`checkpoint_interval`, `--force`, the version
in `artifacts.py`, the line counted short in `ingest/sink.py`) was read from the code.

One more thing to know, which is documented nowhere and is no contradiction: the
number of shards depends on the number of workers (`dedup/service/exact_shard.py:36`).
A merge with another number forgets the hashes of the earlier ones in the fast
stage; the comparison of chunks still catches exact repetitions.

## 7. What is not modelled, and why

Inside the modelled components:

* corrupt checkpoints and lock files, and the reading of a backup;
* hung workers, and exceptions on the main thread itself (submission, fallback);
* near-duplicate filters: in `MergeResume` they let everything pass;
* eviction from the lookup cache of the hash index;
* a line of the output that is torn by a crash in the middle of a write:
  `MergeResume!FlushRows` writes a buffer of rows at once;
* the second test of the heavy backlog (`graph/runner.py:176`), after the line has been
  taken out of its lane: the first one (`runner.py:188`) was made by the same thread,
  and only that thread adds to the backlog, so that it cannot fail in between;
* reuse of a pid; the local and Dask backends;
* the lengths of the segments of a row, and the statistics of the packer.

Components left out:

* cleaning, gates, extraction, scoring, admission, planning of mixtures: functions
  of a text or of numbers without shared state, whose result the models draw.
  They make up most of the 62 thousand lines, so the models cover a small part of
  the repository's lines, and most of the lines that have state;
* metrics, audit and live monitoring: they change nothing the rest reads;
* command line, configuration, reports; allocation and tuning, which compute the
  constants of `GraphMerge` from the hardware;
* spool and Redis queues: not used by the merge loop; the intelligence store.

## 8. Plan

Done: coordinator, scheduler run, document dedup, lock, resume, several sources,
shared sink, corpus run and packing, with the proofs of section 5.

Next, models:

1. `LaneBuffers`, allocation and tuning: sorted insertion, batches and tables as
   operators against reference definitions.
2. `SpoolQueue` and `PromotionLock`.
3. The eviction of near-duplicate buffers.

Then, the abstract lock as a specification of its own, with `MergeRunLock` shown to
implement it under its excuses.
