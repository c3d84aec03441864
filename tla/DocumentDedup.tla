---------------------------- MODULE DocumentDedup ----------------------------
(***************************************************************************)
(* The fast workers' deduplication of whole documents: ExactHashDedup over  *)
(* PersistentHashIndex over SQLite shards (src/indw/ingest/hash.py,         *)
(* dedup/exact.py, dedup/service/exact_shard.py), opened by every worker    *)
(* process, or once and used by all threads of the thread backend           *)
(* (schedule/dispatch/workers.py, schedule/backends/); batches that fail    *)
(* and are run again on the main thread; and what the apply thread makes of *)
(* the documents that pass (schedule/apply/merge.py).                       *)
(*                                                                          *)
(* A step is what a thread does between two points where Python may switch  *)
(* to another.  A text is its hash, a number; a document that passes has    *)
(* one chunk, with the same text.  Texts the filters reject are left out.   *)
(*                                                                          *)
(* A "Variant" is not part of the specification: it is the definition after *)
(* it with a mistake in it, which the property README.md names must notice. *)
(***************************************************************************)
EXTENDS Naturals, Sequences, FiniteSets, SequencesExt

CONSTANTS
  Batches,      \* the documents, as the sequence of fast tasks they come in
  Texts,        \* what the hashes of their texts may be, one after the other
  Earlier,      \* what the merge before this one may have let through
  Workers,      \* threads or processes of the fast pool
  Shards,       \* dedup_shards of this merge
  OldShards,    \* dedup_shards of the merge before it
  BatchSize,    \* hashes a shard stages before it writes them
  Registry,     \* the merge has a corpus registry, hence a hash index
  MaxFaults     \* failed tasks and failed writes

Docs == UNION {ToSet(b) : b \in ToSet(Batches)}

ASSUME BatchesAssumption ==
  /\ Batches \in Seq(Seq(Nat) \ {<<>>})
  /\ IsFiniteSet(Docs) /\ Docs = 1 .. Cardinality(Docs)
  /\ \A i, j \in DOMAIN Batches :
       i # j => ToSet(Batches[i]) \cap ToSet(Batches[j]) = {}

ASSUME DedupAssumption ==
  /\ Texts \subseteq [Docs -> Nat] /\ Earlier \subseteq SUBSET Nat
  /\ {Shards, OldShards, BatchSize} \subseteq Nat \ {0} /\ MaxFaults \in Nat
  /\ Registry \in BOOLEAN

\* The scheduler's thread runs failed batches again.
Main == "main"
ASSUME MainAssumption == Main \notin Workers
Agents == Workers \cup {Main}

Hashes == (UNION {ToSet(t) : t \in Texts}) \cup (UNION Earlier)
ShardIds == 0 .. Shards - 1

VARIABLES
  hash,         \* the hash of each document
  backend,      \* "thread" or "multiprocess"
  earlier,      \* what the merge before this one admitted, and wrote
  table,        \* content_hashes of each shard
  \* of a process
  seen,         \* ExactHashDedup._seen
  cached,       \* _lookup_cache
  staged,       \* _pending, of each shard
  cursor,       \* what the shard's _lookup_cur has executed: hash and row
  \* of a thread
  pc, task, at, \* its step, its batch and the document it is at
  taken,        \* the hashes it writes
  passed,       \* the documents of the batch it has let through
  \* the merge
  batch,        \* the state of each task
  admitted,     \* the documents that were let through, as collected
  applied,      \* documents applied so far
  rows,         \* texts in the output
  open,         \* the processes that have not ended
  \* history
  faults,
  lost,         \* hashes a failed write has dropped
  abandoned,    \* hashes that were registered by a task that failed
  mixed,        \* hashes whose lookup fetched another lookup's row
  overlapped    \* hashes that were looked up while others were registering them

indexVars == <<table, seen, cached, staged, cursor>>
threadVars == <<pc, task, at, taken, passed>>
mergeVars == <<batch, admitted, applied, rows, open>>
histVars == <<faults, lost, abandoned, mixed, overlapped>>
vars == <<hash, backend, earlier, indexVars, threadVars, mergeVars, histVars>>

\* The threads of the thread backend are the main process's own.
Home(w) == IF backend = "thread" THEN Main ELSE w
Processes == {Home(w) : w \in Agents}

ShardOf(h) == h % Shards                \* _shard_idx
Nothing == [hash |-> {}, row |-> FALSE]

Init ==
  /\ hash \in Texts
  /\ backend \in {"thread", "multiprocess"}
  /\ earlier \in Earlier
  /\ table = [s \in ShardIds |-> {h \in earlier : h % OldShards = s}]
  /\ seen = [p \in Agents |-> {}]
  /\ cached = [p \in Agents |-> [h \in Hashes |-> "unknown"]]
  /\ staged = [p \in Agents |-> [s \in ShardIds |-> <<>>]]
  /\ cursor = [p \in Agents |-> [s \in ShardIds |-> Nothing]]
  /\ pc = [w \in Agents |-> "idle"]
  /\ task = [w \in Agents |-> 0] /\ at = [w \in Agents |-> 0]
  /\ taken = [w \in Agents |-> {}] /\ passed = [w \in Agents |-> {}]
  /\ batch = [i \in DOMAIN Batches |-> "queued"]
  /\ admitted = {} /\ applied = 0 /\ rows = {} /\ open = Processes
  /\ faults = 0 /\ lost = {} /\ abandoned = {} /\ mixed = {}
  /\ overlapped = {}

Doc(w) == Batches[task[w]][at[w]]
Hash(w) == hash[Doc(w)]
\* The shard of the document's hash, in the process of the thread.
Shard(w) == ShardOf(Hash(w))

InLookup == {"execute", "fetch"}
InRegister == {"register", "flush", "write"}

\* Others are about to register h, or have not written it yet.
Unwritten(w, h) ==
  \/ \E v \in Agents \ {w} : /\ pc[v] \in InLookup \cup InRegister
                             /\ h = Hash(v) \/ h \in taken[v]
  \/ \E p \in Agents : h \in ToSet(staged[p][ShardOf(h)])
--------------------------------------------------------------------------------
(***************************************************************************)
(* Tasks: process_stage0_batch over the documents of a batch.               *)
(***************************************************************************)
\* Workers take the tasks in order; the main thread takes those that failed.
TakeBatch(w) ==
  /\ pc[w] = "idle"
  /\ \E i \in DOMAIN Batches :
       /\ batch[i] = IF w = Main THEN "failed" ELSE "queued"
       /\ \A j \in 1 .. i - 1 : batch[j] # batch[i]
       /\ task' = [task EXCEPT ![w] = i]
       /\ batch' = [batch EXCEPT ![i] = "running"]
  /\ at' = [at EXCEPT ![w] = 1]
  /\ pc' = [pc EXCEPT ![w] = "check"]
  /\ passed' = [passed EXCEPT ![w] = {}]
  /\ UNCHANGED <<hash, backend, earlier, indexVars, taken, admitted, applied,
                 rows, open, histVars>>

\* The document of w is decided: on to the next one, or the task is done.
Decided(w, through) ==
  LET all == passed[w] \cup (IF through THEN {Doc(w)} ELSE {})
  IN /\ passed' = [passed EXCEPT ![w] = all]
     /\ IF at[w] < Len(Batches[task[w]])
        THEN /\ at' = [at EXCEPT ![w] = @ + 1]
             /\ pc' = [pc EXCEPT ![w] = "check"]
             /\ UNCHANGED <<batch, admitted>>
        ELSE /\ pc' = [pc EXCEPT ![w] = "idle"]
             /\ batch' = [batch EXCEPT ![task[w]] = "done"]
             /\ admitted' = admitted \cup all
             /\ UNCHANGED at
     /\ UNCHANGED task

\* Variant: the documents that were decided before it failed are collected.
FailPartly(w, registered) ==
  /\ faults < MaxFaults
  /\ faults' = faults + 1
  /\ batch' = [batch EXCEPT ![task[w]] = "done"]
  /\ admitted' = admitted \cup passed[w]
  /\ abandoned' = abandoned \cup {hash[d] : d \in passed[w]} \cup registered
  /\ pc' = [pc EXCEPT ![w] = "idle"]
  /\ UNCHANGED <<task, at, passed>>

\* The task of w raises: what it has registered stays registered.  What fails
\* on the main thread ends the merge, which the model does not follow.
Fail(w, registered) ==
  /\ faults < MaxFaults
  /\ w # Main
  /\ faults' = faults + 1
  /\ batch' = [batch EXCEPT ![task[w]] = "failed"]
  /\ abandoned' = abandoned \cup {hash[d] : d \in passed[w]} \cup registered
  /\ pc' = [pc EXCEPT ![w] = "idle"]
  /\ UNCHANGED <<task, at, passed, admitted>>

\* Anything of the fast chain may raise between two documents.
Raise(w) ==
  /\ pc[w] = "check"
  /\ Fail(w, {})
  /\ UNCHANGED <<hash, backend, earlier, indexVars, taken, applied, rows, open,
                 lost, mixed, overlapped>>
--------------------------------------------------------------------------------
(***************************************************************************)
(* ExactHashDedup.is_duplicate and PersistentHashIndex.lookup_hash.         *)
(***************************************************************************)
AddSeen(w) == seen' = [seen EXCEPT ![Home(w)] = @ \cup {Hash(w)}]

Note(w) ==
  overlapped' = IF Unwritten(w, Hash(w)) THEN overlapped \cup {Hash(w)}
                ELSE overlapped

\* The hash is in _seen, or the index knows of it without its database.  What
\* is pending has been cached.
CheckKnown(w) ==
  /\ pc[w] = "check"
  /\ Hash(w) \in seen[Home(w)] \/ cached[Home(w)][Hash(w)] = "present"
  /\ AddSeen(w)
  /\ Decided(w, FALSE)
  /\ UNCHANGED <<hash, backend, earlier, table, cached, staged, cursor, taken,
                 applied, rows, open, histVars>>

CheckUnknown(w) ==
  /\ pc[w] = "check"
  /\ Hash(w) \notin seen[Home(w)]
  /\ \/ /\ cached[Home(w)][Hash(w)] = "unknown"
        /\ pc' = [pc EXCEPT ![w] = "execute"]
        /\ UNCHANGED overlapped
     \/ /\ cached[Home(w)][Hash(w)] = "absent"
        /\ pc' = [pc EXCEPT ![w] = "register"]
        /\ Note(w)
  /\ UNCHANGED <<hash, backend, earlier, indexVars, task, at, taken, passed,
                 mergeVars, faults, lost, abandoned, mixed>>

Execute(w) ==
  /\ pc[w] = "execute"
  /\ cursor' = [cursor EXCEPT ![Home(w)][Shard(w)] =
       [hash |-> {Hash(w)}, row |-> Hash(w) \in table[Shard(w)]]]
  /\ Note(w)
  /\ pc' = [pc EXCEPT ![w] = "fetch"]
  /\ UNCHANGED <<hash, backend, earlier, table, seen, cached, staged, task, at,
                 taken, passed, mergeVars, faults, lost, abandoned, mixed>>

\* fetchone, of the cursor that all threads of the process share.
Fetch(w) ==
  /\ pc[w] = "fetch"
  /\ LET p == Home(w)
         result == cursor[p][Shard(w)]
     IN /\ cursor' = [cursor EXCEPT ![p][Shard(w)] = Nothing]
        /\ cached' = [cached EXCEPT ![p][Hash(w)] =
                        IF result.row THEN "present" ELSE "absent"]
        /\ mixed' = IF result.hash = {Hash(w)} THEN mixed
                    ELSE mixed \cup {Hash(w)}
        /\ \/ /\ result.row
              /\ AddSeen(w)
              /\ Decided(w, FALSE)
           \/ /\ ~result.row
              /\ pc' = [pc EXCEPT ![w] = "register"]
              /\ UNCHANGED <<seen, task, at, passed, batch, admitted>>
  /\ UNCHANGED <<hash, backend, earlier, table, staged, taken, applied, rows,
                 open, faults, lost, abandoned, overlapped>>
--------------------------------------------------------------------------------
(***************************************************************************)
(* PersistentHashIndex._stage_hash and flush.                               *)
(***************************************************************************)
Register(w) ==
  /\ pc[w] = "register"
  /\ LET p == Home(w)
         pending == Append(staged[p][Shard(w)], Hash(w))
     IN /\ staged' = [staged EXCEPT ![p][Shard(w)] = pending]
        /\ cached' = [cached EXCEPT ![p][Hash(w)] = "present"]
        /\ \/ /\ Len(pending) >= BatchSize
              /\ pc' = [pc EXCEPT ![w] = "flush"]
              /\ UNCHANGED <<seen, task, at, passed, batch, admitted>>
           \/ /\ Len(pending) < BatchSize
              /\ AddSeen(w)
              /\ Decided(w, TRUE)
  /\ UNCHANGED <<hash, backend, earlier, table, cursor, taken, applied, rows,
                 open, histVars>>

\* flush takes what is pending; another thread may have been first.
Flush(w) ==
  /\ pc[w] = "flush"
  /\ taken' = [taken EXCEPT ![w] = ToSet(staged[Home(w)][Shard(w)])]
  /\ staged' = [staged EXCEPT ![Home(w)][Shard(w)] = <<>>]
  /\ pc' = [pc EXCEPT ![w] = "write"]
  /\ UNCHANGED <<hash, backend, earlier, table, seen, cached, cursor, task, at,
                 passed, mergeVars, histVars>>

\* Variant: the rows are not committed.
WriteUncommitted(w) ==
  /\ pc[w] = "write"
  /\ taken' = [taken EXCEPT ![w] = {}]
  /\ AddSeen(w)
  /\ Decided(w, TRUE)
  /\ UNCHANGED <<hash, backend, earlier, table, cached, staged, cursor, applied,
                 rows, open, histVars>>

\* _write: INSERT OR IGNORE, and commit.
Write(w) ==
  /\ pc[w] = "write"
  /\ table' = [table EXCEPT ![Shard(w)] = @ \cup taken[w]]
  /\ taken' = [taken EXCEPT ![w] = {}]
  /\ AddSeen(w)
  /\ Decided(w, TRUE)
  /\ UNCHANGED <<hash, backend, earlier, cached, staged, cursor, applied, rows,
                 open, histVars>>

\* The database stays locked for all retries, or the disk is full: is_duplicate
\* raises, and what was taken is gone.
WriteFails(w) ==
  /\ pc[w] = "write"
  /\ taken' = [taken EXCEPT ![w] = {}]
  /\ lost' = lost \cup taken[w]
  /\ Fail(w, {Hash(w)})
  /\ UNCHANGED <<hash, backend, earlier, indexVars, applied, rows, open, mixed,
                 overlapped>>
--------------------------------------------------------------------------------
(***************************************************************************)
(* The apply thread: in document order, and once more by the chunk's hash.  *)
(* The registry's hash index is the fast workers' own if there is one shard *)
(* only: _init_fast_dedup.                                                  *)
(***************************************************************************)
BatchOf(d) == CHOOSE i \in DOMAIN Batches : d \in ToSet(Batches[i])

InMergeIndex(h) ==
  \/ h \in rows
  \/ Registry /\ h \in earlier \cup (IF Shards = 1 THEN table[0] ELSE {})

ApplyDoc ==
  /\ applied + 1 \in Docs
  /\ batch[BatchOf(applied + 1)] = "done"
  /\ applied' = applied + 1
  /\ rows' = IF applied + 1 \in admitted /\ ~InMergeIndex(hash[applied + 1])
             THEN rows \cup {hash[applied + 1]} ELSE rows
  /\ UNCHANGED <<hash, backend, earlier, indexVars, threadVars, batch, admitted,
                 open, histVars>>
--------------------------------------------------------------------------------
(***************************************************************************)
(* A process ends: _shutdown_fast_worker writes the shards one after the    *)
(* other, and gives up at the first that fails.                             *)
(***************************************************************************)
AllDone == \A i \in DOMAIN Batches : batch[i] = "done"

Shutdown(p) ==
  /\ AllDone
  /\ p \in open
  /\ \E n \in 0 .. Shards :
       /\ n < Shards => faults < MaxFaults /\ staged[p][n] # <<>>
       /\ table' = [s \in ShardIds |->
                      IF s < n THEN table[s] \cup ToSet(staged[p][s])
                      ELSE table[s]]
       /\ lost' = lost \cup UNION {ToSet(staged[p][s]) : s \in n .. Shards - 1}
       /\ faults' = IF n < Shards THEN faults + 1 ELSE faults
  /\ staged' = [staged EXCEPT ![p] = [s \in ShardIds |-> <<>>]]
  /\ open' = open \ {p}
  /\ UNCHANGED <<hash, backend, earlier, seen, cached, cursor, threadVars,
                 batch, admitted, applied, rows, abandoned, mixed, overlapped>>

Step(w) ==
  \/ TakeBatch(w) \/ Raise(w)
  \/ CheckKnown(w) \/ CheckUnknown(w) \/ Execute(w) \/ Fetch(w)
  \/ Register(w) \/ Flush(w) \/ Write(w) \/ WriteFails(w)

Next ==
  \/ \E w \in Agents : Step(w)
  \/ ApplyDoc
  \/ \E p \in Processes : Shutdown(p)

Spec == Init /\ [][Next]_vars
--------------------------------------------------------------------------------
TypeOK ==
  /\ hash \in Texts /\ earlier \in Earlier
  /\ table \in [ShardIds -> SUBSET Hashes]
  /\ {cursor[p][s].row : p \in Agents, s \in ShardIds} \subseteq BOOLEAN
  /\ seen \in [Agents -> SUBSET Hashes]
  /\ cached \in [Agents -> [Hashes -> {"unknown", "absent", "present"}]]
  /\ pc \in [Agents -> {"idle", "check"} \cup InLookup \cup InRegister]
  /\ \A i \in DOMAIN Batches : batch[i] \in {"queued", "running", "failed", "done"}
  /\ admitted \subseteq Docs /\ applied \in 0 .. Cardinality(Docs)
  /\ rows \subseteq Hashes /\ open \subseteq Processes
  /\ faults \in 0 .. MaxFaults

\* What the deduplication is for: every text is in the output once all is
\* applied.  Except where a task that failed had registered it, so that the
\* second attempt, or an equal document, is taken for a duplicate of what was
\* never delivered (runner.py:130), and where two threads mixed up their lookups
\* (exact.py:91).
EveryTextArrives ==
  applied = Cardinality(Docs) =>
    \A d \in Docs : hash[d] \in rows \cup earlier \cup abandoned \cup mixed

\* A text is let through once, in this merge and, once all processes have
\* ended, in the one after it.  Except where a write has failed and dropped its
\* hash (exact.py:63), where it was looked up before others had written it,
\* where two threads mixed up their lookups, and where the merge before this one
\* had another number of shards (exact_shard.py:36).
LetThroughOnce ==
  LET explained == lost \cup overlapped \cup mixed
      resharded == {h \in earlier : ShardOf(h) # h % OldShards}
  IN /\ \A d, e \in admitted :
          d # e /\ hash[d] = hash[e] => hash[d] \in explained
     /\ \A d \in admitted : hash[d] \in earlier => hash[d] \in mixed \cup resharded
     /\ open = {} =>
          \A d \in admitted : hash[d] \in lost \cup table[ShardOf(hash[d])]
================================================================================
