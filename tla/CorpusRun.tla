------------------------------- MODULE CorpusRun -------------------------------
(***************************************************************************)
(* FastDatasetPipeline.run: download the sources, merge them, publish the   *)
(* corpus (src/indw/ingest/run.py, ingest/download.py, ingest/sink.py,      *)
(* store/corpus/registry.py, store/corpus/manifest.py).                     *)
(*                                                                          *)
(* A source's stream always delivers the same rows, so a file is the number *)
(* of rows it holds, in which sizes and caps are measured too.  The merge   *)
(* is that of modules MergeResume and InterleavedSources, seen from here:   *)
(* merged[s] is both the offset of s and its share of filtered.jsonl, and   *)
(* survives a crash.  A file that is written in place is Torn while it is   *)
(* open, and stays so when its writer dies.                                 *)
(*                                                                          *)
(* A "Variant" is not part of the specification: it is the definition after *)
(* it with a mistake in it, which the property README.md names must notice. *)
(***************************************************************************)
EXTENDS Integers, Sequences, FiniteSets

CONSTANTS
  Runs,          \* processes that run the pipeline on one work directory
  Sources,       \* numbers, in the order of the configuration
  Optional,      \* sources whose failure is ignored
  Offered,       \* Offered[s]: rows of the dataset
  Cap,           \* Cap[s]: max_bytes, in rows
  Base,          \* 10: the base in which a version is written in a file name
  Digits,        \* Digits[n]: what is written for version n
  MaxStarts, MaxRollbacks

ASSUME SourcesAssumption ==
  /\ Sources \subseteq Nat /\ IsFiniteSet(Sources) /\ Sources # {}
  /\ Optional \subseteq Sources
ASSUME SizesAssumption ==
  Offered \in [Sources -> Nat] /\ Cap \in [Sources -> Nat \ {0}]
ASSUME BaseAssumption == Base \in Nat /\ Base > 2
ASSUME DigitsAssumption ==
  \A n \in 0..Base :
    Digits[n] = IF n < Base THEN <<n>> ELSE Append(Digits[n \div Base], n % Base)
ASSUME BoundsAssumption == MaxStarts \in Nat /\ MaxRollbacks \in Nat

VARIABLES
  raw,           \* raw[s]: rows of raw/<s>/data.jsonl
  merged, complete,
  lost,          \* history: rows the complete merge has lost, by source
  pool,          \* replay_pool.jsonl, as the rows of each source in it
  manifests,     \* from the versions that have a file to what it says
  pointer,       \* the version in latest.json
  pc, at, fresh, job,
  late,          \* history: sources written after the merge was complete
  interrupted,   \* history: a save ended early, and none has succeeded since
  starts, rollbacks

rawVars == <<raw, late>>
mergeVars == <<merged, complete, lost>>
corpusVars == <<pool, manifests, pointer, interrupted>>
bounds == <<starts, rollbacks>>
vars == <<rawVars, mergeVars, corpusVars, pc, at, fresh, job, bounds>>

Missing == -1
Torn == [torn |-> TRUE]
NoPool == [missing |-> TRUE]
TornPointer == -1
NoVersion == 0
NoJob == [version |-> NoVersion, parent |-> NoVersion]

Init ==
  /\ raw = [s \in Sources |-> Missing] /\ late = {}
  /\ merged = [s \in Sources |-> 0] /\ complete = FALSE
  /\ lost = [s \in Sources |-> 0]
  /\ pool = NoPool /\ manifests = <<>> /\ pointer = NoVersion
  /\ interrupted = FALSE
  /\ pc = [p \in Runs |-> "down"] /\ at = [p \in Runs |-> {}]
  /\ fresh = [p \in Runs |-> FALSE] /\ job = [p \in Runs |-> NoJob]
  /\ starts = 0 /\ rollbacks = 0

Goto(p, l) == pc' = [pc EXCEPT ![p] = l]

Ends(p) == Goto(p, "down") /\ at' = [at EXCEPT ![p] = {}]
--------------------------------------------------------------------------------
(***************************************************************************)
(* Phase 1: DatasetDownloader.fetch_all.  at[p] is the set of sources that  *)
(* p has not dealt with.                                                    *)
(***************************************************************************)
Current(p) == CHOOSE s \in at[p] : \A t \in at[p] : s <= t

Start(p) ==
  /\ pc[p] = "down" /\ starts < MaxStarts
  /\ \E skip_download, fresh_merge \in BOOLEAN :
       /\ at' = [at EXCEPT ![p] = IF skip_download THEN {} ELSE Sources]
       /\ fresh' = [fresh EXCEPT ![p] = fresh_merge]
  /\ Goto(p, "download")
  /\ starts' = starts + 1
  /\ UNCHANGED <<rawVars, mergeVars, corpusVars, job, rollbacks>>

NextSource(p) == at' = [at EXCEPT ![p] = @ \ {Current(p)}]

LargeEnough(s) == raw[s] >= (6 * Cap[s]) \div 10

\* A file that is there with 60% of its cap is taken for the source, however
\* its download ended.
SkipSource(p) ==
  /\ pc[p] = "download" /\ at[p] # {}
  /\ raw[Current(p)] > 0 /\ LargeEnough(Current(p))
  /\ NextSource(p)
  /\ UNCHANGED <<rawVars, mergeVars, corpusVars, pc, fresh, job, bounds>>

\* An empty file is removed whatever follows.
WithoutEmpty(s) == [raw EXCEPT ![s] = IF @ = 0 THEN Missing ELSE @]

Written(s) == late' = IF complete THEN late \cup {s} ELSE late

\* BufferedJsonlWriter truncates the file.
OpenSource(p) ==
  /\ pc[p] = "download" /\ at[p] # {}
  /\ LET s == Current(p)
     IN /\ ~(raw[s] > 0 /\ LargeEnough(s))
        /\ raw' = [raw EXCEPT ![s] = 0]
        /\ Written(s)
  /\ Goto(p, "fetch")
  /\ UNCHANGED <<mergeVars, corpusVars, at, fresh, job, bounds>>

\* hf_load_dataset raises.
LoadFails(p) ==
  /\ pc[p] = "download" /\ at[p] # {}
  /\ LET s == Current(p)
     IN /\ ~(raw[s] > 0 /\ LargeEnough(s))
        /\ raw' = WithoutEmpty(s)
        /\ IF s \in Optional THEN NextSource(p) /\ UNCHANGED pc ELSE Ends(p)
  /\ UNCHANGED <<late, mergeVars, corpusVars, fresh, job, bounds>>

StreamEnds(s) == raw[s] >= Offered[s] \/ raw[s] >= Cap[s]

\* The stream is read up to the cap.
FetchRow(p) ==
  /\ pc[p] = "fetch" /\ ~StreamEnds(Current(p))
  /\ raw' = [raw EXCEPT ![Current(p)] = @ + 1]
  /\ Written(Current(p))
  /\ UNCHANGED <<mergeVars, corpusVars, pc, at, fresh, job, bounds>>

FetchEnds(p) ==
  /\ pc[p] = "fetch" /\ StreamEnds(Current(p))
  /\ NextSource(p) /\ Goto(p, "download")
  /\ UNCHANGED <<rawVars, mergeVars, corpusVars, fresh, job, bounds>>

\* The stream raises: what was read is flushed and stays.
FetchFails(p) ==
  /\ pc[p] = "fetch"
  /\ IF Current(p) \in Optional
     THEN NextSource(p) /\ Goto(p, "download")
     ELSE Ends(p)
  /\ UNCHANGED <<rawVars, mergeVars, corpusVars, fresh, job, bounds>>
--------------------------------------------------------------------------------
(***************************************************************************)
(* Phase 2: merge_with_quality, under its run lock.                         *)
(***************************************************************************)
LockFree == \A q \in Runs : pc[q] # "merge"

MergeRefused(p) ==
  /\ pc[p] = "download" /\ at[p] = {}
  /\ ~LockFree \/ \A s \in Sources : raw[s] = Missing
  /\ Ends(p)
  /\ UNCHANGED <<rawVars, mergeVars, corpusVars, fresh, job, bounds>>

MayMerge(p) ==
  /\ pc[p] = "download" /\ at[p] = {}
  /\ LockFree /\ \E s \in Sources : raw[s] # Missing

\* Variant: --fresh forgets the offsets and not the flag.
BeginFreshComplete(p) ==
  /\ MayMerge(p) /\ fresh[p]
  /\ merged' = [s \in Sources |-> 0] /\ lost' = [s \in Sources |-> 0]
  /\ late' = {} /\ Goto(p, "merge")
  /\ UNCHANGED <<raw, complete, corpusVars, at, fresh, job, bounds>>

BeginFresh(p) ==
  /\ MayMerge(p) /\ fresh[p]
  /\ merged' = [s \in Sources |-> 0] /\ complete' = FALSE
  /\ lost' = [s \in Sources |-> 0]
  /\ late' = {} /\ Goto(p, "merge")
  /\ UNCHANGED <<raw, corpusVars, at, fresh, job, bounds>>

BeginResumed(p) ==
  /\ MayMerge(p) /\ ~fresh[p] /\ Goto(p, "merge")
  /\ UNCHANGED <<rawVars, mergeVars, corpusVars, at, fresh, job, bounds>>

MergeRow(p) ==
  /\ pc[p] = "merge" /\ ~complete
  /\ \E s \in Sources :
       merged[s] < raw[s] /\ merged' = [merged EXCEPT ![s] = @ + 1]
  /\ UNCHANGED <<rawVars, complete, lost, corpusVars, pc, at, fresh, job, bounds>>

Unmerged(s) == IF merged[s] < raw[s] THEN raw[s] - merged[s] ELSE 0
AllMerged == \A s \in Sources : Unmerged(s) = 0

\* A merge that was complete before is not looked at again.
EndMerge(p) ==
  /\ pc[p] = "merge"
  /\ complete \/ AllMerged
  /\ complete' = TRUE
  /\ Goto(p, "save")
  /\ UNCHANGED <<rawVars, merged, lost, corpusVars, at, fresh, job, bounds>>

\* The same end is reached, and the merge published as complete, when a heavy
\* batch was dropped or the reader or the apply thread has died: GraphMerge has
\* the three faults, and proves that the output is then what comes before the
\* first line that was lost.
EndMergeShort(p) ==
  /\ pc[p] = "merge"
  /\ ~complete /\ ~AllMerged
  /\ complete' = TRUE
  /\ lost' = [s \in Sources |-> Unmerged(s)]
  /\ Goto(p, "save")
  /\ UNCHANGED <<rawVars, merged, corpusVars, at, fresh, job, bounds>>
--------------------------------------------------------------------------------
(***************************************************************************)
(* Phase 3: CorpusRegistry.save_manifest.                                   *)
(***************************************************************************)
\* "manifest_v<m>.json" sorts before "manifest_v<n>.json": a dot sorts before
\* a digit.
NameBefore(m, n) ==
  LET a == Digits[m]
      b == Digits[n]
  IN \/ Len(a) < Len(b) /\ \A i \in DOMAIN a : a[i] = b[i]
     \/ \E i \in DOMAIN a \cap DOMAIN b :
          a[i] < b[i] /\ \A j \in 1..(i - 1) : a[j] = b[j]

Versions == DOMAIN manifests

\* The last file in the order of the names.
LastOf(V) == CHOOSE v \in V : \A w \in V \ {v} : NameBefore(w, v)

LastName == LastOf(Versions)

\* Variant: the version after the one that latest.json names.
AfterPointer ==
  IF Versions = {} THEN 1
  ELSE IF pointer = TornPointer THEN LastName + 1 ELSE pointer + 1

next_version == IF Versions = {} THEN 1 ELSE LastName + 1

latest_manifest == IF Versions = {} THEN NoVersion ELSE LastName

\* The latest manifest is loaded for the sake of its number.
SaveBegins(p) ==
  /\ pc[p] = "save"
  /\ latest_manifest # NoVersion => manifests[latest_manifest] # Torn
  /\ job' = [job EXCEPT ![p] = [version |-> next_version,
                                parent |-> latest_manifest]]
  /\ Goto(p, "copy")
  /\ UNCHANGED <<rawVars, mergeVars, corpusVars, at, fresh, bounds>>

\* json.loads of a torn manifest raises, and the run ends without publishing.
SaveRefused(p) ==
  /\ pc[p] = "save"
  /\ latest_manifest # NoVersion /\ manifests[latest_manifest] = Torn
  /\ Ends(p)
  /\ interrupted' = TRUE
  /\ UNCHANGED <<rawVars, mergeVars, pool, manifests, pointer, fresh, job, bounds>>

\* Variant: the pool is copied once.
KeepPool(p) ==
  /\ pc[p] = "copy"
  /\ IF pool = NoPool THEN pool' = Torn /\ Goto(p, "copying")
     ELSE UNCHANGED pool /\ Goto(p, "describe")
  /\ UNCHANGED <<rawVars, mergeVars, manifests, pointer, interrupted, at, fresh,
                 job, bounds>>

CopyPool(p) ==
  /\ pc[p] = "copy"
  /\ pool' = Torn /\ Goto(p, "copying")
  /\ UNCHANGED <<rawVars, mergeVars, manifests, pointer, interrupted, at, fresh,
                 job, bounds>>

PoolCopied(p) ==
  /\ pc[p] = "copying"
  /\ pool' = [rows |-> merged] /\ Goto(p, "describe")
  /\ UNCHANGED <<rawVars, mergeVars, manifests, pointer, interrupted, at, fresh,
                 job, bounds>>

\* filtered.jsonl is read for its hash.  raw, lost and late are history: what
\* there was to merge when this was written, and what had become of it.
Manifest(p) ==
  [filtered |-> merged, parent |-> job[p].parent,
   raw |-> raw, lost |-> lost, late |-> late]

Describe(p) ==
  /\ pc[p] = "describe"
  /\ job' = [job EXCEPT ![p] = [version |-> job[p].version, text |-> Manifest(p)]]
  /\ Goto(p, "open")
  /\ UNCHANGED <<rawVars, mergeVars, corpusVars, at, fresh, bounds>>

PutManifest(v, text) ==
  manifests' = [w \in Versions \cup {v} |-> IF w = v THEN text ELSE manifests[w]]

OpenManifest(p) ==
  /\ pc[p] = "open"
  /\ PutManifest(job[p].version, Torn) /\ Goto(p, "write")
  /\ UNCHANGED <<rawVars, mergeVars, pool, pointer, interrupted, at, fresh, job,
                 bounds>>

WriteManifest(p) ==
  /\ pc[p] = "write"
  /\ PutManifest(job[p].version, job[p].text) /\ Goto(p, "publish")
  /\ UNCHANGED <<rawVars, mergeVars, pool, pointer, interrupted, at, fresh, job,
                 bounds>>

OpenPointer(p) ==
  /\ pc[p] = "publish"
  /\ pointer' = TornPointer /\ Goto(p, "publishing")
  /\ UNCHANGED <<rawVars, mergeVars, pool, manifests, interrupted, at, fresh, job,
                 bounds>>

Publish(p) ==
  /\ pc[p] = "publishing"
  /\ pointer' = job[p].version
  /\ Ends(p) /\ job' = [job EXCEPT ![p] = NoJob]
  /\ interrupted' = FALSE
  /\ UNCHANGED <<rawVars, mergeVars, pool, manifests, fresh, bounds>>
--------------------------------------------------------------------------------
Whole == {v \in Versions : manifests[v] # Torn}

\* rollback_to, by hand and at any time; it may be killed as well.
Rollback ==
  /\ rollbacks < MaxRollbacks
  /\ \E v \in Whole : pointer' \in {v, TornPointer}
  /\ rollbacks' = rollbacks + 1
  /\ UNCHANGED <<rawVars, mergeVars, pool, manifests, interrupted, pc, at, fresh,
                 job, starts>>

Saving(p) ==
  pc[p] \in {"save", "copy", "copying", "describe", "open", "write", "publish",
             "publishing"}

Crash(p) ==
  /\ pc[p] # "down"
  /\ Ends(p) /\ job' = [job EXCEPT ![p] = NoJob]
  /\ interrupted' = (interrupted \/ Saving(p) \/ pc[p] = "merge")
  /\ UNCHANGED <<rawVars, mergeVars, pool, manifests, pointer, fresh, bounds>>

Step(p) ==
  \/ Start(p) \/ SkipSource(p) \/ OpenSource(p) \/ LoadFails(p)
  \/ FetchRow(p) \/ FetchEnds(p) \/ FetchFails(p)
  \/ MergeRefused(p) \/ BeginFresh(p) \/ BeginResumed(p)
  \/ MergeRow(p) \/ EndMerge(p) \/ EndMergeShort(p)
  \/ SaveBegins(p) \/ SaveRefused(p) \/ CopyPool(p) \/ PoolCopied(p)
  \/ Describe(p) \/ OpenManifest(p) \/ WriteManifest(p)
  \/ OpenPointer(p) \/ Publish(p) \/ Crash(p)

Next == Rollback \/ \E p \in Runs : Step(p)

Spec == Init /\ [][Next]_vars
--------------------------------------------------------------------------------
(***************************************************************************)
(* What holds.  The sorting of the file names as text is right up to        *)
(* version Base - 1: see VersionsAreKeptForEver.                            *)
(***************************************************************************)

\* A manifest that was written whole is never changed, below version Base:
\* save_manifest takes a number that no file has, also after a crash left a
\* torn manifest, a rollback or a fresh merge.
VersionsAreKept ==
  [][\A v \in Whole : v < Base => v \in Whole' /\ manifests'[v] = manifests[v]]_vars

\* When no run is merging or saving and none was interrupted there, the replay
\* pool, the last manifest and filtered.jsonl hold the same corpus, and
\* latest.json names a whole manifest unless a rollback was killed.
PublishedTogether ==
  (/\ \A p \in Runs : pc[p] # "merge" /\ ~Saving(p)
   /\ ~interrupted /\ Versions # {} /\ Base \notin Versions)
  => /\ manifests[LastName] # Torn
     /\ manifests[LastName].filtered = merged /\ pool = [rows |-> merged]
     /\ pointer = TornPointer \/ pointer \in Whole

\* What a manifest describes lacks no row its raw files had but those that the
\* merge which became complete has lost itself, however often it was stopped and
\* resumed, killed or begun afresh, and whatever was published or rolled back
\* before.  Sources that were downloaded again when it was complete are never
\* looked at.
PublishedIsMerged ==
  \A v \in Whole : \A s \in Sources \ manifests[v].late :
    manifests[v].filtered[s] + manifests[v].lost[s] >= manifests[v].raw[s]
--------------------------------------------------------------------------------
(***************************************************************************)
(* What the code does not ensure; README.md has the behaviours.             *)
(***************************************************************************)

\* The same for every version: from version Base on, the name that sorts last
\* is that of version Base - 1, and each save overwrites version Base.
VersionsAreKeptForEver ==
  [][\A v \in Whole : v \in Whole' /\ manifests'[v] = manifests[v]]_vars

\* A manifest has every row that was there to merge, but for sources that were
\* downloaded again: a merge with dead threads or dropped batches is published
\* like any other.
PublishedIsWhole ==
  \A v \in Whole : \A s \in Sources \ manifests[v].late :
    manifests[v].filtered[s] >= manifests[v].raw[s]

\* A manifest has every row that was downloaded when it was written.
PublishedIsDownloaded ==
  \A v \in Whole : \A s \in Sources :
    manifests[v].filtered[s] >= manifests[v].raw[s]

\* A run can publish again after a crash.
RegistryReadable ==
  (\A p \in Runs : ~Saving(p)) /\ Versions # {} => manifests[LastName] # Torn

\* A source whose download is skipped has all its rows: 60% of the cap are
\* taken for the whole, also when a crash left them.
SkippedIsWhole ==
  [][\A p \in Runs : SkipSource(p) => StreamEnds(Current(p))]_vars
================================================================================
