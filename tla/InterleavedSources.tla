-------------------------- MODULE InterleavedSources --------------------------
(***************************************************************************)
(* A merge of several sources: the weighted interleaving of their lines,    *)
(* the checkpoint with one row for each of them, and what a resumed, an     *)
(* incremental and an appending merge make of it (src/indw/schedule/core.py,*)
(* state/checkpoint.py, state/setup.py, apply/merge.py, apply/lifecycle.py, *)
(* monitor/invariants.py).                                                  *)
(*                                                                          *)
(* Module MergeResume has the steps inside the application of a line and    *)
(* inside a flush; here a line is applied at once, is one chunk at most and *)
(* comes from the reader in its order (module ApplyCoordinator).  The known *)
(* contents are those of the output and of this session: a hash index that  *)
(* runs ahead of the output is in MergeResume.  A stop falls between lines. *)
(*                                                                          *)
(* A "Variant" is not part of the specification: it is the definition after *)
(* it with a mistake in it, which the property README.md names must notice. *)
(***************************************************************************)
EXTENDS Integers, Sequences, FiniteSets, SequencesExt

CONSTANTS
  Sources,      \* a set of numbers, in the order of the sources' names
  Files,        \* what data.jsonl of a source may hold
  Blank,        \* a line that is empty or cannot be parsed
  Unfit,        \* the contents the quality gate rejects
  Weight,       \* Weight[s]: mix_pct of s
  BufferRows,   \* write_buffer_bytes, in rows
  ReadAhead,    \* lines between the reader and the apply thread
  MaxSessions   \* merges started on the work directory

ASSUME SourcesAssumption == Sources \subseteq Nat /\ IsFiniteSet(Sources)
ASSUME FilesAssumption == \A f \in Files : f \in Seq(Range(f))
ASSUME WeightAssumption == Weight \in [Sources -> Nat \ {0}]
ASSUME BoundsAssumption ==
  {BufferRows, ReadAhead, MaxSessions} \subseteq Nat \ {0}

VARIABLES
  lines,        \* lines[s]: the lines of source s
  present,      \* sources that have been downloaded
  incremental,  \* whether merges with a source_filter are run
  \* on disk
  out, saved,
  damaged,      \* the output has lost rows
  \* in the memory of the process
  cp, buffer, known, pc,
  filter,       \* the sources of this merge
  next,         \* line_no + 1 of their handles
  exhausted, tick,
  feed,         \* lines read and not yet applied
  begun,        \* history: the offsets this session began with
  foreign,      \* history: rows it found less rows it had counters for
  cleared,      \* history: the checkpoint may count rows an incremental merge cut
  sessions

fileVars == <<lines, present, incremental, damaged>>
readVars == <<next, exhausted, tick>>
sessionVars == <<filter, begun, foreign, sessions>>
vars == <<fileVars, out, saved, cleared, cp, buffer, known, pc, readVars, feed,
          sessionVars>>

ZeroRow == [offset |-> 0, scanned |-> 0, kept |-> 0, rejected |-> 0]

\* names is the order of the dict of sources; the row of a source that is not
\* in it is zero.
NewCheckpoint ==
  [names |-> <<>>, row |-> [s \in Sources |-> ZeroRow], complete |-> FALSE]

\* The numbers in S in order: the i-th has i - 1 below it.
Sorted(S) ==
  [i \in 1 .. Cardinality(S) |->
     CHOOSE s \in S : Cardinality({t \in S : t < s}) = i - 1]

Down ==
  /\ pc' = "down"
  /\ cp' = NewCheckpoint /\ buffer' = <<>> /\ known' = {} /\ feed' = <<>>
  /\ filter' = {} /\ foreign' = 0
  /\ begun' = [s \in Sources |-> 0]
  /\ next' = [s \in Sources |-> 0] /\ exhausted' = {} /\ tick' = 0

Init ==
  /\ lines \in [Sources -> Files]
  /\ present \in (SUBSET Sources) \ {{}} /\ incremental \in BOOLEAN
  /\ out = <<>> /\ saved = NewCheckpoint /\ damaged = FALSE /\ cleared = FALSE
  /\ pc = "down"
  /\ cp = NewCheckpoint /\ buffer = <<>> /\ known = {} /\ feed = <<>>
  /\ filter = {} /\ foreign = 0
  /\ begun = [s \in Sources |-> 0]
  /\ next = [s \in Sources |-> 0] /\ exhausted = {} /\ tick = 0
  /\ sessions = 0

Alive == pc # "down"
--------------------------------------------------------------------------------
(***************************************************************************)
(* The counters.                                                            *)
(***************************************************************************)
\* There are f[s] things of each s.
Things(f) == UNION {{s} \X (1 .. f[s]) : s \in DOMAIN f}
Sum(f) == Cardinality(Things(f))

Kept(c) == Sum([s \in Range(c.names) |-> c.row[s].kept])

\* A row is made for each source that is asked for.
WithRows(c, S) == [c EXCEPT !.names = @ \o Sorted(S \ Range(@))]

\* The names that are in S, in their order.
Only(names, S) ==
  LET at == Sorted({i \in DOMAIN names : names[i] \in S})
  IN [j \in DOMAIN at |-> names[at[j]]]

Pruned(c, S) ==
  [c EXCEPT !.names = Only(@, S),
            !.row = [s \in Sources |-> IF s \in S THEN @[s] ELSE ZeroRow]]

\* How reconcile_checkpoint_output shares n rows: in proportion, rounded down,
\* and the last source gets the rest.
RoundedDown(c, n, s) ==
  IF Kept(c) = 0 THEN 0 ELSE (c.row[s].kept * n) \div Kept(c)

Share(c, n, s) ==
  IF s # Last(c.names)
  THEN RoundedDown(c, n, s)
  ELSE n - Sum([t \in Range(c.names) \ {s} |-> RoundedDown(c, n, t)])

\* Variant: every share is rounded down.
RoundedShares(c, n) ==
  [s \in Sources |->
     IF ~Contains(c.names, s) THEN 0
     ELSE IF Kept(c) = 0 THEN n ELSE RoundedDown(c, n, s)]

Shares(c, n) ==
  [s \in Sources |-> IF Contains(c.names, s) THEN Share(c, n, s) ELSE 0]

\* Variant: scanned follows kept downwards, too.
ReconciledBothWays(c) ==
  LET kept == Shares(c, Len(out))
      row(s) == [c.row[s] EXCEPT !.scanned = @ + kept[s] - c.row[s].kept,
                                 !.kept = kept[s]]
  IN IF Len(out) = Kept(c) THEN c
     ELSE [c EXCEPT !.row = [s \in Sources |-> row(s)]]

\* reconcile_checkpoint_output, when it does not raise.
Reconciled(c) ==
  LET kept == Shares(c, Len(out))
      surplus(s) == IF Len(out) > Kept(c) THEN kept[s] - c.row[s].kept ELSE 0
      row(s) == [c.row[s] EXCEPT !.scanned = @ + surplus(s), !.kept = kept[s]]
  IN IF Len(out) = Kept(c) THEN c
     ELSE [c EXCEPT !.row = [s \in Sources |-> row(s)]]

OutputLost(c) == out = <<>> /\ Kept(c) > 0

AddUp(c) ==
  \A s \in Range(c.names) :
    c.row[s].scanned = c.row[s].kept + c.row[s].rejected

\* validate_merge_accounting, but for the index.
Accounted(c) == AddUp(c) /\ Kept(c) = Len(out)
--------------------------------------------------------------------------------
(***************************************************************************)
(* bootstrap_merge_run and _InterleavedSources.open.                        *)
(***************************************************************************)

\* any() asks for the sources' offsets in order, up to the first that is not 0.
AskedFor(c, S) ==
  LET before(s) == \A t \in S : t < s => c.row[t].offset = 0
  IN {s \in S : before(s)}

Resuming(c, S) == \E s \in S : c.row[s].offset > 0

\* Variant: the handle skips one line more than were applied.
OpenOneAhead(c, S) ==
  /\ cp' = WithRows(c, S)
  /\ next' = [s \in Sources |-> IF s \in S /\ c.row[s].offset > 0
                                THEN c.row[s].offset + 1 ELSE 0]
  /\ exhausted' = {} /\ tick' = 0

\* _InterleavedSources.open skips the lines that were applied.
OpenSources(c, S) ==
  /\ cp' = WithRows(c, S)
  /\ next' = [s \in Sources |-> c.row[s].offset]
  /\ exhausted' = {} /\ tick' = 0

Begin(c, S) ==
  /\ OpenSources(c, S)
  /\ begun' = [s \in Sources |-> c.row[s].offset]
  /\ filter' = S
  /\ pc' = "merging"

\* The output is opened with mode "w", and nothing is known.  The checkpoint
\* on disk stays what it was until this merge saves its own.
BeginEmpty(c, S) ==
  /\ ~Resuming(c, S)
  /\ Begin(c, S)
  /\ out' = <<>> /\ known' = {} /\ foreign' = 0 - Kept(c)
  /\ cleared' = (cleared \/ Resuming(saved, Sources))

\* Variant: only a resumed merge reads the output's contents.
BeginAppendingUnseeded(c, S) ==
  /\ ~Resuming(c, S)
  /\ Begin(c, S)
  /\ known' = {} /\ foreign' = Len(out) - Kept(c)
  /\ UNCHANGED <<out, cleared>>

BeginAppending(c, S) ==
  /\ ~Resuming(c, S)
  /\ Begin(c, S)
  /\ known' = Range(out) /\ foreign' = Len(out) - Kept(c)
  /\ UNCHANGED <<out, cleared>>

BeginResumed(c, S) ==
  LET asked == WithRows(c, AskedFor(c, S))
      reconciled == Reconciled(asked)
  IN /\ Resuming(c, S)
     /\ ~OutputLost(asked) /\ Accounted(reconciled)
     /\ Begin(reconciled, S)
     /\ known' = Range(out) /\ foreign' = 0
     /\ UNCHANGED <<out, cleared>>

CanStart(S) ==
  /\ ~Alive
  /\ sessions < MaxSessions
  /\ sessions' = sessions + 1
  /\ S # {}
  /\ UNCHANGED <<fileVars, saved, buffer, feed>>

\* A merge of everything; a complete checkpoint ends it before it begins.
\* Where BeginResumed is not possible the merge is refused, and changes nothing.
Start ==
  LET loaded == Pruned(saved, present)
  IN /\ CanStart(present)
     /\ ~saved.complete
     /\ BeginEmpty(loaded, present) \/ BeginResumed(loaded, present)

\* A merge with a source_filter, with append or without.
StartIncremental(S) ==
  LET loaded == [Pruned(saved, S) EXCEPT !.complete = FALSE]
  IN /\ incremental
     /\ CanStart(S)
     /\ BeginEmpty(loaded, S) \/ BeginAppending(loaded, S) \/ BeginResumed(loaded, S)

(***************************************************************************)
(* _InterleavedSources.__iter__.                                            *)
(***************************************************************************)
\* Variant: every source has one turn.
OneEntry(s) == 1

\* How often the name of s is in the schedule.
Entries(s) == Weight[s]

\* The schedule has the entries of each source in a row, and the sources in the
\* order of their names.
EntriesOf(S) == Sum([s \in S |-> Entries(s)])
Before(s) == EntriesOf({t \in filter : t < s})

\* tick counts up; it is only used modulo the length of the schedule.
NextTurn == tick' = (tick + 1) % EntriesOf(filter)

Turn(s) ==
  /\ pc = "merging"
  /\ exhausted # filter
  /\ s \in filter
  /\ tick \in Before(s) .. Before(s) + Entries(s) - 1

ReadLine(s) ==
  /\ Turn(s) /\ s \notin exhausted
  /\ next[s] < Len(lines[s])
  /\ Len(feed) < ReadAhead
  /\ feed' = Append(feed, [source |-> s, no |-> next[s]])
  /\ next' = [next EXCEPT ![s] = @ + 1]
  /\ UNCHANGED exhausted
  /\ NextTurn
  /\ UNCHANGED <<fileVars, out, saved, cleared, cp, buffer, known, pc, sessionVars>>

EndOfFile(s) ==
  /\ Turn(s) /\ s \notin exhausted
  /\ next[s] >= Len(lines[s])
  /\ exhausted' = exhausted \cup {s}
  /\ NextTurn
  /\ UNCHANGED <<fileVars, out, saved, cleared, cp, buffer, known, pc, next, feed,
                 sessionVars>>

SkipTurn(s) ==
  /\ Turn(s) /\ s \in exhausted
  /\ UNCHANGED exhausted
  /\ NextTurn
  /\ UNCHANGED <<fileVars, out, saved, cleared, cp, buffer, known, pc, next, feed,
                 sessionVars>>

(***************************************************************************)
(* apply_merge_preprocessed_line.                                           *)
(***************************************************************************)
Item == Head(feed)
Content == lines[Item.source][Item.no + 1]

Counted(scanned, kept, rejected) ==
  [cp EXCEPT !.row[Item.source] =
     [offset |-> Item.no + 1, scanned |-> @.scanned + scanned,
      kept |-> @.kept + kept, rejected |-> @.rejected + rejected]]

Save(c) ==
  /\ saved' = c
  /\ cleared' = (cleared /\ \E s \in filter : begun[s] > 0)

Applying == pc = "merging" /\ feed # <<>> /\ feed' = Tail(feed)

ApplyBlank ==
  /\ Applying
  /\ Content = Blank
  /\ cp' = Counted(0, 0, 0)
  /\ UNCHANGED <<fileVars, out, saved, cleared, buffer, known, pc, readVars, sessionVars>>

ApplyRejected ==
  /\ Applying
  /\ Content # Blank
  /\ Content \in Unfit \cup known
  /\ cp' = Counted(1, 0, 1)
  /\ known' = known \cup {Content}
  /\ UNCHANGED <<fileVars, out, saved, cleared, buffer, pc, readVars, sessionVars>>

\* A full buffer is flushed before the row is counted, and a checkpoint saved
\* then has the line as scanned and not as kept.
ApplyKept ==
  /\ Applying
  /\ Content \notin Unfit \cup known \cup {Blank}
  /\ cp' = Counted(1, 1, 0)
  /\ known' = known \cup {Content}
  /\ IF Len(buffer) + 1 < BufferRows
     THEN buffer' = Append(buffer, Content) /\ UNCHANGED <<out, saved, cleared>>
     ELSE /\ out' = Append(out \o buffer, Content)
          /\ buffer' = <<>>
          /\ UNCHANGED <<saved, cleared>> \/ Save(Counted(1, 0, 0))
  /\ UNCHANGED <<fileVars, pc, readVars, sessionVars>>

(***************************************************************************)
(* The end of a session.                                                    *)
(***************************************************************************)
Pause ==
  /\ pc = "merging"
  /\ out' = out \o buffer
  /\ Save(cp)
  /\ Down
  /\ UNCHANGED <<fileVars, sessions>>

CloseSink ==
  /\ pc = "merging"
  /\ exhausted = filter /\ feed = <<>>
  /\ out' = out \o buffer /\ buffer' = <<>>
  /\ UNCHANGED <<saved, cleared>> \/ Save(cp)
  /\ pc' = "closed"
  /\ UNCHANGED <<fileVars, cp, known, readVars, feed, sessionVars>>

Complete ==
  /\ pc = "closed"
  /\ Accounted(cp)
  /\ Save([cp EXCEPT !.complete = TRUE])
  /\ Down
  /\ UNCHANGED <<fileVars, out, sessions>>

Fail ==
  /\ pc = "closed"
  /\ ~Accounted(cp)
  /\ Down
  /\ UNCHANGED <<fileVars, out, saved, cleared, sessions>>

Crash ==
  /\ Alive
  /\ Down
  /\ UNCHANGED <<fileVars, out, saved, cleared, sessions>>

(***************************************************************************)
(* What happens to the files between two merges.                            *)
(***************************************************************************)
Download(s) ==
  /\ ~Alive
  /\ present' = present \cup {s}
  /\ UNCHANGED <<lines, incremental, damaged, out, saved, cleared, cp, buffer, known, pc, readVars,
                 feed, sessionVars>>

\* The end of an output that is not complete is lost, once, in a work directory
\* without incremental merges: one of those does not notice the loss of a row
\* that it has no counters for.
LoseRows ==
  /\ ~incremental
  /\ ~Alive /\ ~damaged /\ ~saved.complete
  /\ \E n \in 0 .. Len(out) - 1 : out' = SubSeq(out, 1, n)
  /\ damaged' = TRUE
  /\ UNCHANGED <<lines, present, incremental, saved, cleared, cp, buffer, known, pc, readVars, feed,
                 sessionVars>>

Next ==
  \/ Start \/ \E S \in SUBSET present : StartIncremental(S)
  \/ \E s \in Sources : ReadLine(s) \/ EndOfFile(s) \/ SkipTurn(s) \/ Download(s)
  \/ ApplyBlank \/ ApplyRejected \/ ApplyKept
  \/ Pause \/ CloseSink \/ Complete \/ Fail \/ Crash
  \/ LoseRows

Spec == Init /\ [][Next]_vars
--------------------------------------------------------------------------------
Contents == (UNION {Range(f) : f \in Files}) \ {Blank}
Row == [offset : Nat, scanned : Nat, kept : Nat, rejected : Nat]
Checkpoints == [names : Seq(Sources), row : [Sources -> Row], complete : BOOLEAN]

TypeOK ==
  /\ lines \in [Sources -> Files] /\ present \subseteq Sources
  /\ {out, buffer} \subseteq Seq(Contents) /\ Len(buffer) < BufferRows
  /\ saved \in Checkpoints /\ cp \in Checkpoints
  /\ \A c \in {saved, cp} : IsInjective(c.names)
  /\ known \subseteq Contents /\ pc \in {"down", "merging", "closed"}
  /\ filter \subseteq present /\ exhausted \subseteq filter
  /\ next \in [Sources -> Nat] /\ begun \in [Sources -> Nat]
  /\ tick \in 0 .. EntriesOf(Sources) - 1
  /\ feed \in Seq([source : Sources, no : Nat]) /\ Len(feed) <= ReadAhead
  /\ foreign \in Int /\ sessions \in 0 .. MaxSessions
  /\ {incremental, damaged, cleared} \subseteq BOOLEAN

(* What was applied, what waits to be and where the reader stands meet      *)
(* without gap or overlap in every source, however often and wherever the   *)
(* merge was interrupted, and in whatever set of sources it was resumed.    *)
ReaderMeetsCheckpoint ==
  \A s \in filter :
    LET waiting == {i \in DOMAIN feed : feed[i].source = s}
    IN /\ cp.row[s].offset <= next[s]
       /\ {feed[i].no : i \in waiting} = cp.row[s].offset .. next[s] - 1
       /\ \A i, j \in waiting : i < j => feed[i].no < feed[j].no

(* The counters of a merge that was let in add up, source by source, and    *)
(* their sum is the output and what waits to be written, after rows were    *)
(* shared between sources, pruned, appended to or taken over.  And a        *)
(* checkpoint that adds up is let in when the output is ahead of it: the    *)
(* rounded shares of the surplus are all of it.                             *)
CountersMatchOutput ==
  /\ Alive =>
       /\ AddUp(cp)
       /\ Kept(cp) + foreign = Len(out \o buffer)
  /\ ~Alive =>
       LET loaded == WithRows(Pruned(saved, present), AskedFor(saved, present))
       IN loaded.names # <<>> /\ AddUp(loaded) /\ Len(out) >= Kept(loaded) =>
            Accounted(Reconciled(loaded))

(* No content is written twice, whichever source it comes from.             *)
NoRepeats == \A i, j \in DOMAIN out : i < j => out[i] # out[j]

Wanted(s) == Range(lines[s]) \ (Unfit \cup {Blank})

(* A merge that completes has every content of every source it counts, and  *)
(* when all merges are of all sources even after rows were lost: a          *)
(* checkpoint that counts more rows than there are is never continued.  One *)
(* exception: an incremental merge that does not append cuts the output     *)
(* while the checkpoint on disk still counts what was in it.                *)
CompletesWithEveryContent ==
  [][saved'.complete /\ saved' # saved /\ ~cleared =>
       \A s \in Range(saved'.names) : Wanted(s) \subseteq Range(out')]_vars

(* Of two sources that both still have lines, a session applies lines in    *)
(* the ratio of their weights, to within one turn of each.                  *)
MixFollowsWeights ==
  pc = "merging" =>
    \A s, t \in filter :
      LET applied(u) == cp.row[u].offset - begun[u]
          unfinished(u) == cp.row[u].offset < Len(lines[u])
      IN s < t /\ unfinished(s) /\ unfinished(t) =>
           applied(s) * Weight[t] - applied(t) * Weight[s]
             \in 0 .. Weight[s] * Weight[t]

(* "Append new documents to existing output" (outputs.mdx): an appending    *)
(* merge that got to its end completes.                                     *)
AppendingCompletes == pc = "closed" => Accounted(cp)

(* A checkpoint that says complete belongs to the output beside it.         *)
CompleteMatchesOutput ==
  saved.complete =>
    \A s \in Range(saved.names) : Wanted(s) \subseteq Range(out)
================================================================================
