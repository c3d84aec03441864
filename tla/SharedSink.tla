------------------------------ MODULE SharedSink ------------------------------
(***************************************************************************)
(* The output sink and the checkpoint file when two threads use them: the   *)
(* apply thread, and the main thread that saves and closes at the end of a  *)
(* merge although the apply thread may still be at work, because its join   *)
(* expired or because a second signal arrived (src/indw/ingest/sink.py,     *)
(* schedule/row/signals.py, schedule/dispatch/parallel.py,                  *)
(* schedule/apply/lifecycle.py, store/io/atomic.py).                        *)
(*                                                                          *)
(* A step is what a thread does between two points where Python may switch  *)
(* to another.  A row is its number; a line is RowsPerLine rows.  Rejected  *)
(* lines and the hash index are left out, and what is written to the output *)
(* file is taken to be on disk (module MergeResume has the crashes).        *)
(*                                                                          *)
(* A "Variant" is not part of the specification: it is the definition after *)
(* it with a mistake in it, which the property README.md names must notice. *)
(***************************************************************************)
EXTENDS Integers, Sequences, FiniteSets, SequencesExt

CONSTANTS
  Rows,         \* rows of all lines that are delivered
  RowsPerLine,  \* chunks of a line
  Limit,        \* write_buffer_bytes, in rows
  MaxSaves      \* checkpoints the flush hook saves in this run

ASSUME CountsAssumption == {Rows, RowsPerLine, Limit, MaxSaves} \subseteq Nat \ {0}

\* The handler of a second signal runs on the main thread, whose own steps
\* wait, and are not taken up again.
Threads == {"apply", "main", "handler"}

VARIABLES
  \* BufferedJsonlWriter
  buffer,       \* the rows in the current _buffer object
  bytes,        \* _buffer_bytes, in rows
  closed,       \* _file is closed
  out,          \* filtered.jsonl
  \* the merge
  kept,         \* the checkpoint's counter
  row,          \* the row the apply thread is at, or has to write next
  stop,         \* stop_state.requested
  timedOut,
  \* the checkpoint file
  path, tmp,    \* what the names refer to, a file or none
  files,        \* what is in the files
  bak,          \* what is in the backup, and in its name none if there is none
  saves,        \* hook saves so far
  \* the threads
  pc, todo,     \* the step a thread is at, and what it does after it
  local,        \* the file it writes to, or whether it holds the current buffer
  value,        \* what it has read: rows, a number or a checkpoint
  \* history
  clashes,      \* which uses of sink and checkpoint file overlapped
  expired       \* the join ended before the apply thread

sinkVars == <<buffer, bytes, closed, out>>
mergeVars == <<kept, row, stop, timedOut>>
diskVars == <<path, tmp, files, bak, saves>>
threadVars == <<pc, todo, local, value>>
histVars == <<clashes, expired>>
vars == <<sinkVars, mergeVars, diskVars, threadVars, histVars>>

None == 0
Current == 9                            \* the current buffer, for local
Files == 1 .. 4                         \* two savers never need more

\* The contents of a file that cannot be read as a checkpoint.
Empty == [state |-> "empty", kept |-> 0, complete |-> FALSE]
Garbage == [state |-> "garbage", kept |-> 0, complete |-> FALSE]
Checkpoint(n, c) == [state |-> "whole", kept |-> n, complete |-> c]

Init ==
  /\ buffer = <<>> /\ bytes = 0 /\ closed = FALSE /\ out = <<>>
  /\ kept = 0 /\ row = 1 /\ stop = FALSE /\ timedOut = FALSE
  /\ path = None /\ tmp = None /\ files = [i \in Files |-> Empty]
  /\ bak = Empty /\ saves = 0
  /\ pc = [t \in Threads |-> CASE t = "apply" -> "row"
                               [] t = "main" -> "loop"
                               [] t = "handler" -> "none"]
  /\ todo = [t \in Threads |-> <<>>]
  /\ local = [t \in Threads |-> None]
  /\ value = [t \in Threads |-> <<>>]
  /\ clashes = {} /\ expired = FALSE

Running == pc["main"] # "exited"

\* The handler suspends the main thread.
MayStep(t) ==
  /\ Running
  /\ t = "main" => pc["handler"] \in {"none", "over"}

At(t, step) == MayStep(t) /\ pc[t] = step

InFlush == {"get", "write", "reset", "zero"}
InRow == {"load", "put", "add", "store"}
InSave == {"backup", "copy", "open", "fill", "replace"}

Steps == [flush |-> "check", save |-> "snapshot", count |-> "count",
          close |-> "close", complete |-> "complete", leave |-> "leave"]

\* t goes to a step, or to the first step of the next thing it has to do.
Goto(t, step) == pc' = [pc EXCEPT ![t] = step] /\ UNCHANGED todo
Continue(t, tasks) ==
  /\ pc' = [pc EXCEPT ![t] = Steps[Head(tasks)]]
  /\ todo' = [todo EXCEPT ![t] = Tail(tasks)]

Note(kind, condition) ==
  clashes' = IF condition THEN clashes \cup {kind} ELSE clashes

Others(t, steps) == \E u \in Threads \ {t} : pc[u] \in steps
--------------------------------------------------------------------------------
(***************************************************************************)
(* write_merge_chunks and write_row, on the apply thread.                   *)
(***************************************************************************)
FirstOfLine == (row - 1) % RowsPerLine = 0

\* Once a stop is requested the lines that are taken are not written.
TakeRow ==
  /\ At("apply", "row")
  /\ row <= Rows
  /\ FirstOfLine => ~stop
  /\ Goto("apply", "load")
  /\ UNCHANGED <<sinkVars, mergeVars, diskVars, local, value, histVars>>

\* Variant: what is left is not applied.
ApplyEndsAtOnce ==
  /\ At("apply", "row")
  /\ FirstOfLine
  /\ pc["main"] # "loop"
  /\ Goto("apply", "done")
  /\ UNCHANGED <<sinkVars, mergeVars, diskVars, local, value, histVars>>

\* The coordinator was stopped, and has nothing left.
ApplyEnds ==
  /\ At("apply", "row")
  /\ row > Rows \/ (FirstOfLine /\ stop)
  /\ pc["main"] # "loop"
  /\ Goto("apply", "done")
  /\ UNCHANGED <<sinkVars, mergeVars, diskVars, local, value, histVars>>

LoadBuffer ==
  /\ At("apply", "load")
  /\ local' = [local EXCEPT !["apply"] = Current]
  /\ Goto("apply", "put")
  /\ Note("row", Others("apply", InFlush))
  /\ UNCHANGED <<sinkVars, mergeVars, diskVars, value, expired>>

\* Nobody reads a buffer object that was replaced since it was loaded.
Put ==
  /\ At("apply", "put")
  /\ buffer' = IF local["apply"] = Current THEN Append(buffer, row) ELSE buffer
  /\ local' = [local EXCEPT !["apply"] = None]
  /\ Goto("apply", "add")
  /\ UNCHANGED <<bytes, closed, out, mergeVars, diskVars, value, histVars>>

LoadBytes ==
  /\ At("apply", "add")
  /\ value' = [value EXCEPT !["apply"] = <<bytes>>]
  /\ Goto("apply", "store")
  /\ UNCHANGED <<sinkVars, mergeVars, diskVars, local, histVars>>

StoreBytes ==
  /\ At("apply", "store")
  /\ bytes' = Head(value["apply"]) + 1
  /\ value' = [value EXCEPT !["apply"] = <<>>]
  /\ Continue("apply", IF bytes' >= Limit THEN <<"flush", "count">> ELSE <<"count">>)
  /\ UNCHANGED <<buffer, closed, out, mergeVars, diskVars, local, histVars>>

CountRow ==
  /\ At("apply", "count")
  /\ kept' = kept + 1 /\ row' = row + 1
  /\ Goto("apply", "row")
  /\ UNCHANGED <<sinkVars, stop, timedOut, diskVars, local, value, histVars>>

(***************************************************************************)
(* BufferedJsonlWriter.flush.                                               *)
(***************************************************************************)
CheckBytes(t) ==
  /\ At(t, "check")
  /\ Goto(t, IF bytes = 0 THEN "hook" ELSE "get")
  /\ clashes' = clashes \cup {kind \in {"flush", "row"} :
                     bytes > 0 /\ Others(t, IF kind = "flush" THEN InFlush ELSE InRow)}
  /\ UNCHANGED <<sinkVars, mergeVars, diskVars, local, value, expired>>

GetValue(t) ==
  /\ At(t, "get")
  /\ value' = [value EXCEPT ![t] = buffer]
  /\ Goto(t, "write")
  /\ UNCHANGED <<sinkVars, mergeVars, diskVars, local, histVars>>

Write(t) ==
  /\ At(t, "write")
  /\ ~closed
  /\ out' = out \o value[t]
  /\ value' = [value EXCEPT ![t] = <<>>]
  /\ Goto(t, "reset")
  /\ UNCHANGED <<buffer, bytes, closed, mergeVars, diskVars, local, histVars>>

\* write() raises on a closed file; nobody is told that the thread has ended.
WriteToClosed ==
  /\ At("apply", "write")
  /\ closed
  /\ Goto("apply", "dead")
  /\ UNCHANGED <<sinkVars, mergeVars, diskVars, local, value, histVars>>

\* Variant: only the count of bytes is reset.
KeepBuffer(t) ==
  /\ At(t, "reset")
  /\ Goto(t, "zero")
  /\ UNCHANGED <<sinkVars, mergeVars, diskVars, local, value, histVars>>

Reset(t) ==
  /\ At(t, "reset")
  /\ buffer' = <<>>
  /\ local' = IF pc["apply"] = "put" THEN [local EXCEPT !["apply"] = None] ELSE local
  /\ Goto(t, "zero")
  /\ UNCHANGED <<bytes, closed, out, mergeVars, diskVars, value, histVars>>

Zero(t) ==
  /\ At(t, "zero")
  /\ bytes' = 0
  /\ Goto(t, "hook")
  /\ UNCHANGED <<buffer, closed, out, mergeVars, diskVars, local, value, histVars>>

\* The hook saves a checkpoint if the last one is checkpoint_save_sec old.
Hook(t) ==
  /\ At(t, "hook")
  /\ \/ Continue(t, todo[t]) /\ UNCHANGED saves
     \/ /\ saves < MaxSaves
        /\ saves' = saves + 1
        /\ Continue(t, <<"save">> \o todo[t])
  /\ UNCHANGED <<sinkVars, mergeVars, path, tmp, files, bak, local, value, histVars>>

(***************************************************************************)
(* MergeCheckpoint.save and atomic_write_bytes.                             *)
(***************************************************************************)
Snapshot(t) ==
  /\ At(t, "snapshot")
  /\ value' = [value EXCEPT ![t] = <<Checkpoint(kept, FALSE)>>]
  /\ Goto(t, "backup")
  /\ UNCHANGED <<sinkVars, mergeVars, diskVars, local, histVars>>

\* _backup_existing: the backup is emptied, then filled.
BeginBackup(t) ==
  /\ At(t, "backup")
  /\ bak' = IF path = None THEN bak ELSE Empty
  /\ Goto(t, IF path = None THEN "open" ELSE "copy")
  /\ Note("save", Others(t, InSave))
  /\ UNCHANGED <<sinkVars, mergeVars, path, tmp, files, saves, local, value, expired>>

CopyBackup(t) ==
  /\ At(t, "copy")
  /\ bak' = files[path]
  /\ Goto(t, "open")
  /\ UNCHANGED <<sinkVars, mergeVars, path, tmp, files, saves, local, value, histVars>>

Free == Files \ ({path, tmp} \cup {local[t] : t \in {u \in Threads : pc[u] \in InSave}})

\* Variant: the checkpoint is written in place.
OpenInPlace(t) ==
  /\ At(t, "open")
  /\ \E f \in IF path # None THEN {path} ELSE {CHOOSE f \in Free : TRUE} :
       /\ path' = f /\ tmp' = f
       /\ files' = [files EXCEPT ![f] = Empty]
       /\ local' = [local EXCEPT ![t] = f]
  /\ Goto(t, "fill")
  /\ UNCHANGED <<sinkVars, mergeVars, bak, saves, value, histVars>>

\* The name of the temporary file is the same for all threads of a process.
OpenTemp(t) ==
  /\ At(t, "open")
  /\ \E f \in IF tmp # None THEN {tmp} ELSE {CHOOSE f \in Free : TRUE} :
       /\ tmp' = f
       /\ files' = [files EXCEPT ![f] = Empty]
       /\ local' = [local EXCEPT ![t] = f]
  /\ Goto(t, "fill")
  /\ UNCHANGED <<sinkVars, mergeVars, path, bak, saves, value, histVars>>

\* What another thread has put into the file is overwritten, but for its end.
FillTemp(t) ==
  /\ At(t, "fill")
  /\ LET mine == Head(value[t])
     IN \E content \in IF files[local[t]] = Empty THEN {mine} ELSE {mine, Garbage} :
          files' = [files EXCEPT ![local[t]] = content]
  /\ value' = [value EXCEPT ![t] = <<>>]
  /\ Goto(t, "replace")
  /\ UNCHANGED <<sinkVars, mergeVars, path, tmp, bak, saves, local, histVars>>

ReplacePath(t) ==
  /\ At(t, "replace")
  /\ tmp # None
  /\ path' = tmp /\ tmp' = None
  /\ local' = [local EXCEPT ![t] = None]
  /\ files' = [f \in Files |-> IF f = path /\ f \notin Range(local') THEN Empty
                               ELSE files[f]]
  /\ Continue(t, todo[t])
  /\ UNCHANGED <<sinkVars, mergeVars, bak, saves, value, histVars>>

\* Variant: the file is closed as it is.
CloseUnflushed == <<"close">>

CloseSink == <<"flush", "close">>

Closing == \/ pc["main"] = "close"
           \/ Len(todo["main"]) = 2 /\ Head(todo["main"]) = "close"

\* An exception leaves the with block, which closes the sink.
MainAborts == IF Closing THEN <<"leave">> ELSE CloseSink \o <<"leave">>

\* The temporary file has been moved away: replace() raises, and is not retried.
ReplaceFails(t) ==
  /\ At(t, "replace")
  /\ tmp = None
  /\ local' = [local EXCEPT ![t] = None]
  /\ CASE t = "apply" -> Goto("apply", "dead")
       [] t = "main" -> Continue("main", MainAborts)
       [] t = "handler" -> Continue("handler", todo["handler"])
  /\ UNCHANGED <<sinkVars, mergeVars, diskVars, value, histVars>>

(***************************************************************************)
(* The main thread: from the end of run_graph_merge to the end of the merge.*)
(***************************************************************************)
Signal ==
  /\ MayStep("main")
  /\ ~stop
  /\ stop' = TRUE
  /\ UNCHANGED <<sinkVars, kept, row, timedOut, diskVars, threadVars, histVars>>

\* A second signal: pause_merge_run in the handler, then SystemExit.
SecondSignal ==
  /\ stop
  /\ MayStep("main") /\ pc["handler"] = "none"
  /\ pc["main"] \notin {"complete", "leave"} /\ ~closed
  /\ pc' = [pc EXCEPT !["handler"] = Steps["flush"]]
  /\ todo' = [todo EXCEPT !["handler"] = <<"save", "leave">>]
  /\ UNCHANGED <<sinkVars, mergeVars, diskVars, local, value, histVars>>

RaiseSystemExit ==
  /\ At("handler", "leave")
  /\ pc' = [pc EXCEPT !["handler"] = "over", !["main"] = Steps[Head(MainAborts)]]
  /\ todo' = [todo EXCEPT !["main"] = Tail(MainAborts)]
  /\ local' = [local EXCEPT !["main"] = None]
  /\ value' = [value EXCEPT !["main"] = <<>>]
  /\ UNCHANGED <<sinkVars, mergeVars, diskVars, histVars>>

LeaveLoop ==
  /\ At("main", "loop")
  /\ timedOut' \in BOOLEAN
  /\ Goto("main", "join")
  /\ UNCHANGED <<sinkVars, kept, row, stop, diskVars, local, value, histVars>>

\* Variant: the checkpoint is saved before the sink is flushed.
SaveFirst == <<"save", "flush">>

Pause == <<"flush", "save">>

\* join() returns when the apply thread has ended or when its time is up.
Join ==
  /\ At("main", "join")
  /\ expired' = (pc["apply"] \notin {"done", "dead"})
  /\ Continue("main", IF stop \/ timedOut THEN Pause \o CloseSink \o <<"leave">>
                      ELSE CloseSink \o <<"complete">>)
  /\ UNCHANGED <<sinkVars, mergeVars, diskVars, local, value, clashes>>

Close ==
  /\ At("main", "close")
  /\ closed' = TRUE
  /\ Continue("main", todo["main"])
  /\ UNCHANGED <<buffer, bytes, out, mergeVars, diskVars, local, value, histVars>>

\* assert_merge_output_synced; a line that is begun is scanned and not yet kept.
Accounted == kept = Len(out) /\ pc["apply"] \in {"row", "done", "dead"}

Complete ==
  /\ At("main", "complete")
  /\ IF ~stop /\ Accounted
     THEN /\ value' = [value EXCEPT !["main"] = <<Checkpoint(kept, TRUE)>>]
          /\ pc' = [pc EXCEPT !["main"] = "backup"]
          /\ todo' = [todo EXCEPT !["main"] = <<"leave">>]
     ELSE Goto("main", "leave") /\ UNCHANGED value
  /\ UNCHANGED <<sinkVars, mergeVars, diskVars, local, histVars>>

\* The process ends, or is killed; the apply thread is a daemon.
Exit ==
  /\ At("main", "leave")
  /\ Goto("main", "exited")
  /\ UNCHANGED <<sinkVars, mergeVars, diskVars, local, value, histVars>>

Next ==
  \/ TakeRow \/ ApplyEnds \/ LoadBuffer \/ Put \/ LoadBytes \/ StoreBytes \/ CountRow
  \/ WriteToClosed
  \/ \E t \in Threads :
       \/ CheckBytes(t) \/ GetValue(t) \/ Write(t) \/ Reset(t) \/ Zero(t) \/ Hook(t)
       \/ Snapshot(t) \/ BeginBackup(t) \/ CopyBackup(t)
       \/ OpenTemp(t) \/ FillTemp(t) \/ ReplacePath(t) \/ ReplaceFails(t)
  \/ Signal \/ SecondSignal \/ RaiseSystemExit
  \/ LeaveLoop \/ Join \/ Close \/ Complete \/ Exit

Spec == Init /\ [][Next]_vars
--------------------------------------------------------------------------------
Contents == {Empty, Garbage} \cup
            {Checkpoint(n, c) : n \in 0 .. Rows, c \in BOOLEAN}

TypeOK ==
  /\ buffer \in Seq(1 .. Rows) /\ out \in Seq(1 .. Rows)
  /\ bytes \in 0 .. Limit
  /\ kept \in 0 .. Rows /\ row = kept + 1
  /\ {path, tmp} \subseteq Files \cup {None}
  /\ files \in [Files -> Contents] /\ bak \in Contents
  /\ saves \in 0 .. MaxSaves
  /\ {closed, stop, timedOut, expired} \subseteq BOOLEAN
  /\ clashes \subseteq {"flush", "row", "save"}

OnTheWay ==
  Range(buffer) \cup UNION {Range(value[t]) : t \in {u \in Threads : pc[u] = "write"}}

Saved == IF path = None THEN Empty ELSE files[path]

(* No row is in the output twice, unless two flushes overlapped.            *)
NoRowTwice ==
  "flush" \notin clashes => \A i, j \in DOMAIN out : i < j => out[i] < out[j]

(* A row that was counted is in the output or on its way there, unless a    *)
(* row was written while another thread was in a flush; at the end it is in *)
(* the output, unless the apply thread went on after the join or a signal.  *)
CountedRowsArrive ==
  clashes \cap {"flush", "row"} = {} =>
    /\ 1 .. kept \subseteq Range(out) \cup OnTheWay
    /\ pc["main"] = "exited" /\ ~expired /\ pc["handler"] = "none" =>
         1 .. kept \subseteq Range(out)

(* Whenever the process dies, checkpoint or backup can be read, unless two  *)
(* saves overlapped: the temporary file has one name for all threads.       *)
CheckpointReadable ==
  "save" \notin clashes /\ path # None =>
    "whole" \in {Saved.state, bak.state}

(* The checkpoint is never ahead of the output, unless the main thread      *)
(* saved while the apply thread went on.                                    *)
CheckpointNotAhead ==
  ~expired /\ pc["handler"] = "none" => Saved.kept <= Len(out)

(* A merge recorded as complete has every row in its output, unless join()  *)
(* gave up on the apply thread.                                             *)
CompleteHasAllRows ==
  Saved.complete /\ ~expired => out = [i \in 1 .. Rows |-> i]
================================================================================
