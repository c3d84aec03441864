--------------------------- MODULE SharedSinkProofs ---------------------------
(***************************************************************************)
(* Proofs about the output sink and the checkpoint file that the apply      *)
(* thread, the main thread and the handler of a second signal use at once,  *)
(* for any number of rows, rows in a line, size of the buffer and saves:    *)
(* the five invariants of module SharedSink.                                *)
(***************************************************************************)
EXTENDS SharedSink, SequenceTheorems, TLAPS

--------------------------------------------------------------------------------
(***************************************************************************)
(* Where the threads can be.                                                *)
(***************************************************************************)
FlushSteps == {"check", "get", "write", "reset", "zero", "hook"}
SaveSteps == {"snapshot", "backup", "copy", "open", "fill", "replace"}

\* A checkpoint is held in memory before it is in the file.
HoldsCheckpoint == {"backup", "copy", "open", "fill"}

\* A save that has begun: _backup_existing has been called.
Saving == {"copy", "open", "fill", "replace"}

ApplyControl ==
  /\ pc["apply"] \in {"row", "load", "put", "add", "store", "count", "done", "dead"}
                       \cup FlushSteps \cup SaveSteps
  /\ pc["apply"] \in FlushSteps \cup SaveSteps => todo["apply"] = <<"count">>
  /\ pc["apply"] \notin {"row", "done"} => row <= Rows

MainTodos ==
  {<<"leave">>, <<"complete">>, <<"close", "leave">>, <<"close", "complete">>,
   <<"flush", "close", "leave">>, <<"save", "flush", "close", "leave">>}

MainControl ==
  /\ pc["main"] \in {"loop", "join", "close", "complete", "leave", "exited"}
                      \cup FlushSteps \cup SaveSteps
  /\ pc["main"] \in {"close"} \cup FlushSteps \cup SaveSteps =>
       todo["main"] \in MainTodos
  /\ pc["main"] \in {"loop", "join"} => ~closed /\ ~expired

HandlerControl ==
  /\ pc["handler"] \in {"none", "over", "leave"} \cup FlushSteps \cup SaveSteps
  /\ pc["handler"] \in FlushSteps \cup SaveSteps =>
       todo["handler"] \in {<<"leave">>, <<"save", "leave">>}
  /\ pc["handler"] # "none" => stop

FileContents ==
  [state : {"empty", "garbage", "whole"}, kept : Nat, complete : BOOLEAN]

Typed ==
  /\ buffer \in Seq(Nat) /\ out \in Seq(Nat) /\ bytes \in Nat
  /\ kept \in 0 .. Rows /\ row = kept + 1
  /\ closed \in BOOLEAN /\ stop \in BOOLEAN /\ expired \in BOOLEAN
  /\ path \in Files \cup {None} /\ tmp \in Files \cup {None}
  /\ files \in [Files -> FileContents]
  /\ DOMAIN pc = Threads /\ DOMAIN todo = Threads
  /\ local \in [Threads -> Files \cup {None, Current}]
  /\ DOMAIN value = Threads

ValuesTyped ==
  /\ pc["apply"] = "store" => \E n \in Nat : value["apply"] = <<n>>
  /\ \A t \in Threads :
       /\ pc[t] = "write" => value[t] \in Seq(Nat)
       /\ pc[t] \in HoldsCheckpoint =>
            \E c \in FileContents : value[t] = <<c>> /\ c.state = "whole"

LocalsTyped ==
  \A t \in Threads :
    /\ pc[t] \in {"fill", "replace"} => local[t] \in Files
    /\ pc[t] = "put" /\ t = "apply" => local[t] \in {None, Current}
    /\ pc[t] \notin {"put", "fill", "replace"} => local[t] = None

Control ==
  /\ Typed /\ ApplyControl /\ MainControl /\ HandlerControl
  /\ ValuesTyped /\ LocalsTyped

(***************************************************************************)
(* The rows, as long as no two flushes have overlapped.                     *)
(***************************************************************************)
\* The rows up to this one are written.
Written ==
  IF pc["apply"] \in {"row", "load", "put", "done"} THEN kept ELSE row

Increasing(s) == \A i, j \in DOMAIN s : i < j => s[i] < s[j]

UpTo(s, n) == \A i \in DOMAIN s : s[i] <= n

Begins(s, t) == Len(s) <= Len(t) /\ \A i \in DOMAIN s : s[i] = t[i]

OneFlush ==
  /\ \A t, u \in Threads : pc[t] \in InFlush /\ pc[u] \in InFlush => t = u
  /\ \A t \in Threads : pc[t] \in InFlush => bytes > 0
  /\ pc["main"] \in InFlush => pc["handler"] \in {"none", "over", "check"}

RowsInOrder ==
  /\ Increasing(out) /\ UpTo(out, Written)
  /\ (\A t \in Threads : pc[t] # "reset") =>
       Increasing(out \o buffer) /\ UpTo(out \o buffer, Written)
  /\ \A t \in Threads : pc[t] = "write" => Begins(value[t], buffer)

(***************************************************************************)
(* The rows, as long as no row was written during a flush of another thread.*)
(***************************************************************************)
Upto(n) == [i \in 1 .. n |-> i]

RowsOrFlush ==
  /\ \A t \in Threads \ {"apply"} :
       pc[t] \in InFlush => pc["apply"] \notin {"put", "add", "store"}
  /\ pc["apply"] = "put" => local["apply"] = Current

AllRowsThere ==
  /\ (\A t \in Threads : pc[t] # "reset") => out \o buffer = Upto(Written)
  /\ (\E t \in Threads : pc[t] = "reset") => out = Upto(Written)
  /\ \A t \in Threads : pc[t] = "write" => value[t] = buffer

BytesCounted ==
  /\ pc["apply"] \notin {"add", "store"} /\ (\A t \in Threads : pc[t] # "zero") =>
       bytes = Len(buffer)
  /\ (\E t \in Threads : pc[t] = "zero") => buffer = <<>>
  /\ pc["apply"] \in {"add", "store"} => bytes + 1 = Len(buffer)
  /\ pc["apply"] = "store" => value["apply"] = <<bytes>>

(***************************************************************************)
(* The checkpoint's files, as long as no two saves have overlapped.         *)
(***************************************************************************)
OneSave == \A t, u \in Threads : pc[t] \in Saving /\ pc[u] \in Saving => t = u

FilesInOrder ==
  /\ path # None => path # tmp /\ files[path].state = "whole"
  /\ \A t \in Threads :
       /\ pc[t] \in {"fill", "replace"} => local[t] = tmp
       /\ pc[t] = "fill" => files[tmp] = Empty
       /\ pc[t] = "replace" => files[tmp].state = "whole"

(***************************************************************************)
(* The main thread ends the merge after the apply thread has ended.         *)
(***************************************************************************)
Ordered == ~expired /\ pc["handler"] = "none"

AfterApply ==
  /\ clashes = {}
  /\ pc["main"] \notin {"loop", "join"} =>
       pc["apply"] = "done" /\ (stop \/ row > Rows)
  /\ pc["apply"] # "dead"
  /\ pc["apply"] = "done" => row > Rows \/ stop

AfterFlush ==
  /\ pc["apply"] = "check" => bytes > 0
  /\ pc["main"] \in {"zero", "hook", "close", "complete", "leave", "exited"}
                      \cup SaveSteps => buffer = <<>>
  /\ pc["apply"] \in {"zero", "hook"} \cup SaveSteps => buffer = <<>>

NotAhead ==
  /\ \A f \in Files : files[f].kept <= Len(out)
  /\ \A t \in Threads : pc[t] \in HoldsCheckpoint => Head(value[t]).kept <= Len(out)

\* Somewhere there is a checkpoint that says complete.
SaysComplete ==
  \/ \E f \in Files : files[f].complete
  \/ \E t \in Threads : pc[t] \in HoldsCheckpoint /\ Head(value[t]).complete

AllDone ==
  /\ out = Upto(Rows) /\ buffer = <<>> /\ bytes = 0
  /\ pc["apply"] = "done" /\ kept = Rows
  /\ \A t \in Threads : pc[t] \notin InFlush

\* The inductive invariant.
IInv ==
  /\ Control
  /\ "flush" \notin clashes => OneFlush /\ RowsInOrder
  /\ clashes \cap {"flush", "row"} = {} => RowsOrFlush /\ AllRowsThere /\ BytesCounted
  /\ "save" \notin clashes => OneSave /\ FilesInOrder
  /\ Ordered => AfterApply /\ AfterFlush /\ NotAhead
  /\ ~expired /\ SaysComplete => AllDone
--------------------------------------------------------------------------------
(***************************************************************************)
(* What a thread does next.                                                 *)
(***************************************************************************)
Tasks == {"flush", "save", "count", "close", "complete", "leave"}

LEMMA TupleTypes ==
  ASSUME NEW a \in Tasks, NEW b \in Tasks, NEW c \in Tasks, NEW d \in Tasks, NEW e \in Tasks
  PROVE  /\ <<a>> \in Seq(Tasks) /\ Len(<<a>>) = 1
         /\ <<a, b>> \in Seq(Tasks) /\ Len(<<a, b>>) = 2
         /\ <<a, b, c>> \in Seq(Tasks) /\ Len(<<a, b, c>>) = 3
         /\ <<a, b, c, d>> \in Seq(Tasks) /\ Len(<<a, b, c, d>>) = 4
         /\ <<a, b, c, d, e>> \in Seq(Tasks) /\ Len(<<a, b, c, d, e>>) = 5
<1>1. /\ <<a>> \in Seq(Tasks) /\ Len(<<a>>) = 1
      /\ <<a, b>> \in Seq(Tasks) /\ Len(<<a, b>>) = 2
  OBVIOUS
<1>2. <<a, b, c>> \in Seq(Tasks) /\ Len(<<a, b, c>>) = 3
  OBVIOUS
<1>3. <<a, b, c, d>> \in Seq(Tasks) /\ Len(<<a, b, c, d>>) = 4
  OBVIOUS
<1>4. <<a, b, c, d, e>> \in Seq(Tasks) /\ Len(<<a, b, c, d, e>>) = 5
  OBVIOUS
<1>5. QED  BY <1>1, <1>2, <1>3, <1>4

LEMMA ThreeElements ==
  ASSUME NEW a \in Tasks, NEW b \in Tasks, NEW c \in Tasks,
         NEW s \in Seq(Tasks), Len(s) = 3, s[1] = a, s[2] = b, s[3] = c
  PROVE  s = <<a, b, c>>
<1>1. <<a, b, c>> \in Seq(Tasks) /\ Len(<<a, b, c>>) = 3
  OBVIOUS
<1>2. \A i \in 1 .. 3 : s[i] = <<a, b, c>>[i]
  OBVIOUS
<1>3. QED  BY <1>1, <1>2, SeqEqual

LEMMA FourElements ==
  ASSUME NEW a \in Tasks, NEW b \in Tasks, NEW c \in Tasks, NEW d \in Tasks,
         NEW s \in Seq(Tasks), Len(s) = 4, s[1] = a, s[2] = b, s[3] = c, s[4] = d
  PROVE  s = <<a, b, c, d>>
<1>1. <<a, b, c, d>> \in Seq(Tasks) /\ Len(<<a, b, c, d>>) = 4
  OBVIOUS
<1>2. \A i \in 1 .. 4 : s[i] = <<a, b, c, d>>[i]
  OBVIOUS
<1>3. QED  BY <1>1, <1>2, SeqEqual

LEMMA FiveElements ==
  ASSUME NEW a \in Tasks, NEW b \in Tasks, NEW c \in Tasks, NEW d \in Tasks, NEW e \in Tasks,
         NEW s \in Seq(Tasks), Len(s) = 5,
         s[1] = a, s[2] = b, s[3] = c, s[4] = d, s[5] = e
  PROVE  s = <<a, b, c, d, e>>
<1>1. <<a, b, c, d, e>> \in Seq(Tasks) /\ Len(<<a, b, c, d, e>>) = 5
  OBVIOUS
<1>2. \A i \in 1 .. 5 : s[i] = <<a, b, c, d, e>>[i]
  OBVIOUS
<1>3. QED  BY <1>1, <1>2, SeqEqual

LEMMA Tails ==
  ASSUME NEW a \in Tasks, NEW b \in Tasks, NEW c \in Tasks, NEW d \in Tasks, NEW e \in Tasks
  PROVE  /\ Tail(<<a, b, c, d>>) = <<b, c, d>>
         /\ Tail(<<a, b, c, d, e>>) = <<b, c, d, e>>
<1>1. Tail(<<a, b, c, d>>) = <<b, c, d>>
  <2>1. <<a, b, c, d>> \in Seq(Tasks) /\ Len(<<a, b, c, d>>) = 4 /\ <<a, b, c, d>> # <<>>
    OBVIOUS
  <2>2. Tail(<<a, b, c, d>>) \in Seq(Tasks) /\ Len(Tail(<<a, b, c, d>>)) = 3
    BY <2>1, HeadTailProperties
  <2>3. /\ Tail(<<a, b, c, d>>)[1] = b /\ Tail(<<a, b, c, d>>)[2] = c
        /\ Tail(<<a, b, c, d>>)[3] = d
    BY <2>1, <2>2, HeadTailProperties
  <2>4. QED  BY <2>2, <2>3, ThreeElements
<1>2. Tail(<<a, b, c, d, e>>) = <<b, c, d, e>>
  <2>1. /\ <<a, b, c, d, e>> \in Seq(Tasks) /\ Len(<<a, b, c, d, e>>) = 5
        /\ <<a, b, c, d, e>> # <<>>
    OBVIOUS
  <2>2. Tail(<<a, b, c, d, e>>) \in Seq(Tasks) /\ Len(Tail(<<a, b, c, d, e>>)) = 4
    BY <2>1, HeadTailProperties
  <2>3. /\ Tail(<<a, b, c, d, e>>)[1] = b /\ Tail(<<a, b, c, d, e>>)[2] = c
        /\ Tail(<<a, b, c, d, e>>)[3] = d /\ Tail(<<a, b, c, d, e>>)[4] = e
    BY <2>1, <2>2, HeadTailProperties
  <2>4. QED  BY <2>2, <2>3, FourElements
<1>3. QED  BY <1>1, <1>2

LEMMA TwoAndOne ==
  ASSUME NEW a \in Tasks, NEW b \in Tasks, NEW c \in Tasks
  PROVE  <<a, b>> \o <<c>> = <<a, b, c>>
<1> DEFINE s == <<a, b>> \o <<c>>
<1>1. /\ <<a, b>> \in Seq(Tasks) /\ Len(<<a, b>>) = 2
      /\ <<c>> \in Seq(Tasks) /\ Len(<<c>>) = 1
  OBVIOUS
<1>2. s \in Seq(Tasks) /\ Len(s) = 3
  BY <1>1, ConcatProperties
<1>3. s[1] = a /\ s[2] = b /\ s[3] = c
  BY <1>1, ConcatProperties
<1> HIDE DEF s
<1>4. s = <<a, b, c>>
  BY <1>2, <1>3, ThreeElements
<1>5. QED  BY <1>4 DEF s

LEMMA TwoAndTwoAndOne ==
  ASSUME NEW a \in Tasks, NEW b \in Tasks, NEW c \in Tasks, NEW d \in Tasks,
         NEW e \in Tasks
  PROVE  <<a, b>> \o <<c, d>> \o <<e>> = <<a, b, c, d, e>>
<1>1. <<a, b>> \o <<c, d>> = <<a, b, c, d>>
  <2> DEFINE s == <<a, b>> \o <<c, d>>
  <2>1. /\ <<a, b>> \in Seq(Tasks) /\ Len(<<a, b>>) = 2
        /\ <<c, d>> \in Seq(Tasks) /\ Len(<<c, d>>) = 2
    OBVIOUS
  <2>2. s \in Seq(Tasks) /\ Len(s) = 4
    BY <2>1, ConcatProperties
  <2>3. s[1] = a /\ s[2] = b /\ s[3] = c /\ s[4] = d
    BY <2>1, ConcatProperties
  <2> HIDE DEF s
  <2>4. s = <<a, b, c, d>>
    BY <2>2, <2>3, FourElements
  <2>5. QED  BY <2>4 DEF s
<1>2. <<a, b, c, d>> \o <<e>> = <<a, b, c, d, e>>
  <2> DEFINE s == <<a, b, c, d>> \o <<e>>
  <2>1. /\ <<a, b, c, d>> \in Seq(Tasks) /\ Len(<<a, b, c, d>>) = 4
        /\ <<e>> \in Seq(Tasks) /\ Len(<<e>>) = 1
    OBVIOUS
  <2>2. s \in Seq(Tasks) /\ Len(s) = 5
    BY <2>1, ConcatProperties
  <2>3. s[1] = a /\ s[2] = b /\ s[3] = c /\ s[4] = d /\ s[5] = e
    BY <2>1, ConcatProperties
  <2> HIDE DEF s
  <2>4. s = <<a, b, c, d, e>>
    BY <2>2, <2>3, FiveElements
  <2>5. QED  BY <2>4 DEF s
<1>3. QED  BY <1>1, <1>2

LEMMA TailOfFour ==
  Tail(<<"save", "flush", "close", "leave">>) = <<"flush", "close", "leave">>
<1>1. /\ "flush" \in Tasks /\ "save" \in Tasks /\ "close" \in Tasks
      /\ "leave" \in Tasks
  BY DEF Tasks
<1>2. QED  BY <1>1, Tails

LEMMA TailOfFive ==
  Tail(<<"flush", "save", "flush", "close", "leave">>)
    = <<"save", "flush", "close", "leave">>
<1>1. /\ "flush" \in Tasks /\ "save" \in Tasks /\ "close" \in Tasks
      /\ "leave" \in Tasks
  BY DEF Tasks
<1>2. QED  BY <1>1, Tails

LEMMA TodoStep ==
  ASSUME NEW tasks \in MainTodos
  PROVE  /\ Steps[Head(tasks)] \in {"leave", "complete", "close", "check", "snapshot"}
         /\ Steps[Head(tasks)] \in {"close", "check", "snapshot"} =>
              Tail(tasks) \in MainTodos
<1>1. CASE tasks = <<"leave">>
  BY <1>1 DEF Steps
<1>2. CASE tasks = <<"complete">>
  BY <1>2 DEF Steps
<1>3. CASE tasks = <<"close", "leave">>
  <2>1. Head(tasks) = "close" /\ Tail(tasks) = <<"leave">>
    BY <1>3
  <2>2. QED  BY <2>1 DEF Steps, MainTodos
<1>4. CASE tasks = <<"close", "complete">>
  <2>1. Head(tasks) = "close" /\ Tail(tasks) = <<"complete">>
    BY <1>4
  <2>2. QED  BY <2>1 DEF Steps, MainTodos
<1>5. CASE tasks = <<"flush", "close", "leave">>
  <2>1. Head(tasks) = "flush" /\ Tail(tasks) = <<"close", "leave">>
    BY <1>5
  <2>2. QED  BY <2>1 DEF Steps, MainTodos
<1>6. CASE tasks = <<"save", "flush", "close", "leave">>
  <2>1. Head(tasks) = "save"
    BY <1>6
  <2>2. QED  BY <1>6, <2>1, TailOfFour DEF Steps, MainTodos
<1>7. QED  BY <1>1, <1>2, <1>3, <1>4, <1>5, <1>6 DEF MainTodos

LEMMA OtherTodos ==
  /\ Steps[Head(<<"count">>)] = "count"
  /\ Steps[Head(<<"flush", "count">>)] = "check"
  /\ Tail(<<"flush", "count">>) = <<"count">>
  /\ Steps[Head(<<"leave">>)] = "leave"
  /\ Steps[Head(<<"save", "leave">>)] = "snapshot"
  /\ Tail(<<"save", "leave">>) = <<"leave">>
<1>1. /\ Head(<<"count">>) = "count" /\ Head(<<"flush", "count">>) = "flush"
      /\ Head(<<"leave">>) = "leave" /\ Head(<<"save", "leave">>) = "save"
  OBVIOUS
<1>2. Tail(<<"flush", "count">>) = <<"count">>
  OBVIOUS
<1>3. Tail(<<"save", "leave">>) = <<"leave">>
  OBVIOUS
<1>4. QED  BY <1>1, <1>2, <1>3 DEF Steps

LEMMA MainTodosAreTasks == MainTodos \subseteq Seq(Tasks)
<1>1. {"flush", "save", "close", "leave", "complete"} \subseteq Tasks
  BY DEF Tasks
<1>2. QED  BY <1>1, TupleTypes DEF MainTodos

LEMMA SaveBefore ==
  ASSUME NEW tasks \in MainTodos \cup {<<"count">>, <<"leave">>, <<"save", "leave">>}
  PROVE  /\ Steps[Head(<<"save">> \o tasks)] = "snapshot"
         /\ Tail(<<"save">> \o tasks) = tasks
<1>1. <<"count">> \in Seq(Tasks) /\ <<"save", "leave">> \in Seq(Tasks)
  BY DEF Tasks
<1>2. tasks \in Seq(Tasks) /\ "save" \in Tasks
  BY <1>1, MainTodosAreTasks DEF Tasks, MainTodos
<1>3. Head(<<"save">> \o tasks) = "save" /\ Tail(<<"save">> \o tasks) = tasks
  BY <1>2
<1>4. QED  BY <1>3 DEF Steps

LEMMA EndOfMain ==
  /\ Pause \o CloseSink \o <<"leave">> = <<"flush", "save", "flush", "close", "leave">>
  /\ CloseSink \o <<"complete">> = <<"flush", "close", "complete">>
  /\ CloseSink \o <<"leave">> = <<"flush", "close", "leave">>
<1>1. /\ "flush" \in Tasks /\ "save" \in Tasks /\ "close" \in Tasks
      /\ "leave" \in Tasks /\ "complete" \in Tasks
  BY DEF Tasks
<1>2. <<"flush", "save">> \o <<"flush", "close">> \o <<"leave">>
        = <<"flush", "save", "flush", "close", "leave">>
  BY <1>1, TwoAndTwoAndOne
<1>3. <<"flush", "close">> \o <<"complete">> = <<"flush", "close", "complete">>
  BY <1>1, TwoAndOne
<1>4. <<"flush", "close">> \o <<"leave">> = <<"flush", "close", "leave">>
  BY <1>1, TwoAndOne
<1>5. QED  BY <1>2, <1>3, <1>4 DEF Pause, CloseSink

LEMMA AbortSteps ==
  /\ Steps[Head(MainAborts)] \in {"leave", "check"}
  /\ Steps[Head(MainAborts)] = "check" => Tail(MainAborts) \in MainTodos
<1>1. MainAborts \in {<<"leave">>, <<"flush", "close", "leave">>}
  BY EndOfMain DEF MainAborts
<1>2. <<"flush", "close", "leave">> \in MainTodos /\ <<"leave">> \in MainTodos
  BY DEF MainTodos
<1>3. Head(<<"flush", "close", "leave">>) = "flush" /\ Head(<<"leave">>) = "leave"
  OBVIOUS
<1>4. QED  BY <1>1, <1>2, <1>3, TodoStep DEF Steps

LEMMA EndSteps ==
  /\ Steps[Head(Pause \o CloseSink \o <<"leave">>)] = "check"
  /\ Tail(Pause \o CloseSink \o <<"leave">>) \in MainTodos
  /\ Steps[Head(CloseSink \o <<"complete">>)] = "check"
  /\ Tail(CloseSink \o <<"complete">>) \in MainTodos
<1>1. /\ Head(<<"flush", "save", "flush", "close", "leave">>) = "flush"
      /\ Head(<<"flush", "close", "complete">>) = "flush"
  OBVIOUS
<1>2. Tail(<<"flush", "close", "complete">>) = <<"close", "complete">>
  OBVIOUS
<1>3. Steps["flush"] = "check"
  BY DEF Steps
<1>4. /\ <<"close", "complete">> \in MainTodos
      /\ <<"save", "flush", "close", "leave">> \in MainTodos
  BY DEF MainTodos
<1>5. QED  BY <1>1, <1>2, <1>3, <1>4, TailOfFive, EndOfMain
--------------------------------------------------------------------------------
(***************************************************************************)
(* Every step leaves the threads where they can be.                         *)
(***************************************************************************)
LEMMA ThreadSet ==
  /\ Threads = {"apply", "main", "handler"}
  /\ "apply" \in Threads /\ "main" \in Threads /\ "handler" \in Threads
BY DEF Threads

LEMMA CountsTyped ==
  /\ Rows \in Nat /\ Rows > 0 /\ RowsPerLine \in Nat /\ RowsPerLine > 0
  /\ Limit \in Nat /\ Limit > 0 /\ MaxSaves \in Nat
  /\ 0 \in 0 .. Rows
BY CountsAssumption

LEMMA NoRows == <<>> \in Seq(Nat)
OBVIOUS

LEMMA CheckpointTyped ==
  ASSUME NEW n \in Nat, NEW c \in BOOLEAN
  PROVE  /\ Checkpoint(n, c) \in FileContents
         /\ Checkpoint(n, c).state = "whole"
         /\ Checkpoint(n, c).kept = n
         /\ Checkpoint(n, c).complete = c
         /\ Head(<<Checkpoint(n, c)>>) = Checkpoint(n, c)
BY DEF Checkpoint, FileContents

LEMMA EmptyTyped == Empty \in FileContents /\ Garbage \in FileContents
BY DEF Empty, Garbage, FileContents

LEMMA InitControl == Init => Control
<1> SUFFICES ASSUME Init PROVE Control
  OBVIOUS
<1>1. /\ DOMAIN pc = Threads /\ DOMAIN todo = Threads /\ DOMAIN value = Threads
      /\ local = [t \in Threads |-> None] /\ files = [i \in Files |-> Empty]
      /\ pc["apply"] = "row" /\ pc["main"] = "loop" /\ pc["handler"] = "none"
  BY ThreadSet DEF Init
<1>2. /\ buffer = <<>> /\ bytes = 0 /\ closed = FALSE /\ out = <<>>
      /\ kept = 0 /\ row = 1 /\ stop = FALSE /\ expired = FALSE
      /\ path = None /\ tmp = None
  BY DEF Init
<1>3. Typed
  <2>1. /\ buffer \in Seq(Nat) /\ out \in Seq(Nat) /\ bytes \in Nat
        /\ kept \in 0 .. Rows /\ row = kept + 1
    BY <1>2, CountsTyped, NoRows
  <2>2. /\ files \in [Files -> FileContents]
        /\ local \in [Threads -> Files \cup {None, Current}]
    BY <1>1, EmptyTyped
  <2>3. QED  BY <1>1, <1>2, <2>1, <2>2 DEF Typed
<1>4. ApplyControl /\ MainControl /\ HandlerControl
  BY <1>1, <1>2 DEF ApplyControl, MainControl, HandlerControl, FlushSteps, SaveSteps
<1>5. ValuesTyped /\ LocalsTyped
  BY <1>1, ThreadSet DEF ValuesTyped, LocalsTyped, HoldsCheckpoint
<1>6. QED  BY <1>3, <1>4, <1>5 DEF Control

LEMMA TakeRowControl ==
  ASSUME Control, TakeRow
  PROVE  Control'
<1> USE ThreadSet DEF Control, TakeRow, Goto, At, MayStep, sinkVars, mergeVars,
                      diskVars, threadVars, histVars
<1>1. Typed'
  BY CountsAssumption DEF Typed, Files, None, FileContents, ApplyControl
<1>2. ApplyControl' /\ MainControl' /\ HandlerControl'
  BY CountsAssumption
  DEF Typed, ApplyControl, MainControl, HandlerControl, FlushSteps, SaveSteps
<1>3. ValuesTyped'
  BY CountsAssumption
  DEF Typed, ValuesTyped, HoldsCheckpoint, ApplyControl, MainControl, HandlerControl,
      FlushSteps, SaveSteps
<1>4. LocalsTyped'
  BY CountsAssumption
  DEF Typed, LocalsTyped, Files, None, Current, ApplyControl, MainControl, HandlerControl,
      FlushSteps, SaveSteps
<1>5. QED  BY <1>1, <1>2, <1>3, <1>4

LEMMA ApplyEndsControl ==
  ASSUME Control, ApplyEnds
  PROVE  Control'
<1> USE ThreadSet DEF Control, ApplyEnds, Goto, At, MayStep, sinkVars, mergeVars,
                      diskVars, threadVars, histVars
<1>1. Typed'
  BY CountsAssumption DEF Typed, Files, None, FileContents, ApplyControl
<1>2. ApplyControl' /\ MainControl' /\ HandlerControl'
  BY CountsAssumption
  DEF Typed, ApplyControl, MainControl, HandlerControl, FlushSteps, SaveSteps
<1>3. ValuesTyped'
  BY CountsAssumption
  DEF Typed, ValuesTyped, HoldsCheckpoint, ApplyControl, MainControl, HandlerControl,
      FlushSteps, SaveSteps
<1>4. LocalsTyped'
  BY CountsAssumption
  DEF Typed, LocalsTyped, Files, None, Current, ApplyControl, MainControl, HandlerControl,
      FlushSteps, SaveSteps
<1>5. QED  BY <1>1, <1>2, <1>3, <1>4

LEMMA LoadBufferControl ==
  ASSUME Control, LoadBuffer
  PROVE  Control'
<1> USE ThreadSet DEF Control, LoadBuffer, Goto, Current, Note, At, MayStep, sinkVars,
                      mergeVars, diskVars, threadVars, histVars
<1>1. Typed'
  BY CountsAssumption DEF Typed, Files, None, FileContents, ApplyControl
<1>2. ApplyControl' /\ MainControl' /\ HandlerControl'
  BY CountsAssumption
  DEF Typed, ApplyControl, MainControl, HandlerControl, FlushSteps, SaveSteps
<1>3. ValuesTyped'
  BY CountsAssumption
  DEF Typed, ValuesTyped, HoldsCheckpoint, ApplyControl, MainControl, HandlerControl,
      FlushSteps, SaveSteps
<1>4. LocalsTyped'
  BY CountsAssumption
  DEF Typed, LocalsTyped, Files, None, Current, ApplyControl, MainControl, HandlerControl,
      FlushSteps, SaveSteps
<1>5. QED  BY <1>1, <1>2, <1>3, <1>4

LEMMA PutControl ==
  ASSUME Control, Put
  PROVE  Control'
<1> USE ThreadSet DEF Control, Put, Goto, At, MayStep, sinkVars, mergeVars,
                      diskVars, threadVars, histVars
<1>1. Typed'
  <2>1. buffer' \in Seq(Nat)
    BY CountsTyped DEF Typed
  <2>2. QED  BY <2>1 DEF Typed
<1>2. ApplyControl' /\ MainControl' /\ HandlerControl'
  BY CountsAssumption
  DEF Typed, ApplyControl, MainControl, HandlerControl, FlushSteps, SaveSteps
<1>3. ValuesTyped'
  BY CountsAssumption
  DEF Typed, ValuesTyped, HoldsCheckpoint, ApplyControl, MainControl, HandlerControl,
      FlushSteps, SaveSteps
<1>4. LocalsTyped'
  BY CountsAssumption
  DEF Typed, LocalsTyped, Files, None, Current, ApplyControl, MainControl, HandlerControl,
      FlushSteps, SaveSteps
<1>5. QED  BY <1>1, <1>2, <1>3, <1>4

LEMMA LoadBytesControl ==
  ASSUME Control, LoadBytes
  PROVE  Control'
<1> USE ThreadSet DEF Control, LoadBytes, Goto, At, MayStep, sinkVars, mergeVars,
                      diskVars, threadVars, histVars
<1>1. Typed'
  BY CountsAssumption DEF Typed, Files, None, FileContents, ApplyControl
<1>2. ApplyControl' /\ MainControl' /\ HandlerControl'
  BY CountsAssumption
  DEF Typed, ApplyControl, MainControl, HandlerControl, FlushSteps, SaveSteps
<1>3. ValuesTyped'
  BY CountsAssumption
  DEF Typed, ValuesTyped, HoldsCheckpoint, ApplyControl, MainControl, HandlerControl,
      FlushSteps, SaveSteps
<1>4. LocalsTyped'
  BY CountsAssumption
  DEF Typed, LocalsTyped, Files, None, Current, ApplyControl, MainControl, HandlerControl,
      FlushSteps, SaveSteps
<1>5. QED  BY <1>1, <1>2, <1>3, <1>4

LEMMA StoreBytesControl ==
  ASSUME Control, StoreBytes
  PROVE  Control'
<1> USE ThreadSet DEF Control, StoreBytes, Continue, At, MayStep, sinkVars, mergeVars,
                      diskVars, threadVars, histVars
<1>1. Typed'
  <2>1. bytes' \in Nat
    BY DEF ValuesTyped
  <2>2. QED  BY <2>1, OtherTodos DEF Typed
<1>2. ApplyControl' /\ MainControl' /\ HandlerControl'
  BY CountsAssumption, OtherTodos
  DEF Typed, ApplyControl, MainControl, HandlerControl, FlushSteps, SaveSteps
<1>3. ValuesTyped'
  BY CountsAssumption, OtherTodos
  DEF Typed, ValuesTyped, HoldsCheckpoint, ApplyControl, MainControl, HandlerControl,
      FlushSteps, SaveSteps
<1>4. LocalsTyped'
  BY CountsAssumption, OtherTodos
  DEF Typed, LocalsTyped, Files, None, Current, ApplyControl, MainControl, HandlerControl,
      FlushSteps, SaveSteps
<1>5. QED  BY <1>1, <1>2, <1>3, <1>4

LEMMA CountRowControl ==
  ASSUME Control, CountRow
  PROVE  Control'
<1> USE ThreadSet DEF Control, CountRow, Goto, At, MayStep, sinkVars, mergeVars,
                      diskVars, threadVars, histVars
<1>1. Typed'
  BY CountsAssumption DEF Typed, Files, None, FileContents, ApplyControl
<1>2. ApplyControl' /\ MainControl' /\ HandlerControl'
  BY CountsAssumption
  DEF Typed, ApplyControl, MainControl, HandlerControl, FlushSteps, SaveSteps
<1>3. ValuesTyped'
  BY CountsAssumption
  DEF Typed, ValuesTyped, HoldsCheckpoint, ApplyControl, MainControl, HandlerControl,
      FlushSteps, SaveSteps
<1>4. LocalsTyped'
  BY CountsAssumption
  DEF Typed, LocalsTyped, Files, None, Current, ApplyControl, MainControl, HandlerControl,
      FlushSteps, SaveSteps
<1>5. QED  BY <1>1, <1>2, <1>3, <1>4

LEMMA WriteToClosedControl ==
  ASSUME Control, WriteToClosed
  PROVE  Control'
<1> USE ThreadSet DEF Control, WriteToClosed, Goto, At, MayStep, sinkVars, mergeVars,
                      diskVars, threadVars, histVars
<1>1. Typed'
  BY CountsAssumption DEF Typed, Files, None, FileContents, ApplyControl
<1>2. ApplyControl' /\ MainControl' /\ HandlerControl'
  BY CountsAssumption
  DEF Typed, ApplyControl, MainControl, HandlerControl, FlushSteps, SaveSteps
<1>3. ValuesTyped'
  BY CountsAssumption
  DEF Typed, ValuesTyped, HoldsCheckpoint, ApplyControl, MainControl, HandlerControl,
      FlushSteps, SaveSteps
<1>4. LocalsTyped'
  BY CountsAssumption
  DEF Typed, LocalsTyped, Files, None, Current, ApplyControl, MainControl, HandlerControl,
      FlushSteps, SaveSteps
<1>5. QED  BY <1>1, <1>2, <1>3, <1>4

LEMMA CheckBytesControl ==
  ASSUME Control, NEW t \in Threads, CheckBytes(t)
  PROVE  Control'
<1> USE ThreadSet DEF Control, CheckBytes, Goto, At, MayStep, sinkVars, mergeVars,
                      diskVars, threadVars, histVars
<1>1. Typed'
  BY CountsAssumption DEF Typed, Files, None, FileContents, ApplyControl
<1>2. ApplyControl' /\ MainControl' /\ HandlerControl'
  BY CountsAssumption
  DEF Typed, ApplyControl, MainControl, HandlerControl, FlushSteps, SaveSteps
<1>3. ValuesTyped'
  BY CountsAssumption
  DEF Typed, ValuesTyped, HoldsCheckpoint, ApplyControl, MainControl, HandlerControl,
      FlushSteps, SaveSteps
<1>4. LocalsTyped'
  BY CountsAssumption
  DEF Typed, LocalsTyped, Files, None, Current, ApplyControl, MainControl, HandlerControl,
      FlushSteps, SaveSteps
<1>5. QED  BY <1>1, <1>2, <1>3, <1>4

LEMMA GetValueControl ==
  ASSUME Control, NEW t \in Threads, GetValue(t)
  PROVE  Control'
<1> USE ThreadSet DEF Control, GetValue, Goto, At, MayStep, sinkVars, mergeVars,
                      diskVars, threadVars, histVars
<1>1. Typed'
  BY CountsAssumption DEF Typed, Files, None, FileContents, ApplyControl
<1>2. ApplyControl' /\ MainControl' /\ HandlerControl'
  BY CountsAssumption
  DEF Typed, ApplyControl, MainControl, HandlerControl, FlushSteps, SaveSteps
<1>3. ValuesTyped'
  BY CountsAssumption
  DEF Typed, ValuesTyped, HoldsCheckpoint, ApplyControl, MainControl, HandlerControl,
      FlushSteps, SaveSteps
<1>4. LocalsTyped'
  BY CountsAssumption
  DEF Typed, LocalsTyped, Files, None, Current, ApplyControl, MainControl, HandlerControl,
      FlushSteps, SaveSteps
<1>5. QED  BY <1>1, <1>2, <1>3, <1>4

LEMMA WriteControl ==
  ASSUME Control, NEW t \in Threads, Write(t)
  PROVE  Control'
<1> USE ThreadSet DEF Control, Write, Goto, At, MayStep, sinkVars, mergeVars,
                      diskVars, threadVars, histVars
<1>1. Typed'
  <2>1. value[t] \in Seq(Nat)
    BY DEF ValuesTyped
  <2>2. out' \in Seq(Nat)
    BY <2>1, ConcatProperties DEF Typed
  <2>3. QED  BY <2>2 DEF Typed
<1>2. ApplyControl' /\ MainControl' /\ HandlerControl'
  BY CountsAssumption
  DEF Typed, ApplyControl, MainControl, HandlerControl, FlushSteps, SaveSteps
<1>3. ValuesTyped'
  BY CountsAssumption
  DEF Typed, ValuesTyped, HoldsCheckpoint, ApplyControl, MainControl, HandlerControl,
      FlushSteps, SaveSteps
<1>4. LocalsTyped'
  BY CountsAssumption
  DEF Typed, LocalsTyped, Files, None, Current, ApplyControl, MainControl, HandlerControl,
      FlushSteps, SaveSteps
<1>5. QED  BY <1>1, <1>2, <1>3, <1>4

LEMMA ResetControl ==
  ASSUME Control, NEW t \in Threads, Reset(t)
  PROVE  Control'
<1> USE ThreadSet DEF Control, Reset, Goto, At, MayStep, sinkVars, mergeVars,
                      diskVars, threadVars, histVars
<1>1. Typed'
  BY CountsAssumption DEF Typed, Files, None, FileContents, ApplyControl
<1>2. ApplyControl' /\ MainControl' /\ HandlerControl'
  BY CountsAssumption
  DEF Typed, ApplyControl, MainControl, HandlerControl, FlushSteps, SaveSteps
<1>3. ValuesTyped'
  BY CountsAssumption
  DEF Typed, ValuesTyped, HoldsCheckpoint, ApplyControl, MainControl, HandlerControl,
      FlushSteps, SaveSteps
<1>4. LocalsTyped'
  BY CountsAssumption
  DEF Typed, LocalsTyped, Files, None, Current, ApplyControl, MainControl, HandlerControl,
      FlushSteps, SaveSteps
<1>5. QED  BY <1>1, <1>2, <1>3, <1>4

LEMMA ZeroControl ==
  ASSUME Control, NEW t \in Threads, Zero(t)
  PROVE  Control'
<1> USE ThreadSet DEF Control, Zero, Goto, At, MayStep, sinkVars, mergeVars,
                      diskVars, threadVars, histVars
<1>1. Typed'
  BY CountsAssumption DEF Typed, Files, None, FileContents, ApplyControl
<1>2. ApplyControl' /\ MainControl' /\ HandlerControl'
  BY CountsAssumption
  DEF Typed, ApplyControl, MainControl, HandlerControl, FlushSteps, SaveSteps
<1>3. ValuesTyped'
  BY CountsAssumption
  DEF Typed, ValuesTyped, HoldsCheckpoint, ApplyControl, MainControl, HandlerControl,
      FlushSteps, SaveSteps
<1>4. LocalsTyped'
  BY CountsAssumption
  DEF Typed, LocalsTyped, Files, None, Current, ApplyControl, MainControl, HandlerControl,
      FlushSteps, SaveSteps
<1>5. QED  BY <1>1, <1>2, <1>3, <1>4

\* A thread that goes on with what it has to do is where it can be.
LEMMA Continues ==
  ASSUME Control, NEW t \in Threads, pc[t] \in FlushSteps \cup SaveSteps,
         Continue(t, todo[t]) \/ Continue(t, <<"save">> \o todo[t]),
         UNCHANGED <<kept, row, stop, closed, expired>>
  PROVE  /\ DOMAIN pc' = Threads /\ DOMAIN todo' = Threads
         /\ \A u \in Threads \ {t} : pc'[u] = pc[u] /\ todo'[u] = todo[u]
         /\ pc'[t] \in {"count", "leave", "complete", "close", "check", "snapshot"}
         /\ ApplyControl' /\ MainControl' /\ HandlerControl'
<1> USE ThreadSet DEF Control
<1>1. todo[t] \in MainTodos \cup {<<"count">>, <<"leave">>, <<"save", "leave">>}
  BY DEF ApplyControl, MainControl, HandlerControl, Threads
<1>2. \/ /\ pc' = [pc EXCEPT ![t] = Steps[Head(todo[t])]]
         /\ todo' = [todo EXCEPT ![t] = Tail(todo[t])]
      \/ /\ pc' = [pc EXCEPT ![t] = "snapshot"]
         /\ todo' = [todo EXCEPT ![t] = todo[t]]
  BY <1>1, SaveBefore DEF Continue
<1>3. /\ DOMAIN pc' = Threads /\ DOMAIN todo' = Threads
      /\ \A u \in Threads \ {t} : pc'[u] = pc[u] /\ todo'[u] = todo[u]
  BY <1>2 DEF Typed
<1>4. CASE t = "apply"
  <2>1. todo[t] = <<"count">>
    BY <1>4 DEF ApplyControl
  <2>2. /\ pc'["apply"] \in {"count", "snapshot"}
        /\ pc'["apply"] = "snapshot" => todo'["apply"] = <<"count">>
    BY <1>2, <1>4, <2>1, OtherTodos DEF Typed
  <2>3. ApplyControl'
    BY <1>4, <2>2 DEF ApplyControl, FlushSteps, SaveSteps
  <2>4. MainControl' /\ HandlerControl'
    BY <1>3, <1>4 DEF MainControl, HandlerControl
  <2>5. QED  BY <1>3, <1>4, <2>2, <2>3, <2>4
<1>5. CASE t = "main"
  <2>1. todo[t] \in MainTodos
    BY <1>5 DEF MainControl
  <2>2. /\ pc'["main"] \in {"leave", "complete", "close", "check", "snapshot"}
        /\ pc'["main"] \in {"close", "check", "snapshot"} => todo'["main"] \in MainTodos
    BY <1>2, <1>5, <2>1, TodoStep DEF Typed
  <2>3. MainControl'
    BY <2>2 DEF MainControl, FlushSteps, SaveSteps
  <2>4. ApplyControl' /\ HandlerControl'
    BY <1>3, <1>5 DEF ApplyControl, HandlerControl
  <2>5. QED  BY <1>3, <1>5, <2>2, <2>3, <2>4
<1>6. CASE t = "handler"
  <2>1. todo[t] \in {<<"leave">>, <<"save", "leave">>} /\ stop
    BY <1>6 DEF HandlerControl, FlushSteps, SaveSteps
  <2>2. /\ pc'["handler"] \in {"leave", "snapshot"}
        /\ pc'["handler"] = "snapshot" => todo'["handler"] \in {<<"leave">>, <<"save", "leave">>}
    <3>1. \/ Steps[Head(todo["handler"])] = "leave"
          \/ /\ Steps[Head(todo["handler"])] = "snapshot"
             /\ Tail(todo["handler"]) = <<"leave">>
      BY <1>6, <2>1, OtherTodos
    <3>2. QED  BY <1>2, <1>6, <2>1, <3>1 DEF Typed
  <2>3. HandlerControl'
    BY <2>1, <2>2 DEF HandlerControl, FlushSteps, SaveSteps
  <2>4. ApplyControl' /\ MainControl'
    BY <1>3, <1>6 DEF ApplyControl, MainControl
  <2>5. QED  BY <1>3, <1>6, <2>2, <2>3, <2>4
<1>7. QED  BY <1>4, <1>5, <1>6 DEF Threads

LEMMA HookControl ==
  ASSUME Control, NEW t \in Threads, Hook(t)
  PROVE  Control'
<1> USE DEF Control
<1>1. /\ pc[t] \in FlushSteps
      /\ UNCHANGED <<buffer, bytes, closed, out, kept, row, stop, path, tmp, files, local,
                     value, expired>>
  BY DEF Hook, At, FlushSteps, sinkVars, mergeVars, histVars
<1>2. /\ DOMAIN pc' = Threads /\ DOMAIN todo' = Threads
      /\ \A u \in Threads \ {t} : pc'[u] = pc[u] /\ todo'[u] = todo[u]
      /\ pc'[t] \in {"count", "leave", "complete", "close", "check", "snapshot"}
      /\ ApplyControl' /\ MainControl' /\ HandlerControl'
  BY <1>1, Continues DEF Hook
<1>3. Typed'
  BY <1>1, <1>2 DEF Typed
<1>4. ValuesTyped'
  BY <1>1, <1>2, ThreadSet DEF ValuesTyped, HoldsCheckpoint
<1>5. LocalsTyped'
  <2>1. pc[t] \notin {"put", "fill", "replace"}
    BY <1>1 DEF FlushSteps
  <2>2. QED  BY <1>1, <1>2, <2>1 DEF LocalsTyped
<1>6. QED  BY <1>2, <1>3, <1>4, <1>5

LEMMA SnapshotControl ==
  ASSUME Control, NEW t \in Threads, Snapshot(t)
  PROVE  Control'
<1> USE ThreadSet DEF Control, Snapshot, Goto, At, MayStep, sinkVars, mergeVars,
                      diskVars, threadVars, histVars
<1>1. Typed'
  BY CountsAssumption DEF Typed, Files, None, FileContents, ApplyControl
<1>2. ApplyControl' /\ MainControl' /\ HandlerControl'
  BY CountsAssumption
  DEF Typed, ApplyControl, MainControl, HandlerControl, FlushSteps, SaveSteps
<1>3. ValuesTyped'
  <2> kept \in Nat
    BY CountsAssumption DEF Typed
  <2>1. Checkpoint(kept, FALSE) \in FileContents /\ Checkpoint(kept, FALSE).state = "whole"
    BY CheckpointTyped
  <2>2. QED
    BY <2>1 DEF Typed, ValuesTyped, HoldsCheckpoint, ApplyControl, MainControl,
                HandlerControl, FlushSteps, SaveSteps
<1>4. LocalsTyped'
  BY CountsAssumption
  DEF Typed, LocalsTyped, Files, None, Current, ApplyControl, MainControl, HandlerControl,
      FlushSteps, SaveSteps
<1>5. QED  BY <1>1, <1>2, <1>3, <1>4

LEMMA BeginBackupControl ==
  ASSUME Control, NEW t \in Threads, BeginBackup(t)
  PROVE  Control'
<1> USE ThreadSet DEF Control, BeginBackup, Goto, Note, At, MayStep, sinkVars, mergeVars,
                      diskVars, threadVars, histVars
<1>1. Typed'
  BY CountsAssumption DEF Typed, Files, None, FileContents, ApplyControl
<1>2. ApplyControl' /\ MainControl' /\ HandlerControl'
  BY CountsAssumption
  DEF Typed, ApplyControl, MainControl, HandlerControl, FlushSteps, SaveSteps
<1>3. ValuesTyped'
  BY CountsAssumption
  DEF Typed, ValuesTyped, HoldsCheckpoint, ApplyControl, MainControl, HandlerControl,
      FlushSteps, SaveSteps
<1>4. LocalsTyped'
  BY CountsAssumption
  DEF Typed, LocalsTyped, Files, None, Current, ApplyControl, MainControl, HandlerControl,
      FlushSteps, SaveSteps
<1>5. QED  BY <1>1, <1>2, <1>3, <1>4

LEMMA CopyBackupControl ==
  ASSUME Control, NEW t \in Threads, CopyBackup(t)
  PROVE  Control'
<1> USE ThreadSet DEF Control, CopyBackup, Goto, At, MayStep, sinkVars, mergeVars,
                      diskVars, threadVars, histVars
<1>1. Typed'
  BY CountsAssumption DEF Typed, Files, None, FileContents, ApplyControl
<1>2. ApplyControl' /\ MainControl' /\ HandlerControl'
  BY CountsAssumption
  DEF Typed, ApplyControl, MainControl, HandlerControl, FlushSteps, SaveSteps
<1>3. ValuesTyped'
  BY CountsAssumption
  DEF Typed, ValuesTyped, HoldsCheckpoint, ApplyControl, MainControl, HandlerControl,
      FlushSteps, SaveSteps
<1>4. LocalsTyped'
  BY CountsAssumption
  DEF Typed, LocalsTyped, Files, None, Current, ApplyControl, MainControl, HandlerControl,
      FlushSteps, SaveSteps
<1>5. QED  BY <1>1, <1>2, <1>3, <1>4

\* There is always a file for the temporary name.
LEMMA FreeFile ==
  ASSUME Control, NEW t \in Threads, pc[t] = "open", tmp = None
  PROVE  (CHOOSE f \in Free : TRUE) \in Files \ {path}
<1>1. local[t] = None
  BY DEF Control, LocalsTyped
<1>2. \E u, v \in Threads : \A w \in Threads : w \in {t, u, v}
  BY DEF Threads
<1>3. PICK u \in Threads, v \in Threads : Threads \subseteq {t, u, v}
  BY <1>2
<1>4. Free = Files \ ({path, None} \cup {local[w] : w \in {x \in Threads : pc[x] \in InSave}})
  BY DEF Free
<1>5. {local[w] : w \in {x \in Threads : pc[x] \in InSave}} \subseteq {None, local[u], local[v]}
  BY <1>1, <1>3
<1>6. \E f \in 1 .. 4 : f # path /\ f # local[u] /\ f # local[v]
  <2>1. \/ 1 \notin {path, local[u], local[v]} \/ 2 \notin {path, local[u], local[v]}
        \/ 3 \notin {path, local[u], local[v]} \/ 4 \notin {path, local[u], local[v]}
    OBVIOUS
  <2>2. QED  BY <2>1
<1>7. PICK f \in 1 .. 4 : f # path /\ f # local[u] /\ f # local[v]
  BY <1>6
<1>8. f \in Free
  BY <1>4, <1>5, <1>7 DEF Files, None
<1>9. (CHOOSE g \in Free : TRUE) \in Free
  BY <1>8
<1>10. QED  BY <1>9 DEF Free

LEMMA OpenTempControl ==
  ASSUME Control, NEW t \in Threads, OpenTemp(t)
  PROVE  Control'
<1> USE ThreadSet DEF Control, At, MayStep, Goto, sinkVars, mergeVars, diskVars,
                      threadVars, histVars
<1>1. PICK f \in Files :
         /\ tmp' = f /\ files' = [files EXCEPT ![f] = Empty]
         /\ local' = [local EXCEPT ![t] = f]
  BY FreeFile DEF OpenTemp, Typed
<1>2. At(t, "open") /\ Goto(t, "fill")
  BY DEF OpenTemp
<1>3. UNCHANGED <<sinkVars, mergeVars, path, bak, saves, value, histVars>>
  BY DEF OpenTemp
<1>4. Typed'
  <2>1. Empty \in FileContents
    BY DEF Empty, FileContents
  <2>2. QED  BY <1>1, <1>2, <1>3, <2>1 DEF Typed
<1>5. ApplyControl' /\ MainControl' /\ HandlerControl'
  BY <1>1, <1>2, <1>3
  DEF Typed, ApplyControl, MainControl, HandlerControl, FlushSteps, SaveSteps
<1>6. ValuesTyped'
  BY <1>1, <1>2, <1>3 DEF Typed, ValuesTyped, HoldsCheckpoint
<1>7. LocalsTyped'
  BY <1>1, <1>2, <1>3 DEF Typed, LocalsTyped
<1>8. QED  BY <1>4, <1>5, <1>6, <1>7

LEMMA FillTempControl ==
  ASSUME Control, NEW t \in Threads, FillTemp(t)
  PROVE  Control'
<1> USE ThreadSet DEF Control, FillTemp, Goto, Empty, Garbage, At, MayStep, sinkVars, mergeVars,
                      diskVars, threadVars, histVars
<1>1. Typed'
  <2>1. PICK c \in FileContents : value[t] = <<c>>
    BY DEF ValuesTyped, HoldsCheckpoint
  <2>2. Garbage \in FileContents
    BY DEF FileContents
  <2>3. local[t] \in Files
    BY DEF LocalsTyped
  <2>4. Head(value[t]) = c
    BY <2>1
  <2>5. \E content \in FileContents : files' = [files EXCEPT ![local[t]] = content]
    BY <2>2, <2>4
  <2>6. files' \in [Files -> FileContents]
    BY <2>5 DEF Typed
  <2>7. QED  BY <2>6 DEF Typed
<1>2. ApplyControl' /\ MainControl' /\ HandlerControl'
  BY CountsAssumption
  DEF Typed, ApplyControl, MainControl, HandlerControl, FlushSteps, SaveSteps
<1>3. ValuesTyped'
  BY CountsAssumption
  DEF Typed, ValuesTyped, HoldsCheckpoint, ApplyControl, MainControl, HandlerControl,
      FlushSteps, SaveSteps
<1>4. LocalsTyped'
  BY CountsAssumption
  DEF Typed, LocalsTyped, Files, None, Current, ApplyControl, MainControl, HandlerControl,
      FlushSteps, SaveSteps
<1>5. QED  BY <1>1, <1>2, <1>3, <1>4

LEMMA ReplacePathControl ==
  ASSUME Control, NEW t \in Threads, ReplacePath(t)
  PROVE  Control'
<1> USE DEF Control
<1>1. /\ pc[t] \in SaveSteps /\ path' = tmp /\ tmp' = None
      /\ local' = [local EXCEPT ![t] = None]
      /\ files' = [f \in Files |-> IF f = path /\ f \notin Range(local') THEN Empty
                                   ELSE files[f]]
      /\ UNCHANGED <<buffer, bytes, closed, out, kept, row, stop, value, expired>>
  BY DEF ReplacePath, At, SaveSteps, sinkVars, mergeVars, histVars
<1>2. /\ DOMAIN pc' = Threads /\ DOMAIN todo' = Threads
      /\ \A u \in Threads \ {t} : pc'[u] = pc[u] /\ todo'[u] = todo[u]
      /\ pc'[t] \in {"count", "leave", "complete", "close", "check", "snapshot"}
      /\ ApplyControl' /\ MainControl' /\ HandlerControl'
  BY <1>1, Continues DEF ReplacePath
<1>3. Typed'
  <2>1. files' \in [Files -> FileContents]
    BY <1>1, EmptyTyped DEF Typed
  <2>2. local' \in [Threads -> Files \cup {None, Current}]
    BY <1>1 DEF Typed
  <2>3. QED  BY <1>1, <1>2, <2>1, <2>2 DEF Typed
<1>4. ValuesTyped'
  BY <1>1, <1>2, ThreadSet DEF ValuesTyped, HoldsCheckpoint
<1>5. LocalsTyped'
  BY <1>1, <1>2 DEF Typed, LocalsTyped
<1>6. QED  BY <1>2, <1>3, <1>4, <1>5

LEMMA ReplaceFailsControl ==
  ASSUME Control, NEW t \in Threads, ReplaceFails(t)
  PROVE  Control'
<1> USE ThreadSet DEF Control, At, MayStep, sinkVars, mergeVars, diskVars,
                      threadVars, histVars
<1>1. /\ pc[t] = "replace"
      /\ local' = [local EXCEPT ![t] = None]
      /\ UNCHANGED <<sinkVars, mergeVars, diskVars, value, histVars>>
  BY DEF ReplaceFails
<1>2. CASE t = "apply"
  <2>1. pc' = [pc EXCEPT !["apply"] = "dead"] /\ todo' = todo
    BY <1>2 DEF ReplaceFails, Goto
  <2>2. Typed'
    BY <1>1, <2>1 DEF Typed, None
  <2>3. ApplyControl' /\ MainControl' /\ HandlerControl'
    BY <1>1, <1>2, <2>1
    DEF Typed, ApplyControl, MainControl, HandlerControl, FlushSteps, SaveSteps
  <2>4. ValuesTyped' /\ LocalsTyped'
    BY <1>1, <1>2, <2>1 DEF Typed, ValuesTyped, LocalsTyped, HoldsCheckpoint
  <2>5. QED  BY <2>2, <2>3, <2>4
<1>3. CASE t = "main"
  <2>1. Continue("main", MainAborts)
    BY <1>3 DEF ReplaceFails
  <2>2. /\ pc' = [pc EXCEPT !["main"] = Steps[Head(MainAborts)]]
        /\ todo' = [todo EXCEPT !["main"] = Tail(MainAborts)]
    BY <2>1 DEF Continue
  <2>3. /\ pc'["main"] \in {"leave", "check"}
        /\ pc'["main"] = "check" => todo'["main"] \in MainTodos
        /\ \A u \in Threads \ {"main"} : pc'[u] = pc[u] /\ todo'[u] = todo[u]
    BY <2>2, AbortSteps DEF Typed
  <2>4. Typed'
    BY <1>1, <2>2 DEF Typed, None
  <2>5. ApplyControl' /\ MainControl' /\ HandlerControl'
    BY <1>1, <1>3, <2>3
    DEF Typed, ApplyControl, MainControl, HandlerControl, FlushSteps, SaveSteps
  <2>6. ValuesTyped' /\ LocalsTyped'
    BY <1>1, <1>3, <2>3 DEF Typed, ValuesTyped, LocalsTyped, HoldsCheckpoint
  <2>7. QED  BY <2>4, <2>5, <2>6
<1>4. CASE t = "handler"
  <2>1. Continue(t, todo[t]) /\ pc[t] \in SaveSteps
    BY <1>1, <1>4 DEF ReplaceFails, SaveSteps
  <2>2. /\ DOMAIN pc' = Threads /\ DOMAIN todo' = Threads
        /\ \A u \in Threads \ {t} : pc'[u] = pc[u] /\ todo'[u] = todo[u]
        /\ pc'[t] \in {"count", "leave", "complete", "close", "check", "snapshot"}
        /\ ApplyControl' /\ MainControl' /\ HandlerControl'
    BY <1>1, <2>1, Continues
  <2>3. Typed'
    BY <1>1, <2>2 DEF Typed, None
  <2>4. ValuesTyped' /\ LocalsTyped'
    BY <1>1, <1>4, <2>2 DEF Typed, ValuesTyped, LocalsTyped, HoldsCheckpoint
  <2>5. QED  BY <2>2, <2>3, <2>4
<1>5. QED  BY <1>2, <1>3, <1>4 DEF Threads

LEMMA SignalControl ==
  ASSUME Control, Signal
  PROVE  Control'
<1> USE ThreadSet DEF Control, Signal, At, MayStep, sinkVars, mergeVars,
                      diskVars, threadVars, histVars
<1>1. Typed'
  BY CountsAssumption DEF Typed, Files, None, FileContents, ApplyControl
<1>2. ApplyControl' /\ MainControl' /\ HandlerControl'
  BY CountsAssumption
  DEF Typed, ApplyControl, MainControl, HandlerControl, FlushSteps, SaveSteps
<1>3. ValuesTyped'
  BY CountsAssumption
  DEF Typed, ValuesTyped, HoldsCheckpoint, ApplyControl, MainControl, HandlerControl,
      FlushSteps, SaveSteps
<1>4. LocalsTyped'
  BY CountsAssumption
  DEF Typed, LocalsTyped, Files, None, Current, ApplyControl, MainControl, HandlerControl,
      FlushSteps, SaveSteps
<1>5. QED  BY <1>1, <1>2, <1>3, <1>4

LEMMA SecondSignalControl ==
  ASSUME Control, SecondSignal
  PROVE  Control'
<1> USE ThreadSet DEF Control, SecondSignal, Steps, At, MayStep, sinkVars, mergeVars,
                      diskVars, threadVars, histVars
<1>1. Typed'
  BY CountsAssumption, OtherTodos DEF Typed, Files, None, FileContents, ApplyControl
<1>2. ApplyControl' /\ MainControl' /\ HandlerControl'
  BY CountsAssumption, OtherTodos
  DEF Typed, ApplyControl, MainControl, HandlerControl, FlushSteps, SaveSteps
<1>3. ValuesTyped'
  BY CountsAssumption, OtherTodos
  DEF Typed, ValuesTyped, HoldsCheckpoint, ApplyControl, MainControl, HandlerControl,
      FlushSteps, SaveSteps
<1>4. LocalsTyped'
  BY CountsAssumption, OtherTodos
  DEF Typed, LocalsTyped, Files, None, Current, ApplyControl, MainControl, HandlerControl,
      FlushSteps, SaveSteps
<1>5. QED  BY <1>1, <1>2, <1>3, <1>4

LEMMA RaiseSystemExitControl ==
  ASSUME Control, RaiseSystemExit
  PROVE  Control'
<1> USE ThreadSet DEF Control
<1>1. /\ pc["handler"] = "leave"
      /\ pc' = [pc EXCEPT !["handler"] = "over", !["main"] = Steps[Head(MainAborts)]]
      /\ todo' = [todo EXCEPT !["main"] = Tail(MainAborts)]
      /\ local' = [local EXCEPT !["main"] = None]
      /\ value' = [value EXCEPT !["main"] = <<>>]
      /\ UNCHANGED <<buffer, bytes, closed, out, kept, row, stop, path, tmp, files, expired>>
  BY DEF RaiseSystemExit, At, sinkVars, mergeVars, diskVars, histVars
<1>2. /\ pc'["handler"] = "over" /\ pc'["apply"] = pc["apply"]
      /\ pc'["main"] \in {"leave", "check"}
      /\ pc'["main"] = "check" => todo'["main"] \in MainTodos
      /\ todo'["apply"] = todo["apply"] /\ value'["apply"] = value["apply"]
      /\ local'["apply"] = local["apply"]
      /\ local'["handler"] = local["handler"] /\ local'["main"] = None
  BY <1>1, AbortSteps DEF Typed
<1>3. Typed'
  BY <1>1 DEF Typed
<1>4. ApplyControl' /\ MainControl' /\ HandlerControl'
  BY <1>1, <1>2
  DEF ApplyControl, MainControl, HandlerControl, FlushSteps, SaveSteps
<1>5. ValuesTyped' /\ LocalsTyped'
  BY <1>1, <1>2 DEF ValuesTyped, LocalsTyped, HoldsCheckpoint, Threads
<1>6. QED  BY <1>3, <1>4, <1>5

LEMMA LeaveLoopControl ==
  ASSUME Control, LeaveLoop
  PROVE  Control'
<1> USE ThreadSet DEF Control, LeaveLoop, Goto, At, MayStep, sinkVars, mergeVars,
                      diskVars, threadVars, histVars
<1>1. Typed'
  BY CountsAssumption DEF Typed, Files, None, FileContents, ApplyControl
<1>2. ApplyControl' /\ MainControl' /\ HandlerControl'
  BY CountsAssumption
  DEF Typed, ApplyControl, MainControl, HandlerControl, FlushSteps, SaveSteps
<1>3. ValuesTyped'
  BY CountsAssumption
  DEF Typed, ValuesTyped, HoldsCheckpoint, ApplyControl, MainControl, HandlerControl,
      FlushSteps, SaveSteps
<1>4. LocalsTyped'
  BY CountsAssumption
  DEF Typed, LocalsTyped, Files, None, Current, ApplyControl, MainControl, HandlerControl,
      FlushSteps, SaveSteps
<1>5. QED  BY <1>1, <1>2, <1>3, <1>4

LEMMA JoinControl ==
  ASSUME Control, Join
  PROVE  Control'
<1> USE ThreadSet DEF Control, Join, Continue, At, MayStep, sinkVars, mergeVars,
                      diskVars, threadVars, histVars
<1>1. Typed'
  BY CountsAssumption, EndSteps DEF Typed, Files, None, FileContents, ApplyControl
<1>2. ApplyControl' /\ MainControl' /\ HandlerControl'
  BY CountsAssumption, EndSteps
  DEF Typed, ApplyControl, MainControl, HandlerControl, FlushSteps, SaveSteps
<1>3. ValuesTyped'
  BY CountsAssumption, EndSteps
  DEF Typed, ValuesTyped, HoldsCheckpoint, ApplyControl, MainControl, HandlerControl,
      FlushSteps, SaveSteps
<1>4. LocalsTyped'
  BY CountsAssumption, EndSteps
  DEF Typed, LocalsTyped, Files, None, Current, ApplyControl, MainControl, HandlerControl,
      FlushSteps, SaveSteps
<1>5. QED  BY <1>1, <1>2, <1>3, <1>4

LEMMA CloseControl ==
  ASSUME Control, Close
  PROVE  Control'
<1> USE ThreadSet DEF Control, Close, Continue, At, MayStep, sinkVars, mergeVars,
                      diskVars, threadVars, histVars
<1>1. Typed'
  BY CountsAssumption, TodoStep DEF Typed, Files, None, FileContents, ApplyControl
<1>2. ApplyControl' /\ MainControl' /\ HandlerControl'
  BY CountsAssumption, TodoStep
  DEF Typed, ApplyControl, MainControl, HandlerControl, FlushSteps, SaveSteps
<1>3. ValuesTyped'
  BY CountsAssumption, TodoStep
  DEF Typed, ValuesTyped, HoldsCheckpoint, ApplyControl, MainControl, HandlerControl,
      FlushSteps, SaveSteps
<1>4. LocalsTyped'
  BY CountsAssumption, TodoStep
  DEF Typed, LocalsTyped, Files, None, Current, ApplyControl, MainControl, HandlerControl,
      FlushSteps, SaveSteps
<1>5. QED  BY <1>1, <1>2, <1>3, <1>4

LEMMA CompleteControl ==
  ASSUME Control, Complete
  PROVE  Control'
<1> USE ThreadSet DEF Control, At, MayStep, sinkVars, mergeVars, diskVars,
                      threadVars, histVars
<1>1. /\ pc["main"] = "complete"
      /\ UNCHANGED <<sinkVars, mergeVars, diskVars, local, histVars>>
  BY DEF Complete
<1>2. CASE /\ value' = [value EXCEPT !["main"] = <<Checkpoint(kept, TRUE)>>]
           /\ pc' = [pc EXCEPT !["main"] = "backup"]
           /\ todo' = [todo EXCEPT !["main"] = <<"leave">>]
  <2> kept \in Nat
    BY CountsAssumption DEF Typed
  <2>1. Checkpoint(kept, TRUE) \in FileContents /\ Checkpoint(kept, TRUE).state = "whole"
    BY CheckpointTyped
  <2>2. Typed'
    BY <1>1, <1>2 DEF Typed
  <2>3. <<"leave">> \in MainTodos
    BY DEF MainTodos
  <2>4. ApplyControl' /\ MainControl' /\ HandlerControl'
    BY <1>1, <1>2, <2>3
    DEF Typed, ApplyControl, MainControl, HandlerControl, FlushSteps, SaveSteps
  <2>5. ValuesTyped'
    BY <1>1, <1>2, <2>1 DEF Typed, ValuesTyped, HoldsCheckpoint
  <2>6. LocalsTyped'
    BY <1>1, <1>2 DEF Typed, LocalsTyped
  <2>7. QED  BY <2>2, <2>4, <2>5, <2>6
<1>3. CASE pc' = [pc EXCEPT !["main"] = "leave"] /\ UNCHANGED <<todo, value>>
  <2>1. Typed'
    BY <1>1, <1>3 DEF Typed
  <2>2. ApplyControl' /\ MainControl' /\ HandlerControl'
    BY <1>1, <1>3
    DEF Typed, ApplyControl, MainControl, HandlerControl, FlushSteps, SaveSteps
  <2>3. ValuesTyped' /\ LocalsTyped'
    BY <1>1, <1>3 DEF Typed, ValuesTyped, LocalsTyped, HoldsCheckpoint
  <2>4. QED  BY <2>1, <2>2, <2>3
<1>4. QED  BY <1>2, <1>3 DEF Complete, Goto

LEMMA ExitControl ==
  ASSUME Control, Exit
  PROVE  Control'
<1> USE ThreadSet DEF Control, Exit, Goto, At, MayStep, sinkVars, mergeVars,
                      diskVars, threadVars, histVars
<1>1. Typed'
  BY CountsAssumption DEF Typed, Files, None, FileContents, ApplyControl
<1>2. ApplyControl' /\ MainControl' /\ HandlerControl'
  BY CountsAssumption
  DEF Typed, ApplyControl, MainControl, HandlerControl, FlushSteps, SaveSteps
<1>3. ValuesTyped'
  BY CountsAssumption
  DEF Typed, ValuesTyped, HoldsCheckpoint, ApplyControl, MainControl, HandlerControl,
      FlushSteps, SaveSteps
<1>4. LocalsTyped'
  BY CountsAssumption
  DEF Typed, LocalsTyped, Files, None, Current, ApplyControl, MainControl, HandlerControl,
      FlushSteps, SaveSteps
<1>5. QED  BY <1>1, <1>2, <1>3, <1>4

LEMMA NextControl ==
  ASSUME Control, [Next]_vars
  PROVE  Control'
<1>1. CASE UNCHANGED vars
  BY <1>1 DEF vars, sinkVars, mergeVars, diskVars, threadVars, histVars, Control, Typed,
     ApplyControl, MainControl, HandlerControl, ValuesTyped, LocalsTyped
<1>2. ASSUME NEW t \in Threads,
             \/ CheckBytes(t) \/ GetValue(t) \/ Write(t) \/ Reset(t) \/ Zero(t) \/ Hook(t)
             \/ Snapshot(t) \/ BeginBackup(t) \/ CopyBackup(t)
             \/ OpenTemp(t) \/ FillTemp(t) \/ ReplacePath(t) \/ ReplaceFails(t)
      PROVE  Control'
  BY <1>2, CheckBytesControl, GetValueControl, WriteControl, ResetControl, ZeroControl,
     HookControl, SnapshotControl, BeginBackupControl, CopyBackupControl,
     OpenTempControl, FillTempControl, ReplacePathControl, ReplaceFailsControl
<1>3. CASE \/ TakeRow \/ ApplyEnds \/ LoadBuffer \/ Put \/ LoadBytes \/ StoreBytes
           \/ CountRow \/ WriteToClosed
  BY <1>3, TakeRowControl, ApplyEndsControl, LoadBufferControl, PutControl,
     LoadBytesControl, StoreBytesControl, CountRowControl, WriteToClosedControl
<1>4. CASE \/ Signal \/ SecondSignal \/ RaiseSystemExit
           \/ LeaveLoop \/ Join \/ Close \/ Complete \/ Exit
  BY <1>4, SignalControl, SecondSignalControl, RaiseSystemExitControl,
     LeaveLoopControl, JoinControl, CloseControl, CompleteControl, ExitControl
<1>5. QED  BY <1>1, <1>2, <1>3, <1>4 DEF Next
--------------------------------------------------------------------------------
(***************************************************************************)
(* The steps that move no row and are in no flush.                          *)
(***************************************************************************)
\* What a thread does after a flush, a save or close() is not in a flush.
LEMMA NextTask ==
  ASSUME Control, NEW t \in Threads, pc[t] \in FlushSteps \cup SaveSteps
  PROVE  /\ t = "apply" => Steps[Head(todo[t])] = "count"
         /\ t = "main" =>
              Steps[Head(todo[t])] \in {"leave", "complete", "close", "check", "snapshot"}
         /\ t = "handler" => Steps[Head(todo[t])] \in {"leave", "snapshot"}
         /\ Steps[Head(<<"save">> \o todo[t])] = "snapshot"
<1>1. CASE t = "apply"
  BY <1>1, OtherTodos, SaveBefore DEF Control, ApplyControl
<1>2. CASE t = "main"
  BY <1>2, TodoStep, SaveBefore DEF Control, MainControl
<1>3. CASE t = "handler"
  BY <1>3, OtherTodos, SaveBefore DEF Control, HandlerControl
<1>4. QED  BY <1>1, <1>2, <1>3 DEF Threads

Quiet ==
  /\ UNCHANGED <<buffer, bytes, out>> /\ Written' = Written
  /\ \A t \in Threads :
       /\ pc'[t] \in InFlush => pc'[t] = pc[t] /\ value'[t] = value[t]
       /\ pc[t] \in {"reset", "zero"} => pc'[t] = pc[t]
  /\ pc'["apply"] \in {"put", "add", "store"} \/ pc["apply"] \in {"put", "add", "store"} =>
       /\ pc'["apply"] = pc["apply"]
       /\ local'["apply"] = local["apply"] /\ value'["apply"] = value["apply"]
  /\ \/ pc'["handler"] \in {pc["handler"], "over", "check"}
     \/ pc["handler"] \notin {"none", "over", "check"}
  /\ clashes \subseteq clashes'

LEMMA QuietApply ==
  ASSUME Control, TakeRow \/ ApplyEnds \/ CountRow \/ WriteToClosed
  PROVE  Quiet
<1> USE ThreadSet DEF Control, Quiet, Written, InFlush, Typed, At, Goto, sinkVars, mergeVars,
                      diskVars, threadVars, histVars
<1>1. CASE TakeRow
  BY <1>1 DEF TakeRow
<1>2. CASE ApplyEnds
  BY <1>2 DEF ApplyEnds
<1>3. CASE CountRow
  BY <1>3 DEF CountRow
<1>4. CASE WriteToClosed
  BY <1>4 DEF WriteToClosed
<1>5. QED  BY <1>1, <1>2, <1>3, <1>4

LEMMA QuietSave ==
  ASSUME Control, NEW t \in Threads,
         \/ Hook(t) \/ Snapshot(t) \/ BeginBackup(t) \/ CopyBackup(t)
         \/ OpenTemp(t) \/ FillTemp(t) \/ ReplacePath(t) \/ ReplaceFails(t)
  PROVE  Quiet
<1> USE ThreadSet DEF At, Goto, Note, sinkVars, mergeVars, diskVars, threadVars, histVars
<1> DEFINE after == IF t = "apply" THEN {"count", "dead"} \cup SaveSteps
                    ELSE {"leave", "complete", "close", "check"} \cup SaveSteps
<1>1. /\ pc[t] \in {"hook"} \cup SaveSteps
      /\ UNCHANGED <<buffer, bytes, out, kept, row>> /\ clashes \subseteq clashes'
  BY DEF Hook, Snapshot, BeginBackup, CopyBackup, OpenTemp, FillTemp, ReplacePath,
         ReplaceFails, SaveSteps
<1>2. /\ \A u \in Threads \ {t} : pc'[u] = pc[u] /\ value'[u] = value[u] /\ local'[u] = local[u]
      /\ pc'[t] \in after
  <2>1. CASE Hook(t)
    BY <1>1, <2>1, NextTask
    DEF Hook, Continue, SaveSteps, FlushSteps, Control, Typed, Threads
  <2>2. CASE Snapshot(t)
    BY <2>2 DEF Snapshot, SaveSteps, Control, Typed
  <2>3. CASE BeginBackup(t)
    BY <2>3 DEF BeginBackup, SaveSteps, Control, Typed
  <2>4. CASE CopyBackup(t)
    BY <2>4 DEF CopyBackup, SaveSteps, Control, Typed
  <2>5. CASE OpenTemp(t)
    BY <2>5 DEF OpenTemp, SaveSteps, Control, Typed
  <2>6. CASE FillTemp(t)
    BY <2>6 DEF FillTemp, SaveSteps, Control, Typed
  <2>7. CASE ReplacePath(t)
    BY <1>1, <2>7, NextTask
    DEF ReplacePath, Continue, SaveSteps, FlushSteps, Control, Typed, Threads
  <2>8. CASE ReplaceFails(t)
    <3>1. CASE t = "apply"
      BY <2>8, <3>1 DEF ReplaceFails, Control, Typed
    <3>2. CASE t = "main"
      BY <2>8, <3>2, AbortSteps DEF ReplaceFails, Continue, Control, Typed
    <3>3. CASE t = "handler"
      BY <1>1, <2>8, <3>3, NextTask
      DEF ReplaceFails, Continue, SaveSteps, Control, Typed
    <3>4. QED  BY <3>1, <3>2, <3>3 DEF Threads
  <2>9. QED  BY <2>1, <2>2, <2>3, <2>4, <2>5, <2>6, <2>7, <2>8
<1>3. Written' = Written
  BY <1>1, <1>2 DEF Written, SaveSteps
<1>4. QED  BY <1>1, <1>2, <1>3 DEF Quiet, InFlush, SaveSteps

LEMMA QuietMain ==
  ASSUME Control, Signal \/ SecondSignal \/ LeaveLoop \/ Join \/ Close \/ Complete \/ Exit
  PROVE  Quiet
<1> USE ThreadSet DEF At, Goto, sinkVars, mergeVars, diskVars, threadVars, histVars
<1>1. /\ UNCHANGED <<buffer, bytes, out, kept, row, clashes, local>>
      /\ pc'["apply"] = pc["apply"] /\ value'["apply"] = value["apply"]
      /\ value'["handler"] = value["handler"]
      /\ pc'["handler"] \in {pc["handler"], "check"}
      /\ pc'["handler"] # pc["handler"] => pc["handler"] = "none"
      /\ \/ pc'["main"] = pc["main"] /\ value'["main"] = value["main"]
         \/ /\ pc["main"] \notin InFlush
            /\ pc'["main"] \in {"join", "leave", "complete", "close", "check", "snapshot",
                                "backup", "exited"}
  <2>1. CASE Signal
    BY <2>1 DEF Signal
  <2>2. CASE SecondSignal
    BY <2>2 DEF SecondSignal, Steps, Control, Typed
  <2>3. CASE LeaveLoop
    BY <2>3 DEF LeaveLoop, InFlush, Control, Typed
  <2>4. CASE Join
    BY <2>4, EndSteps DEF Join, Continue, InFlush, Control, Typed
  <2>5. CASE Close
    BY <2>5, TodoStep DEF Close, Continue, InFlush, Control, Typed, MainControl
  <2>6. CASE Complete
    BY <2>6 DEF Complete, InFlush, Control, Typed
  <2>7. CASE Exit
    BY <2>7 DEF Exit, InFlush, Control, Typed
  <2>8. QED  BY <2>1, <2>2, <2>3, <2>4, <2>5, <2>6, <2>7
<1>2. QED  BY <1>1 DEF Quiet, Written, InFlush, Threads

\* SystemExit ends what the main thread is doing.
LEMMA QuietExit ==
  ASSUME Control, OneFlush, RaiseSystemExit
  PROVE  Quiet
<1>1. /\ pc["handler"] = "leave" /\ pc'["handler"] = "over"
      /\ pc'["main"] \in {"leave", "check"} /\ pc'["apply"] = pc["apply"]
      /\ local'["apply"] = local["apply"] /\ value'["apply"] = value["apply"]
      /\ value'["handler"] = value["handler"]
      /\ UNCHANGED <<buffer, bytes, out, kept, row, clashes>>
  BY ThreadSet, AbortSteps
  DEF RaiseSystemExit, At, Control, Typed, sinkVars, mergeVars, diskVars, histVars
<1>2. pc["main"] \notin InFlush
  BY <1>1 DEF OneFlush
<1>3. QED  BY <1>1, <1>2 DEF Quiet, Written, InFlush, Threads

\* Every other step.
RowStep ==
  \/ LoadBuffer \/ Put \/ LoadBytes \/ StoreBytes
  \/ \E t \in Threads : CheckBytes(t) \/ GetValue(t) \/ Write(t) \/ Reset(t) \/ Zero(t)

LEMMA QuietOrRowStep ==
  ASSUME Control, OneFlush, [Next]_vars
  PROVE  Quiet \/ RowStep
<1>1. CASE UNCHANGED vars
  BY <1>1, ThreadSet
  DEF vars, sinkVars, mergeVars, diskVars, threadVars, histVars, Quiet, Written
<1>2. CASE Next
  BY <1>2, QuietApply, QuietSave, QuietMain, QuietExit DEF Next, RowStep
<1>3. QED  BY <1>1, <1>2
--------------------------------------------------------------------------------
(***************************************************************************)
(* Sequences of rows.                                                       *)
(***************************************************************************)
LEMMA Beginning ==
  ASSUME NEW s \in Seq(Nat), NEW t \in Seq(Nat), NEW u \in Seq(Nat), NEW n \in Nat,
         Begins(t, u), Increasing(s \o u), UpTo(s \o u, n)
  PROVE  Increasing(s \o t) /\ UpTo(s \o t, n)
<1>1. /\ s \o t \in Seq(Nat) /\ Len(s \o t) = Len(s) + Len(t)
      /\ s \o u \in Seq(Nat) /\ Len(s \o u) = Len(s) + Len(u)
  BY ConcatProperties
<1>2. \A i \in DOMAIN (s \o t) : i \in DOMAIN (s \o u) /\ (s \o t)[i] = (s \o u)[i]
  BY <1>1, ConcatProperties DEF Begins
<1>3. QED  BY <1>1, <1>2 DEF Increasing, UpTo

LEMMA OneMore ==
  ASSUME NEW s \in Seq(Nat), NEW n \in Nat, NEW m \in Nat, Increasing(s), UpTo(s, n), n < m
  PROVE  Increasing(Append(s, m)) /\ UpTo(Append(s, m), m)
<1>1. /\ Append(s, m) \in Seq(Nat) /\ Len(Append(s, m)) = Len(s) + 1
      /\ \A i \in 1 .. Len(s) : Append(s, m)[i] = s[i]
      /\ Append(s, m)[Len(s) + 1] = m
  BY AppendProperties
<1> DEFINE t == Append(s, m)
<1>2. \A i \in 1 .. Len(s) : s[i] < m /\ s[i] \in Nat
  BY DEF UpTo
<1>3. DOMAIN t = 1 .. Len(s) + 1
  BY <1>1
<1> HIDE DEF t
<1>4. \A i \in DOMAIN t : t[i] <= m /\ (i # Len(s) + 1 => t[i] = s[i] /\ t[i] < m)
  BY <1>1, <1>2, <1>3 DEF t
<1>5. UpTo(t, m)
  BY <1>4 DEF UpTo
<1>6. Increasing(t)
  BY <1>1, <1>3, <1>4 DEF Increasing, t
<1>7. QED  BY <1>5, <1>6 DEF t

LEMMA AppendLast ==
  ASSUME NEW s \in Seq(Nat), NEW t \in Seq(Nat), NEW m \in Nat
  PROVE  s \o Append(t, m) = Append(s \o t, m)
<1>1. Append(t, m) = t \o <<m>> /\ Append(s \o t, m) = (s \o t) \o <<m>>
  BY AppendIsConcat, ConcatProperties
<1>2. s \o (t \o <<m>>) = (s \o t) \o <<m>>
  BY ConcatAssociative
<1>3. QED  BY <1>1, <1>2

LEMMA RowAppended ==
  ASSUME Typed
  PROVE  out \o Append(buffer, row) = Append(out \o buffer, row)
<1>1. out \in Seq(Nat) /\ buffer \in Seq(Nat) /\ row \in Nat
  BY CountsTyped DEF Typed
<1>2. QED  BY <1>1, AppendLast

LEMMA WrittenTyped ==
  ASSUME Typed
  PROVE  /\ Written \in Nat /\ kept <= Written /\ Written <= row /\ kept \in Nat /\ row \in Nat
         /\ out \o buffer \in Seq(Nat)
BY CountsTyped, ConcatProperties DEF Typed, Written
--------------------------------------------------------------------------------
(***************************************************************************)
(* Without two flushes at once the rows stay in order.                      *)
(***************************************************************************)
LEMMA OneFlushStep ==
  ASSUME Control, OneFlush, [Next]_vars, "flush" \notin clashes'
  PROVE  OneFlush'
<1> USE ThreadSet DEF Control, InFlush
<1>1. CASE Quiet
  BY <1>1 DEF Quiet, OneFlush
<1>2. CASE LoadBuffer \/ Put \/ LoadBytes
  BY <1>2 DEF LoadBuffer, Put, LoadBytes, OneFlush, At, Goto, Typed, sinkVars
<1>3. CASE StoreBytes
  <2>1. bytes' > 0
    BY <1>3 DEF StoreBytes, ValuesTyped, At
  <2>2. QED  BY <1>3, <2>1, OtherTodos DEF StoreBytes, Continue, OneFlush, At, Typed
<1>4. ASSUME NEW t \in Threads, CheckBytes(t)
      PROVE  OneFlush'
  <2>1. /\ pc[t] = "check" /\ MayStep(t) /\ bytes' = bytes
        /\ pc' = [pc EXCEPT ![t] = IF bytes = 0 THEN "hook" ELSE "get"]
    BY <1>4 DEF CheckBytes, At, Goto, sinkVars
  <2>2. CASE bytes = 0
    BY <2>1, <2>2 DEF OneFlush, Typed
  <2>3. CASE bytes # 0
    <3>1. ~Others(t, InFlush)
      BY <1>4, <2>3 DEF CheckBytes, Typed
    <3>2. QED  BY <2>1, <2>3, <3>1 DEF OneFlush, Others, Typed, MayStep
  <2>4. QED  BY <2>2, <2>3
<1>5. ASSUME NEW t \in Threads, GetValue(t) \/ Write(t) \/ Reset(t)
      PROVE  OneFlush'
  BY <1>5 DEF GetValue, Write, Reset, OneFlush, At, MayStep, Goto, Typed, sinkVars
<1>6. ASSUME NEW t \in Threads, Zero(t)
      PROVE  OneFlush'
  BY <1>6 DEF Zero, OneFlush, At, MayStep, Goto, Typed, sinkVars
<1>7. QED  BY <1>1, <1>2, <1>3, <1>4, <1>5, <1>6, QuietOrRowStep DEF RowStep

LEMMA RowsInOrderStep ==
  ASSUME Control, OneFlush, RowsInOrder, [Next]_vars, Control', "flush" \notin clashes'
  PROVE  RowsInOrder'
<1> USE ThreadSet, WrittenTyped DEF Control, InFlush
<1>1. CASE Quiet
  BY <1>1 DEF Quiet, RowsInOrder
<1>2. CASE LoadBuffer \/ LoadBytes
  <2>1. UNCHANGED <<buffer, out, kept, row>> /\ Written' = Written
    BY <1>2
    DEF LoadBuffer, LoadBytes, At, Goto, Typed, sinkVars, mergeVars, Written
  <2>2. \A t \in Threads : /\ pc'[t] \in InFlush => pc'[t] = pc[t] /\ value'[t] = value[t]
                           /\ pc[t] = "reset" => pc'[t] = "reset"
    BY <1>2 DEF LoadBuffer, LoadBytes, At, Goto, Typed
  <2>3. QED  BY <2>1, <2>2 DEF RowsInOrder
<1>3. CASE StoreBytes
  <2>1. UNCHANGED <<buffer, out, kept, row>> /\ Written' = Written
    BY <1>3, OtherTodos
    DEF StoreBytes, Continue, At, Typed, sinkVars, mergeVars, Written
  <2>2. \A t \in Threads : /\ pc'[t] \in InFlush => pc'[t] = pc[t] /\ value'[t] = value[t]
                           /\ pc[t] = "reset" => pc'[t] = "reset"
    BY <1>3, OtherTodos DEF StoreBytes, Continue, At, Typed
  <2>3. QED  BY <2>1, <2>2 DEF RowsInOrder
<1>4. CASE Put
  <2>1. /\ pc["apply"] = "put" /\ pc' = [pc EXCEPT !["apply"] = "add"]
        /\ buffer' = IF local["apply"] = Current THEN Append(buffer, row) ELSE buffer
        /\ UNCHANGED <<out, kept, row, value>>
    BY <1>4 DEF Put, At, Goto, mergeVars
  <2>2. Written = kept /\ Written' = row /\ row = kept + 1
    BY <2>1 DEF Written, Typed
  <2>3. UpTo(out, Written')
    BY <2>2 DEF RowsInOrder, UpTo, Typed
  <2>4. ASSUME Increasing(out \o buffer), UpTo(out \o buffer, kept)
        PROVE  Increasing(out \o buffer') /\ UpTo(out \o buffer', row)
    <3>1. CASE buffer' = buffer
      BY <2>2, <2>4, <3>1 DEF UpTo
    <3>2. CASE buffer' = Append(buffer, row)
      <4>1. out \o Append(buffer, row) = Append(out \o buffer, row)
        BY RowAppended
      <4>2. out \o buffer \in Seq(Nat) /\ kept \in Nat /\ row \in Nat /\ kept < row
        BY <2>2
      <4>3. /\ Increasing(Append(out \o buffer, row))
            /\ UpTo(Append(out \o buffer, row), row)
        BY <2>4, <4>2, OneMore
      <4>4. QED  BY <3>2, <4>1, <4>3
    <3>3. QED  BY <2>1, <3>1, <3>2
  <2>5. ASSUME NEW s \in Seq(Nat), Begins(s, buffer)
        PROVE  Begins(s, buffer')
    <3>1. CASE buffer' = buffer
      BY <2>5, <3>1
    <3>2. CASE buffer' = Append(buffer, row)
      <4>1. /\ Len(Append(buffer, row)) = Len(buffer) + 1
            /\ \A i \in 1 .. Len(buffer) : Append(buffer, row)[i] = buffer[i]
        BY AppendProperties DEF Typed
      <4>2. QED  BY <2>5, <3>2, <4>1 DEF Begins
    <3>3. QED  BY <2>1, <3>1, <3>2
  <2>6. \A t \in Threads : pc'[t] = "write" => pc[t] = "write" /\ value'[t] \in Seq(Nat)
    BY <2>1 DEF ValuesTyped, Typed
  <2>7. (\A t \in Threads : pc'[t] # "reset") => \A t \in Threads : pc[t] # "reset"
    BY <2>1 DEF Typed
  <2>8. QED  BY <2>1, <2>2, <2>3, <2>4, <2>5, <2>6, <2>7 DEF RowsInOrder
<1>5. ASSUME NEW t \in Threads, CheckBytes(t)
      PROVE  RowsInOrder'
  BY <1>5 DEF CheckBytes, RowsInOrder, At, Goto, Typed, sinkVars, mergeVars, Written
<1>6. ASSUME NEW t \in Threads, GetValue(t)
      PROVE  RowsInOrder'
  <2>1. Begins(buffer, buffer)
    BY DEF Begins, Typed
  <2>2. QED
    BY <1>6, <2>1 DEF GetValue, RowsInOrder, At, Goto, Typed, sinkVars, mergeVars, Written
<1>7. ASSUME NEW t \in Threads, Write(t)
      PROVE  RowsInOrder'
  <2>1. /\ pc[t] = "write" /\ pc' = [pc EXCEPT ![t] = "reset"] /\ out' = out \o value[t]
        /\ UNCHANGED <<buffer, kept, row>>
    BY <1>7 DEF Write, At, Goto, mergeVars
  <2>2. value[t] \in Seq(Nat) /\ Begins(value[t], buffer) /\ Written' = Written
    BY <2>1 DEF ValuesTyped, RowsInOrder, Written, Typed
  <2>3. \A u \in Threads \ {t} : pc[u] \notin InFlush /\ pc'[u] = pc[u]
    BY <2>1 DEF OneFlush, Typed
  <2>4. Increasing(out \o buffer) /\ UpTo(out \o buffer, Written)
    BY <2>1, <2>3 DEF RowsInOrder
  <2>5. Increasing(out') /\ UpTo(out', Written')
    BY <2>1, <2>2, <2>4, Beginning DEF Typed
  <2>6. pc'[t] = "reset"
    BY <2>1 DEF Typed
  <2>7. QED  BY <2>3, <2>5, <2>6 DEF RowsInOrder
<1>8. ASSUME NEW t \in Threads, Reset(t)
      PROVE  RowsInOrder'
  <2>1. /\ pc[t] = "reset" /\ pc' = [pc EXCEPT ![t] = "zero"] /\ buffer' = <<>>
        /\ UNCHANGED <<out, kept, row>>
    BY <1>8 DEF Reset, At, Goto, mergeVars
  <2>2. out \o buffer' = out /\ Written' = Written
    BY <2>1, ConcatEmptySeq DEF Written, Typed
  <2>3. \A u \in Threads : pc'[u] # "write"
    BY <2>1 DEF OneFlush, Typed
  <2>4. QED  BY <2>1, <2>2, <2>3 DEF RowsInOrder
<1>9. ASSUME NEW t \in Threads, Zero(t)
      PROVE  RowsInOrder'
  BY <1>9 DEF Zero, RowsInOrder, At, Goto, Typed, sinkVars, mergeVars, Written
<1>10. QED
  BY <1>1, <1>2, <1>3, <1>4, <1>5, <1>6, <1>7, <1>8, <1>9, QuietOrRowStep DEF RowStep
--------------------------------------------------------------------------------
(***************************************************************************)
(* Without a row put between the steps of another thread's flush all rows   *)
(* are there and counted.                                                   *)
(***************************************************************************)
LEMMA UptoTyped ==
  ASSUME NEW n \in Nat
  PROVE  Upto(n) \in Seq(Nat) /\ Len(Upto(n)) = n /\ \A i \in 1 .. n : Upto(n)[i] = i
BY DEF Upto

LEMMA UptoNext ==
  ASSUME NEW n \in Nat
  PROVE  Append(Upto(n), n + 1) = Upto(n + 1)
<1>1. /\ Append(Upto(n), n + 1) \in Seq(Nat) /\ Len(Append(Upto(n), n + 1)) = n + 1
      /\ \A i \in 1 .. n : Append(Upto(n), n + 1)[i] = i
      /\ Append(Upto(n), n + 1)[n + 1] = n + 1
  BY UptoTyped, AppendProperties
<1>2. /\ Upto(n + 1) \in Seq(Nat) /\ Len(Upto(n + 1)) = n + 1
      /\ \A i \in 1 .. n + 1 : Upto(n + 1)[i] = i
  BY UptoTyped
<1>3. \A i \in 1 .. n + 1 : Append(Upto(n), n + 1)[i] = Upto(n + 1)[i]
  BY <1>1, <1>2
<1>4. QED  BY <1>1, <1>2, <1>3, SeqEqual

LEMMA RowsOrFlushStep ==
  ASSUME Control, OneFlush, RowsOrFlush, [Next]_vars, clashes' \cap {"flush", "row"} = {}
  PROVE  RowsOrFlush'
<1> USE ThreadSet DEF Control, InFlush, Typed
<1>1. CASE Quiet
  BY <1>1 DEF Quiet, RowsOrFlush
<1>2. CASE LoadBuffer
  <2>1. ~Others("apply", InFlush)
    BY <1>2 DEF LoadBuffer, Note
  <2>2. QED  BY <1>2, <2>1 DEF LoadBuffer, RowsOrFlush, Others, Goto
<1>3. CASE Put
  BY <1>3 DEF Put, At, Goto, RowsOrFlush
<1>4. CASE LoadBytes
  BY <1>4 DEF LoadBytes, At, Goto, RowsOrFlush
<1>5. CASE StoreBytes
  BY <1>5, OtherTodos DEF StoreBytes, Continue, At, RowsOrFlush
<1>6. ASSUME NEW t \in Threads, CheckBytes(t)
      PROVE  RowsOrFlush'
  <2>1. /\ pc[t] = "check" /\ UNCHANGED local
        /\ pc' = [pc EXCEPT ![t] = IF bytes = 0 THEN "hook" ELSE "get"]
    BY <1>6 DEF CheckBytes, At, Goto
  <2>2. bytes # 0 => ~Others(t, InRow)
    <3>1. bytes > 0 /\ Others(t, InRow) => "row" \in clashes'
      BY <1>6 DEF CheckBytes
    <3>2. QED  BY <3>1
  <2>3. QED  BY <2>1, <2>2 DEF RowsOrFlush, Others, InRow
<1>7. ASSUME NEW t \in Threads, GetValue(t) \/ Write(t) \/ Zero(t)
      PROVE  RowsOrFlush'
  BY <1>7 DEF GetValue, Write, Zero, At, Goto, RowsOrFlush
<1>8. ASSUME NEW t \in Threads, Reset(t)
      PROVE  RowsOrFlush'
  <2>1. pc["apply"] # "put"
    BY <1>8 DEF Reset, At, RowsOrFlush
  <2>2. QED  BY <1>8, <2>1 DEF Reset, At, Goto, RowsOrFlush
<1>9. QED
  BY <1>1, <1>2, <1>3, <1>4, <1>5, <1>6, <1>7, <1>8, QuietOrRowStep DEF RowStep

LEMMA AllRowsThereStep ==
  ASSUME Control, OneFlush, RowsOrFlush, AllRowsThere, [Next]_vars
  PROVE  AllRowsThere'
<1> USE ThreadSet DEF Control, InFlush, Typed
<1>1. CASE Quiet
  BY <1>1 DEF Quiet, AllRowsThere
<1>2. CASE LoadBuffer \/ LoadBytes
  <2>1. UNCHANGED <<buffer, out>> /\ Written' = Written
    BY <1>2
    DEF LoadBuffer, LoadBytes, At, Goto, sinkVars, mergeVars, Written
  <2>2. \A t \in Threads : /\ pc'[t] \in InFlush => pc'[t] = pc[t] /\ value'[t] = value[t]
                           /\ pc[t] = "reset" => pc'[t] = "reset"
    BY <1>2 DEF LoadBuffer, LoadBytes, At, Goto
  <2>3. QED  BY <2>1, <2>2 DEF AllRowsThere
<1>3. CASE StoreBytes
  <2>1. UNCHANGED <<buffer, out>> /\ Written' = Written
    BY <1>3, OtherTodos DEF StoreBytes, Continue, At, mergeVars, Written
  <2>2. \A t \in Threads : /\ pc'[t] \in InFlush => pc'[t] = pc[t] /\ value'[t] = value[t]
                           /\ pc[t] = "reset" => pc'[t] = "reset"
    BY <1>3, OtherTodos DEF StoreBytes, Continue, At
  <2>3. QED  BY <2>1, <2>2 DEF AllRowsThere
<1>4. CASE Put
  <2>1. /\ pc["apply"] = "put" /\ pc' = [pc EXCEPT !["apply"] = "add"]
        /\ local["apply"] = Current /\ buffer' = Append(buffer, row)
        /\ UNCHANGED <<out, kept, row, value>>
    BY <1>4 DEF Put, At, Goto, mergeVars, RowsOrFlush
  <2>2. Written = kept /\ Written' = kept + 1 /\ row = kept + 1 /\ kept \in Nat
    BY <2>1, WrittenTyped DEF Written
  <2>3. \A t \in Threads : pc'[t] \notin InFlush /\ pc[t] \notin InFlush
    BY <2>1 DEF RowsOrFlush
  <2>4. out \o buffer' = Upto(kept + 1)
    <3>1. out \o buffer = Upto(kept)
      BY <2>2, <2>3 DEF AllRowsThere
    <3>2. out \o buffer' = Append(Upto(kept), kept + 1)
      BY <2>1, <2>2, <3>1, RowAppended
    <3>3. Append(Upto(kept), kept + 1) = Upto(kept + 1)
      BY <2>2, UptoNext
    <3>4. QED  BY <3>2, <3>3
  <2>5. QED  BY <2>1, <2>2, <2>3, <2>4 DEF AllRowsThere
<1>5. ASSUME NEW t \in Threads, CheckBytes(t) \/ GetValue(t) \/ Zero(t)
      PROVE  AllRowsThere'
  <2>1. UNCHANGED <<buffer, out>> /\ Written' = Written
    BY <1>5 DEF CheckBytes, GetValue, Zero, At, Goto, Written, sinkVars, mergeVars
  <2>2. CASE CheckBytes(t) \/ GetValue(t)
    BY <2>1, <2>2 DEF CheckBytes, GetValue, At, Goto, AllRowsThere
  <2>3. CASE Zero(t)
    BY <2>1, <2>3 DEF Zero, At, Goto, AllRowsThere
  <2>4. QED  BY <1>5, <2>2, <2>3
<1>6. ASSUME NEW t \in Threads, Write(t)
      PROVE  AllRowsThere'
  <2>1. /\ pc[t] = "write" /\ pc' = [pc EXCEPT ![t] = "reset"] /\ out' = out \o value[t]
        /\ UNCHANGED <<buffer, kept, row>>
    BY <1>6 DEF Write, At, Goto, mergeVars
  <2>2. \A u \in Threads \ {t} : pc[u] \notin InFlush /\ pc'[u] = pc[u]
    BY <2>1 DEF OneFlush
  <2>3. out' = Upto(Written) /\ Written' = Written
    BY <2>1, <2>2 DEF AllRowsThere, Written
  <2>4. QED  BY <2>1, <2>2, <2>3 DEF AllRowsThere
<1>7. ASSUME NEW t \in Threads, Reset(t)
      PROVE  AllRowsThere'
  <2>1. /\ pc[t] = "reset" /\ pc' = [pc EXCEPT ![t] = "zero"] /\ buffer' = <<>>
        /\ UNCHANGED <<out, kept, row>>
    BY <1>7 DEF Reset, At, Goto, mergeVars
  <2>2. out \o buffer' = out /\ Written' = Written
    BY <2>1, ConcatEmptySeq DEF Written
  <2>3. \A u \in Threads : pc'[u] \notin {"write", "reset"}
    BY <2>1 DEF OneFlush
  <2>4. QED  BY <2>1, <2>2, <2>3 DEF AllRowsThere
<1>8. QED
  BY <1>1, <1>2, <1>3, <1>4, <1>5, <1>6, <1>7, QuietOrRowStep DEF RowStep

LEMMA BytesCountedStep ==
  ASSUME Control, OneFlush, RowsOrFlush, BytesCounted, [Next]_vars,
         clashes' \cap {"flush", "row"} = {}
  PROVE  BytesCounted'
<1> USE ThreadSet DEF Control, InFlush, Typed
<1>1. CASE Quiet
  BY <1>1 DEF Quiet, BytesCounted
<1>2. CASE LoadBuffer
  BY <1>2 DEF LoadBuffer, At, Goto, sinkVars, BytesCounted
<1>3. CASE Put
  <2>1. /\ pc["apply"] = "put" /\ pc' = [pc EXCEPT !["apply"] = "add"]
        /\ buffer' = Append(buffer, row) /\ bytes' = bytes /\ row \in Nat
    BY <1>3 DEF Put, At, Goto, RowsOrFlush
  <2>2. \A t \in Threads : pc'[t] # "zero" /\ pc[t] # "zero"
    BY <2>1 DEF RowsOrFlush
  <2>3. Len(buffer') = Len(buffer) + 1
    BY <2>1, AppendProperties
  <2>4. QED  BY <2>1, <2>2, <2>3 DEF BytesCounted
<1>4. CASE LoadBytes
  BY <1>4 DEF LoadBytes, At, Goto, sinkVars, BytesCounted
<1>5. CASE StoreBytes
  <2>1. bytes' = Len(buffer) /\ buffer' = buffer
    BY <1>5 DEF StoreBytes, At, BytesCounted
  <2>2. \A t \in Threads : pc'[t] # "zero"
    BY <1>5, OtherTodos DEF StoreBytes, Continue, At, RowsOrFlush
  <2>3. pc'["apply"] \in {"check", "count"}
    BY <1>5, OtherTodos DEF StoreBytes, Continue
  <2>4. QED  BY <2>1, <2>2, <2>3 DEF BytesCounted
<1>6. ASSUME NEW t \in Threads, CheckBytes(t) \/ GetValue(t) \/ Write(t)
      PROVE  BytesCounted'
  <2>1. /\ UNCHANGED <<buffer, bytes>>
        /\ \A u \in Threads : /\ pc'[u] = "zero" <=> pc[u] = "zero"
                              /\ pc'[u] \in {"add", "store"} =>
                                   pc'[u] = pc[u] /\ value'[u] = value[u]
                              /\ pc[u] \in {"add", "store"} => pc'[u] = pc[u]
    BY <1>6 DEF CheckBytes, GetValue, Write, At, Goto, sinkVars
  <2>2. QED  BY <2>1 DEF BytesCounted
<1>7. ASSUME NEW t \in Threads, Reset(t)
      PROVE  BytesCounted'
  <2>1. /\ pc[t] = "reset" /\ pc' = [pc EXCEPT ![t] = "zero"] /\ buffer' = <<>>
    BY <1>7 DEF Reset, At, Goto
  <2>2. pc'["apply"] \notin {"add", "store"}
    BY <2>1 DEF RowsOrFlush
  <2>3. QED  BY <2>1, <2>2 DEF BytesCounted
<1>8. ASSUME NEW t \in Threads, Zero(t)
      PROVE  BytesCounted'
  <2>1. /\ pc[t] = "zero" /\ pc' = [pc EXCEPT ![t] = "hook"] /\ buffer' = buffer /\ bytes' = 0
    BY <1>8 DEF Zero, At, Goto
  <2>2. pc'["apply"] \notin {"add", "store"}
    BY <2>1 DEF RowsOrFlush
  <2>3. buffer = <<>> /\ \A u \in Threads : pc'[u] # "zero"
    BY <2>1 DEF BytesCounted, OneFlush
  <2>4. QED  BY <2>1, <2>2, <2>3 DEF BytesCounted
<1>9. QED
  BY <1>1, <1>2, <1>3, <1>4, <1>5, <1>6, <1>7, <1>8, QuietOrRowStep DEF RowStep
--------------------------------------------------------------------------------
(***************************************************************************)
(* The steps that change no file of the checkpoint and take up none.        *)
(***************************************************************************)
QuietFiles ==
  /\ UNCHANGED <<path, tmp, files>> /\ clashes \subseteq clashes'
  /\ \A t \in Threads :
       /\ pc'[t] \in Saving => pc[t] \in Saving
       /\ pc'[t] \in {"fill", "replace"} => pc'[t] = pc[t] /\ local'[t] = local[t]
       /\ pc'[t] \in HoldsCheckpoint => pc[t] \in HoldsCheckpoint /\ value'[t] = value[t]

FileStep ==
  \/ Complete
  \/ \E t \in Threads :
       Snapshot(t) \/ BeginBackup(t) \/ OpenTemp(t) \/ FillTemp(t) \/ ReplacePath(t)

LEMMA QuietFilesApply ==
  ASSUME Control,
         \/ TakeRow \/ ApplyEnds \/ LoadBuffer \/ Put \/ LoadBytes \/ StoreBytes
         \/ CountRow \/ WriteToClosed
  PROVE  QuietFiles
<1> USE ThreadSet DEF Control, Typed, QuietFiles, Saving, HoldsCheckpoint, At, Goto,
                      diskVars, histVars
<1>1. CASE TakeRow \/ ApplyEnds \/ CountRow \/ WriteToClosed
  BY <1>1 DEF TakeRow, ApplyEnds, CountRow, WriteToClosed
<1>2. CASE LoadBuffer \/ Put \/ LoadBytes
  BY <1>2 DEF LoadBuffer, Put, LoadBytes, Note
<1>3. CASE StoreBytes
  BY <1>3, OtherTodos DEF StoreBytes, Continue
<1>4. QED  BY <1>1, <1>2, <1>3

LEMMA QuietFilesFlush ==
  ASSUME Control, NEW t \in Threads,
         \/ CheckBytes(t) \/ GetValue(t) \/ Write(t) \/ Reset(t) \/ Zero(t) \/ Hook(t)
         \/ CopyBackup(t) \/ ReplaceFails(t)
  PROVE  QuietFiles
<1> USE ThreadSet DEF Control, Typed, QuietFiles, Saving, HoldsCheckpoint, At, Goto,
                      diskVars, histVars
<1>1. CASE CheckBytes(t) \/ GetValue(t) \/ Write(t) \/ Zero(t) \/ CopyBackup(t)
  BY <1>1 DEF CheckBytes, GetValue, Write, Zero, CopyBackup
<1>2. CASE Reset(t)
  BY <1>2 DEF Reset
<1>3. CASE Hook(t)
  <2>1. pc[t] \in FlushSteps /\ UNCHANGED <<path, tmp, files, clashes, local, value>>
    BY <1>3 DEF Hook, FlushSteps
  <2>2. /\ \A u \in Threads \ {t} : pc'[u] = pc[u]
        /\ pc'[t] \in {"count", "leave", "complete", "close", "check", "snapshot"}
    BY <1>3, <2>1, NextTask DEF Hook, Continue, Threads
  <2>3. QED  BY <2>1, <2>2
<1>4. CASE ReplaceFails(t)
  <2>1. /\ pc[t] \in SaveSteps /\ UNCHANGED <<path, tmp, files, clashes, value>>
        /\ local' = [local EXCEPT ![t] = None]
    BY <1>4 DEF ReplaceFails, SaveSteps
  <2>2. /\ \A u \in Threads \ {t} : pc'[u] = pc[u]
        /\ pc'[t] \in {"dead", "leave", "check", "snapshot"}
    <3>1. CASE t = "apply"
      BY <1>4, <3>1 DEF ReplaceFails
    <3>2. CASE t = "main"
      BY <1>4, <3>2, AbortSteps DEF ReplaceFails, Continue
    <3>3. CASE t = "handler"
      BY <1>4, <2>1, <3>3, NextTask DEF ReplaceFails, Continue
    <3>4. QED  BY <3>1, <3>2, <3>3 DEF Threads
  <2>3. QED  BY <2>1, <2>2
<1>5. QED  BY <1>1, <1>2, <1>3, <1>4

LEMMA QuietFilesMain ==
  ASSUME Control,
         \/ Signal \/ SecondSignal \/ RaiseSystemExit \/ LeaveLoop \/ Join \/ Close \/ Exit
  PROVE  QuietFiles
<1> USE ThreadSet DEF Control, Typed, QuietFiles, Saving, HoldsCheckpoint, At, Goto,
                      diskVars, threadVars, histVars
<1>1. CASE Signal \/ LeaveLoop \/ Exit
  BY <1>1 DEF Signal, LeaveLoop, Exit
<1>2. CASE SecondSignal
  BY <1>2 DEF SecondSignal, Steps
<1>3. CASE RaiseSystemExit
  BY <1>3, AbortSteps DEF RaiseSystemExit
<1>4. CASE Join
  BY <1>4, EndSteps DEF Join, Continue
<1>5. CASE Close
  BY <1>5, TodoStep DEF Close, Continue, MainControl
<1>6. QED  BY <1>1, <1>2, <1>3, <1>4, <1>5

LEMMA QuietFilesOrFileStep ==
  ASSUME Control, [Next]_vars
  PROVE  QuietFiles \/ FileStep
<1>1. CASE UNCHANGED vars
  BY <1>1 DEF vars, diskVars, threadVars, histVars, QuietFiles
<1>2. CASE Next
  BY <1>2, QuietFilesApply, QuietFilesFlush, QuietFilesMain DEF Next, FileStep
<1>3. QED  BY <1>1, <1>2
--------------------------------------------------------------------------------
(***************************************************************************)
(* Without two saves at once the checkpoint's file is whole.                *)
(***************************************************************************)
LEMMA OneSaveStep ==
  ASSUME Control, OneSave, [Next]_vars, "save" \notin clashes'
  PROVE  OneSave'
<1> USE ThreadSet DEF Control, Typed, Saving
<1>1. CASE QuietFiles
  BY <1>1 DEF QuietFiles, OneSave
<1>2. CASE Complete
  <2>1. pc'["main"] \in {"backup", "leave"} /\ \A u \in Threads \ {"main"} : pc'[u] = pc[u]
    BY <1>2 DEF Complete, Goto
  <2>2. QED  BY <2>1 DEF OneSave
<1>3. ASSUME NEW t \in Threads, BeginBackup(t)
      PROVE  OneSave'
  <2>1. \A u \in Threads \ {t} : pc[u] \notin Saving /\ pc'[u] = pc[u]
    BY <1>3 DEF BeginBackup, Goto, Note, Others, InSave
  <2>2. QED  BY <2>1 DEF OneSave
<1>4. ASSUME NEW t \in Threads, Snapshot(t) \/ OpenTemp(t) \/ FillTemp(t)
      PROVE  OneSave'
  BY <1>4 DEF Snapshot, OpenTemp, FillTemp, At, Goto, OneSave
<1>5. ASSUME NEW t \in Threads, ReplacePath(t)
      PROVE  OneSave'
  <2>1. pc[t] \in SaveSteps
    BY <1>5 DEF ReplacePath, At, SaveSteps
  <2>2. /\ \A u \in Threads \ {t} : pc'[u] = pc[u]
        /\ pc'[t] \in {"count", "leave", "complete", "close", "check", "snapshot"}
    BY <1>5, <2>1, NextTask DEF ReplacePath, Continue, Threads
  <2>3. QED  BY <2>2 DEF OneSave
<1>6. QED
  BY <1>1, <1>2, <1>3, <1>4, <1>5, QuietFilesOrFileStep DEF FileStep

LEMMA FilesInOrderStep ==
  ASSUME Control, OneSave, FilesInOrder, [Next]_vars
  PROVE  FilesInOrder'
<1> USE ThreadSet DEF Control, Typed, Saving
<1>1. CASE QuietFiles
  BY <1>1 DEF QuietFiles, FilesInOrder
<1>2. CASE Complete
  BY <1>2 DEF Complete, At, Goto, FilesInOrder, diskVars
<1>3. ASSUME NEW t \in Threads, Snapshot(t) \/ BeginBackup(t)
      PROVE  FilesInOrder'
  <2>1. UNCHANGED <<path, tmp, files, local>>
    BY <1>3 DEF Snapshot, BeginBackup, diskVars
  <2>2. \A u \in Threads : pc'[u] \in {"fill", "replace"} => pc'[u] = pc[u]
    BY <1>3 DEF Snapshot, BeginBackup, Goto
  <2>3. QED  BY <2>1, <2>2 DEF FilesInOrder
<1>4. ASSUME NEW t \in Threads, OpenTemp(t)
      PROVE  FilesInOrder'
  <2>1. /\ pc[t] = "open" /\ pc' = [pc EXCEPT ![t] = "fill"] /\ path' = path
    BY <1>4 DEF OpenTemp, At, Goto
  <2>2. PICK f \in Files :
           /\ tmp' = f /\ files' = [files EXCEPT ![f] = Empty]
           /\ local' = [local EXCEPT ![t] = f]
           /\ path # None => f # path
    BY <1>4, <2>1, FreeFile DEF OpenTemp, FilesInOrder
  <2>3. \A u \in Threads \ {t} : pc'[u] \notin {"fill", "replace"}
    BY <2>1 DEF OneSave
  <2>4. path # None => path \in Files /\ files'[path] = files[path]
    BY <2>2
  <2>5. QED  BY <2>1, <2>2, <2>3, <2>4 DEF FilesInOrder
<1>5. ASSUME NEW t \in Threads, FillTemp(t)
      PROVE  FilesInOrder'
  <2>1. /\ pc[t] = "fill" /\ pc' = [pc EXCEPT ![t] = "replace"]
        /\ UNCHANGED <<path, tmp, local>>
    BY <1>5 DEF FillTemp, At, Goto
  <2>2. local[t] = tmp /\ tmp \in Files /\ files[tmp] = Empty
    BY <2>1 DEF FilesInOrder, LocalsTyped
  <2>3. PICK c \in FileContents : value[t] = <<c>> /\ c.state = "whole"
    BY <2>1 DEF ValuesTyped, HoldsCheckpoint
  <2>4. files' = [files EXCEPT ![tmp] = Head(value[t])]
    BY <1>5, <2>2 DEF FillTemp
  <2>5. Head(value[t]) = c
    BY <2>3
  <2>6. files'[tmp].state = "whole" /\ (path # None => files'[path] = files[path])
    BY <2>2, <2>3, <2>4, <2>5 DEF FilesInOrder
  <2>7. \A u \in Threads \ {t} : pc'[u] \notin {"fill", "replace"}
    BY <2>1 DEF OneSave
  <2>8. QED  BY <2>1, <2>2, <2>6, <2>7 DEF FilesInOrder
<1>6. ASSUME NEW t \in Threads, ReplacePath(t)
      PROVE  FilesInOrder'
  <2>1. /\ pc[t] = "replace" /\ path' = tmp /\ tmp' = None /\ tmp # None
        /\ files' = [f \in Files |-> IF f = path /\ f \notin Range(local') THEN Empty
                                     ELSE files[f]]
    BY <1>6 DEF ReplacePath, At
  <2>2. pc[t] \in SaveSteps
    BY <2>1 DEF SaveSteps
  <2>3. /\ \A u \in Threads \ {t} : pc'[u] = pc[u]
        /\ pc'[t] \in {"count", "leave", "complete", "close", "check", "snapshot"}
    BY <1>6, <2>2, NextTask DEF ReplacePath, Continue, Threads
  <2>4. \A u \in Threads : pc'[u] \notin {"fill", "replace"}
    BY <2>1, <2>3 DEF OneSave
  <2>5. files[tmp].state = "whole" /\ tmp \in Files /\ tmp # path
    BY <2>1 DEF FilesInOrder, LocalsTyped
  <2>6. files'[tmp] = files[tmp]
    BY <2>1, <2>5
  <2>7. QED  BY <2>1, <2>4, <2>5, <2>6 DEF FilesInOrder
<1>7. QED
  BY <1>1, <1>2, <1>3, <1>4, <1>5, <1>6, QuietFilesOrFileStep DEF FileStep

\* The temporary file is there to be moved.
LEMMA ReplaceSucceeds ==
  ASSUME Control, FilesInOrder, NEW t \in Threads
  PROVE  ~ReplaceFails(t)
<1>1. pc[t] = "replace" => tmp \in Files
  BY DEF Control, LocalsTyped, FilesInOrder
<1>2. ReplaceFails(t) => pc[t] = "replace" /\ tmp = None
  BY DEF ReplaceFails, At
<1>3. QED  BY <1>1, <1>2 DEF Files, None
--------------------------------------------------------------------------------
(***************************************************************************)
(* A checkpoint in a file was taken by Snapshot or by Complete.             *)
(***************************************************************************)
LEMMA CheckpointsPassedOn ==
  ASSUME Control, [Next]_vars
  PROVE  /\ \A f \in Files :
              \/ files'[f] \in {files[f], Empty, Garbage}
              \/ \E t \in Threads : pc[t] = "fill" /\ files'[f] = Head(value[t])
         /\ \A t \in Threads : pc'[t] \in HoldsCheckpoint =>
              \/ pc[t] \in HoldsCheckpoint /\ value'[t] = value[t]
              \/ Snapshot(t)
              \/ t = "main" /\ Complete
<1> USE ThreadSet DEF Control, Typed
<1>1. CASE QuietFiles
  BY <1>1 DEF QuietFiles
<1>2. CASE Complete
  BY <1>2 DEF Complete, At, Goto, HoldsCheckpoint, diskVars
<1>3. ASSUME NEW t \in Threads, Snapshot(t)
      PROVE  /\ files' = files
             /\ \A u \in Threads \ {t} : pc'[u] = pc[u] /\ value'[u] = value[u]
  BY <1>3 DEF Snapshot, At, Goto, diskVars
<1>4. ASSUME NEW t \in Threads, BeginBackup(t)
      PROVE  /\ files' = files
             /\ value' = value
             /\ \A u \in Threads : pc'[u] \in HoldsCheckpoint => pc[u] \in HoldsCheckpoint
  BY <1>4 DEF BeginBackup, At, Goto, HoldsCheckpoint
<1>5. ASSUME NEW t \in Threads, OpenTemp(t)
      PROVE  /\ \A f \in Files : files'[f] \in {files[f], Empty}
             /\ value' = value
             /\ \A u \in Threads : pc'[u] \in HoldsCheckpoint => pc[u] \in HoldsCheckpoint
  <2>1. PICK f : files' = [files EXCEPT ![f] = Empty]
    BY <1>5 DEF OpenTemp
  <2>2. QED  BY <1>5, <2>1 DEF OpenTemp, At, Goto, HoldsCheckpoint
<1>6. ASSUME NEW t \in Threads, FillTemp(t)
      PROVE  /\ \A f \in Files : files'[f] \in {files[f], Garbage, Head(value[t])}
             /\ pc[t] = "fill"
             /\ \A u \in Threads : pc'[u] \in HoldsCheckpoint =>
                  pc[u] \in HoldsCheckpoint /\ value'[u] = value[u]
  <2>1. PICK c : /\ files' = [files EXCEPT ![local[t]] = c]
                 /\ c \in {Head(value[t]), Garbage}
    BY <1>6 DEF FillTemp
  <2>2. QED  BY <1>6, <2>1 DEF FillTemp, At, Goto, HoldsCheckpoint
<1>7. ASSUME NEW t \in Threads, ReplacePath(t)
      PROVE  /\ \A f \in Files : files'[f] \in {files[f], Empty}
             /\ value' = value
             /\ \A u \in Threads : pc'[u] \in HoldsCheckpoint => pc[u] \in HoldsCheckpoint
  <2>1. pc[t] \in SaveSteps
    BY <1>7 DEF ReplacePath, At, SaveSteps
  <2>2. /\ \A u \in Threads \ {t} : pc'[u] = pc[u]
        /\ pc'[t] \in {"count", "leave", "complete", "close", "check", "snapshot"}
    BY <1>7, <2>1, NextTask DEF ReplacePath, Continue, Threads
  <2>3. QED  BY <1>7, <2>2 DEF ReplacePath, HoldsCheckpoint
<1>8. QED
  BY <1>1, <1>2, <1>3, <1>4, <1>5, <1>6, <1>7, QuietFilesOrFileStep DEF FileStep
--------------------------------------------------------------------------------
(***************************************************************************)
(* Unless join() or a second signal ends the wait, the apply thread ends    *)
(* before the main thread goes on.                                          *)
(***************************************************************************)
FlushOrSave(t) ==
  \/ CheckBytes(t) \/ GetValue(t) \/ Write(t) \/ Reset(t) \/ Zero(t) \/ Hook(t)
  \/ Snapshot(t) \/ BeginBackup(t) \/ CopyBackup(t)
  \/ OpenTemp(t) \/ FillTemp(t) \/ ReplacePath(t) \/ ReplaceFails(t)

ApplyStep ==
  \/ TakeRow \/ ApplyEnds \/ LoadBuffer \/ Put \/ LoadBytes \/ StoreBytes \/ CountRow
  \/ WriteToClosed \/ FlushOrSave("apply")

MainStep ==
  Signal \/ LeaveLoop \/ Join \/ Close \/ Complete \/ Exit \/ FlushOrSave("main")

HandlerStep == SecondSignal \/ RaiseSystemExit \/ FlushOrSave("handler")

LEMMA WhoSteps ==
  ASSUME Next
  PROVE  ApplyStep \/ MainStep \/ HandlerStep
BY DEF Next, ApplyStep, MainStep, HandlerStep, FlushOrSave, Threads

LEMMA FlushOrSaveMoves ==
  ASSUME Control, NEW t \in Threads, FlushOrSave(t)
  PROVE  /\ pc[t] \in FlushSteps \cup SaveSteps
         /\ \A u \in Threads \ {t} : pc'[u] = pc[u]
         /\ pc'[t] \in FlushSteps \cup SaveSteps
                      \cup {"count", "dead", "leave", "complete", "close"}
         /\ t = "apply" => pc'[t] \in (FlushSteps \ {"check"}) \cup SaveSteps \cup {"count", "dead"}
         /\ pc'[t] = "dead" => ReplaceFails(t)
         /\ UNCHANGED <<kept, row, stop, closed, expired>>
<1> USE ThreadSet DEF Control, Typed, FlushSteps, SaveSteps, At, Goto, sinkVars, mergeVars,
                      diskVars, histVars
<1>1. CASE \/ CheckBytes(t) \/ GetValue(t) \/ Write(t) \/ Reset(t) \/ Zero(t)
  BY <1>1 DEF CheckBytes, GetValue, Write, Reset, Zero
<1>2. CASE Hook(t)
  BY <1>2, NextTask DEF Hook, Continue, Threads
<1>3. CASE Snapshot(t) \/ BeginBackup(t) \/ CopyBackup(t)
  BY <1>3 DEF Snapshot, BeginBackup, CopyBackup
<1>4. CASE OpenTemp(t) \/ FillTemp(t)
  BY <1>4 DEF OpenTemp, FillTemp
<1>5. CASE ReplacePath(t)
  BY <1>5, NextTask DEF ReplacePath, Continue, Threads
<1>6. CASE ReplaceFails(t)
  <2>1. pc[t] = "replace" /\ UNCHANGED <<kept, row, stop, closed, expired>>
    BY <1>6 DEF ReplaceFails
  <2>2. CASE t = "apply"
    BY <1>6, <2>1, <2>2 DEF ReplaceFails
  <2>3. CASE t = "main"
    BY <1>6, <2>1, <2>3, AbortSteps DEF ReplaceFails, Continue
  <2>4. CASE t = "handler"
    BY <1>6, <2>1, <2>4, NextTask DEF ReplaceFails, Continue
  <2>5. QED  BY <2>2, <2>3, <2>4 DEF Threads
<1>7. QED  BY <1>1, <1>2, <1>3, <1>4, <1>5, <1>6 DEF FlushOrSave

\* Nobody else is in a flush, a row or a save.
Alone(t) == ~Others(t, InFlush) /\ ~Others(t, InRow) /\ ~Others(t, InSave)

LEMMA AloneNoClash ==
  ASSUME NEW t \in Threads, Alone(t), FlushOrSave(t)
  PROVE  clashes' = clashes
<1>1. CASE CheckBytes(t)
  BY <1>1 DEF CheckBytes, Alone
<1>2. CASE BeginBackup(t)
  BY <1>2 DEF BeginBackup, Note, Alone
<1>3. CASE ~CheckBytes(t) /\ ~BeginBackup(t)
  BY <1>3
  DEF FlushOrSave, GetValue, Write, Reset, Zero, Hook, Snapshot, CopyBackup, OpenTemp,
      FillTemp, ReplacePath, ReplaceFails, histVars
<1>4. QED  BY <1>1, <1>2, <1>3

\* What the steps of the three threads do to what the order depends on.
LEMMA ApplyStepMoves ==
  ASSUME Control, ApplyStep
  PROVE  /\ pc'["main"] = pc["main"] /\ pc'["handler"] = pc["handler"]
         /\ pc["apply"] \notin {"done", "dead"}
         /\ pc'["apply"] = "done" => ApplyEnds
         /\ pc'["apply"] = "dead" => WriteToClosed \/ ReplaceFails("apply")
         /\ pc'["apply"] = "check" => StoreBytes
         /\ UNCHANGED <<stop, expired, closed>>
         /\ Alone("apply") => clashes' = clashes
<1> USE ThreadSet DEF Control, Typed, At, Goto, sinkVars, mergeVars, histVars
<1>1. CASE TakeRow \/ ApplyEnds \/ CountRow \/ WriteToClosed
  BY <1>1 DEF TakeRow, ApplyEnds, CountRow, WriteToClosed
<1>2. CASE LoadBuffer \/ Put \/ LoadBytes
  BY <1>2 DEF LoadBuffer, Put, LoadBytes, Note, Alone
<1>3. CASE StoreBytes
  BY <1>3, OtherTodos DEF StoreBytes, Continue
<1>4. CASE FlushOrSave("apply")
  BY <1>4, FlushOrSaveMoves, AloneNoClash DEF FlushSteps, SaveSteps
<1>5. QED  BY <1>1, <1>2, <1>3, <1>4 DEF ApplyStep

LEMMA MainStepMoves ==
  ASSUME Control, MainStep
  PROVE  /\ pc'["apply"] = pc["apply"] /\ pc'["handler"] = pc["handler"]
         /\ UNCHANGED <<kept, row>>
         /\ stop => stop'
         /\ pc["main"] \in {"loop", "join"} =>
              /\ Signal \/ LeaveLoop \/ Join
              /\ pc'["main"] \in {"loop", "join"} \/ Join
         /\ pc["main"] \notin {"loop", "join"} => pc'["main"] \notin {"loop", "join"}
         /\ expired' = expired \/ Join
         /\ Alone("main") \/ pc["main"] \in {"loop", "join"} => clashes' = clashes
<1> USE ThreadSet DEF Control, Typed, At, Goto, sinkVars, mergeVars, threadVars, histVars
<1>1. CASE Signal \/ LeaveLoop \/ Exit
  BY <1>1 DEF Signal, LeaveLoop, Exit
<1>2. CASE Join
  BY <1>2, EndSteps DEF Join, Continue
<1>3. CASE Close
  BY <1>3, TodoStep DEF Close, Continue, MainControl
<1>4. CASE Complete
  BY <1>4 DEF Complete
<1>5. CASE FlushOrSave("main")
  BY <1>5, FlushOrSaveMoves, AloneNoClash DEF FlushSteps, SaveSteps
<1>6. QED  BY <1>1, <1>2, <1>3, <1>4, <1>5 DEF MainStep

LEMMA HandlerStepMoves ==
  ASSUME Control, HandlerStep
  PROVE  /\ pc'["apply"] = pc["apply"] /\ pc'["handler"] # "none"
         /\ UNCHANGED <<kept, row, expired>>
<1> USE ThreadSet DEF Control, Typed, At, sinkVars, mergeVars, threadVars, histVars
<1>1. CASE SecondSignal
  BY <1>1 DEF SecondSignal, Steps
<1>2. CASE RaiseSystemExit
  BY <1>2 DEF RaiseSystemExit
<1>3. CASE FlushOrSave("handler")
  BY <1>3, FlushOrSaveMoves DEF FlushSteps, SaveSteps
<1>4. QED  BY <1>1, <1>2, <1>3 DEF HandlerStep

LEMMA NotExpiredBefore ==
  ASSUME Control, Next, ~expired'
  PROVE  ~expired
<1>1. CASE Join
  BY <1>1 DEF Join, At, Control, MainControl
<1>2. CASE ~Join
  BY <1>2, WhoSteps, ApplyStepMoves, MainStepMoves, HandlerStepMoves
<1>3. QED  BY <1>1, <1>2

LEMMA OrderedBefore ==
  ASSUME Control, Next, Ordered'
  PROVE  Ordered /\ (ApplyStep \/ MainStep)
BY WhoSteps, ApplyStepMoves, MainStepMoves, HandlerStepMoves, NotExpiredBefore DEF Ordered

LEMMA AfterApplyStep ==
  ASSUME Control, FilesInOrder, Ordered, AfterApply, ApplyStep \/ MainStep, Ordered'
  PROVE  AfterApply'
<1> USE ThreadSet
<1>1. CASE ApplyStep
  <2>1. pc["main"] \in {"loop", "join"} /\ pc["handler"] = "none" /\ ~closed
    BY <1>1, ApplyStepMoves DEF AfterApply, Ordered, Control, MainControl
  <2>2. Alone("apply")
    BY <2>1 DEF Alone, Others, InFlush, InRow, InSave, Threads
  <2>3. pc'["apply"] # "dead"
    BY <1>1, <2>1, ApplyStepMoves, ReplaceSucceeds DEF WriteToClosed
  <2>4. pc'["apply"] = "done" => row' > Rows \/ stop'
    BY <1>1, ApplyStepMoves DEF ApplyEnds, mergeVars
  <2>5. QED  BY <1>1, <2>1, <2>2, <2>3, <2>4, ApplyStepMoves DEF AfterApply
<1>2. CASE MainStep
  <2>1. pc["main"] \notin {"loop", "join"} => Alone("main")
    BY DEF AfterApply, Ordered, Alone, Others, InFlush, InRow, InSave, Threads
  <2>2. clashes' = {}
    BY <1>2, <2>1, MainStepMoves DEF AfterApply
  <2>3. Join => pc["apply"] = "done"
    BY DEF Join, AfterApply, Ordered
  <2>4. QED  BY <1>2, <2>2, <2>3, MainStepMoves DEF AfterApply
<1>3. QED  BY <1>1, <1>2

\* The threads that have a buffer behind them that is empty.
Flushed == {"zero", "hook"} \cup SaveSteps
MainFlushed == Flushed \cup {"close", "complete", "leave", "exited"}

LEMMA FlushedBefore ==
  ASSUME Control, NEW t \in Threads, FlushOrSave(t), pc'[t] \in MainFlushed
  PROVE  \/ Reset(t) /\ buffer' = <<>>
         \/ CheckBytes(t) /\ bytes = 0 /\ buffer' = buffer
         \/ pc[t] \in Flushed /\ buffer' = buffer
<1> USE DEF Flushed, MainFlushed, SaveSteps, Control, Typed, At, Goto, sinkVars
<1>1. CASE CheckBytes(t) \/ GetValue(t) \/ Write(t) \/ Reset(t) \/ Zero(t)
  BY <1>1 DEF CheckBytes, GetValue, Write, Reset, Zero
<1>2. CASE ~(CheckBytes(t) \/ GetValue(t) \/ Write(t) \/ Reset(t) \/ Zero(t))
  BY <1>2
  DEF FlushOrSave, Hook, Snapshot, BeginBackup, CopyBackup, OpenTemp, FillTemp,
      ReplacePath, ReplaceFails
<1>3. QED  BY <1>1, <1>2

LEMMA AfterFlushStep ==
  ASSUME Control, BytesCounted, Ordered, AfterApply, AfterFlush, ApplyStep \/ MainStep
  PROVE  AfterFlush'
<1> USE ThreadSet
<1>1. CASE ApplyStep
  <2>1. pc["main"] \in {"loop", "join"} /\ pc'["main"] = pc["main"]
    BY <1>1, ApplyStepMoves DEF AfterApply
  <2>2. pc'["apply"] = "check" => bytes' > 0
    <3>1. StoreBytes /\ pc'["apply"] = "check" => bytes' >= Limit
      BY OtherTodos DEF StoreBytes, Continue, Control, Typed
    <3>2. StoreBytes => bytes' \in Nat
      BY DEF StoreBytes, Control, ValuesTyped, At
    <3>3. QED  BY <1>1, <3>1, <3>2, ApplyStepMoves, CountsTyped
  <2>3. pc'["apply"] \in Flushed => buffer' = <<>>
    <3>1. CASE FlushOrSave("apply")
      BY <3>1, FlushedBefore
      DEF AfterFlush, CheckBytes, At, Flushed, MainFlushed, Control, Typed
    <3>2. CASE ~FlushOrSave("apply")
      BY <1>1, <3>2, OtherTodos
      DEF ApplyStep, TakeRow, ApplyEnds, LoadBuffer, Put, LoadBytes, StoreBytes, CountRow,
          WriteToClosed, Goto, Continue, Flushed, SaveSteps, Control, Typed
    <3>3. QED  BY <3>1, <3>2
  <2>4. QED  BY <2>1, <2>2, <2>3 DEF AfterFlush, Flushed, SaveSteps
<1>2. CASE MainStep /\ pc["main"] \in {"loop", "join"}
  <2>1. Signal \/ LeaveLoop \/ Join
    BY <1>2, MainStepMoves
  <2>2. UNCHANGED <<buffer, bytes>> /\ pc'["apply"] = pc["apply"]
    BY <1>2, <2>1, MainStepMoves DEF Signal, LeaveLoop, Join, sinkVars
  <2>3. pc'["main"] \in {"loop", "join", "check"}
    BY <1>2, <2>1, EndSteps
    DEF Signal, LeaveLoop, Join, Goto, Continue, threadVars, Control, Typed
  <2>4. QED  BY <2>2, <2>3 DEF AfterFlush, SaveSteps
<1>3. CASE MainStep /\ pc["main"] \notin {"loop", "join"}
  <2>1. pc["apply"] = "done" /\ pc'["apply"] = "done"
    BY <1>3, MainStepMoves DEF AfterApply
  <2>2. CASE FlushOrSave("main")
    <3>1. \A t \in Threads : pc["main"] = "check" => pc[t] # "zero"
      BY <2>1 DEF Ordered, Threads
    <3>2. CheckBytes("main") /\ bytes = 0 => buffer = <<>>
      <4>1. CheckBytes("main") /\ bytes = 0 => Len(buffer) = 0 /\ buffer \in Seq(Nat)
        BY <2>1, <3>1 DEF CheckBytes, At, BytesCounted, Control, Typed
      <4>2. QED  BY <4>1
    <3>3. pc'["main"] \in MainFlushed => buffer' = <<>>
      BY <2>2, <3>2, FlushedBefore DEF AfterFlush, Flushed
    <3>4. QED  BY <2>1, <3>3 DEF AfterFlush, MainFlushed, Flushed, SaveSteps
  <2>3. CASE ~FlushOrSave("main")
    <3>1. buffer' = buffer
      BY <1>3, <2>3 DEF MainStep, Signal, LeaveLoop, Join, Close, Complete, Exit, sinkVars
    <3>2. /\ ~LeaveLoop /\ ~Join
          /\ pc["main"] \in {"close", "complete", "leave"} \/ Signal
      BY <1>3, <2>3 DEF MainStep, LeaveLoop, Join, Close, Complete, Exit, At
    <3>3. Signal => pc' = pc
      BY DEF Signal, threadVars
    <3>4. QED  BY <2>1, <3>1, <3>2, <3>3 DEF AfterFlush, SaveSteps
  <2>4. QED  BY <2>2, <2>3
<1>4. QED  BY <1>1, <1>2, <1>3
--------------------------------------------------------------------------------
(***************************************************************************)
(* The checkpoint follows the output.                                       *)
(***************************************************************************)
LEMMA OutputGrows ==
  ASSUME Control, OneFlush, [Next]_vars
  PROVE  Len(out') \in Nat /\ Len(out) \in Nat /\ Len(out) <= Len(out')
<1>1. out \in Seq(Nat) /\ Len(out) \in Nat
  BY DEF Control, Typed
<1>2. CASE out' = out
  BY <1>1, <1>2
<1>3. ASSUME NEW t \in Threads, Write(t)
      PROVE  Len(out') \in Nat /\ Len(out) <= Len(out')
  <2>1. out' = out \o value[t] /\ value[t] \in Seq(Nat)
    BY <1>3 DEF Write, At, Control, ValuesTyped
  <2>2. Len(value[t]) \in Nat /\ Len(out') = Len(out) + Len(value[t])
    BY <1>1, <2>1, ConcatProperties
  <2>3. QED  BY <1>1, <2>2
<1>4. CASE Quiet
  BY <1>2, <1>4 DEF Quiet
<1>5. CASE LoadBuffer \/ Put \/ LoadBytes \/ StoreBytes
  BY <1>2, <1>5 DEF LoadBuffer, Put, LoadBytes, StoreBytes, sinkVars
<1>6. ASSUME NEW t \in Threads, CheckBytes(t) \/ GetValue(t) \/ Reset(t) \/ Zero(t)
      PROVE  out' = out
  BY <1>6 DEF CheckBytes, GetValue, Reset, Zero, sinkVars
<1>7. QED  BY <1>1, <1>2, <1>3, <1>4, <1>5, <1>6, QuietOrRowStep DEF RowStep

\* What is counted is in the output when a checkpoint is taken.
LEMMA SnapshotNotAhead ==
  ASSUME Control, AllRowsThere, Ordered, AfterApply, AfterFlush, NEW t \in Threads,
         pc[t] = "snapshot" \/ (t = "main" /\ pc[t] = "complete")
  PROVE  out = Upto(Written) /\ kept <= Len(out)
<1>1. \A u \in Threads : pc[u] # "reset"
  BY ThreadSet DEF Ordered, AfterApply, Threads
<1>2. buffer = <<>>
  BY DEF Ordered, AfterFlush, SaveSteps, Threads
<1>3. out \o buffer = out
  BY <1>2, ConcatEmptySeq DEF Control, Typed
<1>4. out = Upto(Written)
  BY <1>1, <1>3 DEF AllRowsThere
<1>5. Written \in Nat /\ kept <= Written
  BY WrittenTyped DEF Control
<1>6. QED  BY <1>4, <1>5, UptoTyped

LEMMA NotAheadStep ==
  ASSUME Control, OneFlush, AllRowsThere, Ordered, AfterApply, AfterFlush, NotAhead, Next
  PROVE  NotAhead'
<1>1. Len(out') \in Nat /\ Len(out) \in Nat /\ Len(out) <= Len(out')
  BY OutputGrows
<1>2. /\ \A f \in Files : files[f].kept \in Nat
      /\ \A t \in Threads : pc[t] \in HoldsCheckpoint =>
           \E c \in FileContents : value[t] = <<c>>
  BY DEF Control, Typed, ValuesTyped, FileContents
<1>3. \A t \in Threads : pc[t] \in HoldsCheckpoint => Head(value[t]).kept \in Nat
  <2>1. \A c \in FileContents : c.kept \in Nat /\ Head(<<c>>) = c
    BY DEF FileContents
  <2>2. QED  BY <1>2, <2>1
<1>4. kept \in Nat
  BY WrittenTyped DEF Control
<1>5. ASSUME NEW f \in Files
      PROVE  files'[f].kept <= Len(out')
  <2>1. CASE files'[f] = files[f]
    BY <1>1, <1>2, <2>1 DEF NotAhead
  <2>2. CASE files'[f] \in {Empty, Garbage}
    BY <1>1, <2>2 DEF Empty, Garbage
  <2>3. ASSUME NEW t \in Threads, pc[t] = "fill", files'[f] = Head(value[t])
        PROVE  files'[f].kept <= Len(out')
    BY <1>1, <1>3, <2>3 DEF NotAhead, HoldsCheckpoint
  <2>4. QED  BY <2>1, <2>2, <2>3, CheckpointsPassedOn
<1>6. ASSUME NEW t \in Threads, pc'[t] \in HoldsCheckpoint
      PROVE  Head(value'[t]).kept <= Len(out')
  <2>1. CASE pc[t] \in HoldsCheckpoint /\ value'[t] = value[t]
    BY <1>1, <1>3, <2>1 DEF NotAhead
  <2>2. CASE Snapshot(t)
    <3>1. pc[t] = "snapshot" /\ value'[t] = <<Checkpoint(kept, FALSE)>>
      BY <2>2 DEF Snapshot, At, Control, Typed
    <3>2. Head(value'[t]).kept = kept
      <4>1. /\ Head(<<Checkpoint(kept, FALSE)>>) = Checkpoint(kept, FALSE)
            /\ Checkpoint(kept, FALSE).kept = kept
        BY <1>4, CheckpointTyped
      <4>2. QED  BY <3>1, <4>1
    <3>3. kept <= Len(out)
      BY <3>1, SnapshotNotAhead
    <3>4. QED  BY <1>1, <1>4, <3>2, <3>3
  <2>3. CASE t = "main" /\ Complete
    <3>1. /\ pc[t] = "complete"
          /\ pc'[t] = "leave" \/ value'[t] = <<Checkpoint(kept, TRUE)>>
      BY <2>3, ThreadSet DEF Complete, At, Goto, Control, Typed
    <3>2. value'[t] = <<Checkpoint(kept, TRUE)>>
      BY <1>6, <3>1 DEF HoldsCheckpoint
    <3>3. Head(value'[t]).kept = kept
      BY <1>4, <3>2, CheckpointTyped
    <3>4. kept <= Len(out)
      BY <2>3, <3>1, SnapshotNotAhead
    <3>5. QED  BY <1>1, <1>4, <3>3, <3>4
  <2>4. QED  BY <1>6, <2>1, <2>2, <2>3, CheckpointsPassedOn
<1>7. QED  BY <1>5, <1>6 DEF NotAhead
--------------------------------------------------------------------------------
(***************************************************************************)
(* A merge that is complete has written its rows.                           *)
(***************************************************************************)
LEMMA SaysCompleteBefore ==
  ASSUME Control, Next, SaysComplete'
  PROVE  SaysComplete \/ (Complete /\ ~stop /\ Accounted)
<1>1. Empty.complete = FALSE /\ Garbage.complete = FALSE
  BY DEF Empty, Garbage
<1>2. ASSUME NEW f \in Files, files'[f].complete
      PROVE  SaysComplete
  BY <1>1, <1>2, CheckpointsPassedOn DEF SaysComplete, HoldsCheckpoint
<1>3. ASSUME NEW t \in Threads, pc'[t] \in HoldsCheckpoint, Head(value'[t]).complete
      PROVE  SaysComplete \/ (Complete /\ ~stop /\ Accounted)
  <2>1. CASE pc[t] \in HoldsCheckpoint /\ value'[t] = value[t]
    BY <1>3, <2>1 DEF SaysComplete
  <2>2. CASE Snapshot(t)
    <3>1. value'[t] = <<Checkpoint(kept, FALSE)>> /\ kept \in Nat
      BY <2>2, WrittenTyped DEF Snapshot, Control, Typed
    <3>2. ~Head(value'[t]).complete
      BY <3>1, CheckpointTyped
    <3>3. QED  BY <1>3, <3>2
  <2>3. CASE t = "main" /\ Complete
    BY <1>3, <2>3, ThreadSet DEF Complete, Goto, HoldsCheckpoint, Control, Typed
  <2>4. QED  BY <1>3, <2>1, <2>2, <2>3, CheckpointsPassedOn
<1>4. QED  BY <1>2, <1>3 DEF SaysComplete

LEMMA CompleteAllDone ==
  ASSUME Control, AllRowsThere, BytesCounted, ~expired, Ordered => AfterApply /\ AfterFlush,
         Complete, ~stop
  PROVE  AllDone
<1>1. pc["main"] = "complete" /\ Ordered
  BY DEF Complete, At, Ordered, Control, HandlerControl
<1>2. pc["apply"] = "done" /\ row > Rows /\ buffer = <<>>
  BY <1>1 DEF AfterApply, AfterFlush
<1>3. kept = Rows /\ Written = Rows
  BY <1>2, CountsTyped DEF Control, Typed, Written
<1>4. out = Upto(Rows)
  BY <1>1, <1>3, ThreadSet, SnapshotNotAhead
<1>5. \A t \in Threads : pc[t] \notin InFlush
  BY <1>1, <1>2 DEF Ordered, InFlush, Threads
<1>6. bytes = Len(buffer)
  BY <1>2, <1>5 DEF BytesCounted, InFlush
<1>7. QED  BY <1>2, <1>3, <1>4, <1>5, <1>6 DEF AllDone

LEMMA AllDoneStep ==
  ASSUME Control, AllDone, Next
  PROVE  AllDone'
<1>1. OneFlush
  BY ThreadSet DEF AllDone, OneFlush
<1>2. ~ApplyStep
  BY ApplyStepMoves DEF AllDone
<1>3. pc'["apply"] = "done" /\ kept' = kept
  BY <1>2, WhoSteps, MainStepMoves, HandlerStepMoves DEF AllDone
<1>4. CASE Quiet
  BY <1>3, <1>4 DEF Quiet, AllDone
<1>5. ASSUME NEW t \in Threads, CheckBytes(t)
      PROVE  AllDone'
  BY <1>3, <1>5 DEF CheckBytes, At, Goto, sinkVars, AllDone, InFlush, Control, Typed
<1>6. \A t \in Threads : ~(GetValue(t) \/ Write(t) \/ Reset(t) \/ Zero(t))
  BY DEF GetValue, Write, Reset, Zero, At, AllDone, InFlush
<1>7. QED
  BY <1>1, <1>2, <1>4, <1>5, <1>6, QuietOrRowStep DEF RowStep, ApplyStep
--------------------------------------------------------------------------------
(***************************************************************************)
(* The inductive invariant.                                                 *)
(***************************************************************************)
LEMMA InitIInv == Init => IInv
<1> SUFFICES ASSUME Init PROVE IInv
  OBVIOUS
<1>1. Control
  BY InitControl
<1>2. /\ pc["apply"] = "row" /\ pc["main"] = "loop" /\ pc["handler"] = "none"
      /\ \A t \in Threads : pc[t] \in {"row", "loop", "none"}
  BY DEF Init, Threads
<1>3. /\ buffer = <<>> /\ out = <<>> /\ bytes = 0 /\ clashes = {} /\ kept = 0
      /\ path = None /\ files = [f \in Files |-> Empty]
  BY DEF Init
<1>4. OneFlush /\ RowsOrFlush /\ OneSave
  BY <1>2 DEF OneFlush, RowsOrFlush, OneSave, InFlush, Saving
<1>5. out \o buffer = <<>> /\ Written = 0
  BY <1>2, <1>3 DEF Written
<1>6. Upto(0) = <<>>
  BY DEF Upto
<1>7. RowsInOrder
  BY <1>2, <1>3, <1>5 DEF RowsInOrder, Increasing, UpTo
<1>8. AllRowsThere
  BY <1>2, <1>5, <1>6 DEF AllRowsThere
<1>9. BytesCounted
  BY <1>2, <1>3 DEF BytesCounted
<1>10. FilesInOrder
  BY <1>2, <1>3 DEF FilesInOrder
<1>11. AfterApply /\ AfterFlush
  BY <1>2, <1>3 DEF AfterApply, AfterFlush, SaveSteps
<1>12. NotAhead /\ ~SaysComplete
  BY <1>2, <1>3 DEF NotAhead, SaysComplete, HoldsCheckpoint, Empty
<1>13. QED
  BY <1>1, <1>4, <1>7, <1>8, <1>9, <1>10, <1>11, <1>12 DEF IInv

LEMMA ClashesGrow ==
  ASSUME Control, [Next]_vars
  PROVE  clashes \subseteq clashes'
<1>1. CASE QuietFiles
  BY <1>1 DEF QuietFiles
<1>2. CASE FileStep
  BY <1>2
  DEF FileStep, Complete, Snapshot, BeginBackup, OpenTemp, FillTemp, ReplacePath, Note, histVars
<1>3. QED  BY <1>1, <1>2, QuietFilesOrFileStep

LEMMA NextIInv == IInv /\ [Next]_vars => IInv'
<1> SUFFICES ASSUME IInv, [Next]_vars PROVE IInv'
  OBVIOUS
<1>1. Control /\ Control'
  BY NextControl DEF IInv
<1>2. clashes \subseteq clashes'
  BY <1>1, ClashesGrow
<1>3. ASSUME "flush" \notin clashes'
      PROVE  OneFlush' /\ RowsInOrder'
  BY <1>1, <1>2, <1>3, OneFlushStep, RowsInOrderStep DEF IInv
<1>4. ASSUME clashes' \cap {"flush", "row"} = {}
      PROVE  RowsOrFlush' /\ AllRowsThere' /\ BytesCounted'
  <2>1. OneFlush /\ RowsOrFlush /\ AllRowsThere /\ BytesCounted
    BY <1>2, <1>4 DEF IInv
  <2>2. QED
    BY <1>1, <1>4, <2>1, RowsOrFlushStep, AllRowsThereStep, BytesCountedStep
<1>5. ASSUME "save" \notin clashes'
      PROVE  OneSave' /\ FilesInOrder'
  BY <1>1, <1>2, <1>5, OneSaveStep, FilesInOrderStep DEF IInv
<1>6. ASSUME Ordered', Next
      PROVE  AfterApply' /\ AfterFlush' /\ NotAhead'
  <2>1. Ordered /\ (ApplyStep \/ MainStep)
    BY <1>1, <1>6, OrderedBefore
  <2>2. /\ AfterApply /\ AfterFlush /\ NotAhead
        /\ OneFlush /\ AllRowsThere /\ BytesCounted /\ FilesInOrder
    BY <2>1 DEF IInv, AfterApply
  <2>3. QED  BY <1>1, <1>6, <2>1, <2>2, AfterApplyStep, AfterFlushStep, NotAheadStep
<1>7. ASSUME ~expired', SaysComplete', Next
      PROVE  AllDone'
  <2>1. ~expired
    BY <1>1, <1>7, NotExpiredBefore
  <2>2. CASE SaysComplete
    BY <1>1, <1>7, <2>1, <2>2, AllDoneStep DEF IInv
  <2>3. CASE Complete /\ ~stop /\ Accounted
    <3>1. Ordered
      BY <1>1, <2>1, <2>3 DEF Ordered, Control, HandlerControl
    <3>2. AllRowsThere /\ BytesCounted /\ AfterApply /\ AfterFlush
      BY <3>1 DEF IInv, AfterApply
    <3>3. AllDone
      BY <1>1, <2>1, <2>3, <3>2, CompleteAllDone
    <3>4. QED  BY <1>1, <1>7, <3>3, AllDoneStep
  <2>4. QED  BY <1>1, <1>7, <2>2, <2>3, SaysCompleteBefore
<1>8. CASE UNCHANGED vars
  BY <1>1, <1>3, <1>4, <1>5, <1>8
  DEF IInv, vars, sinkVars, mergeVars, diskVars, threadVars, histVars, Ordered, AfterApply,
      AfterFlush, NotAhead, SaysComplete, AllDone
<1>9. QED  BY <1>1, <1>3, <1>4, <1>5, <1>6, <1>7, <1>8 DEF IInv
--------------------------------------------------------------------------------
LEMMA InvariantHolds == Spec => []IInv
BY InitIInv, NextIInv, PTL DEF Spec

(* Rows of one run are in the output in order and once, as long as no two   *)
(* threads are in BufferedJsonlWriter.flush at the same time.               *)
THEOREM RowsOnce == Spec => []NoRowTwice
<1>1. IInv => NoRowTwice
  BY DEF IInv, NoRowTwice, RowsInOrder, Increasing
<1>2. QED  BY <1>1, InvariantHolds, PTL

(* A row that write_merge_chunks has counted is in the output, in the       *)
(* buffer or in a flush, and at the end in the output, under the conditions *)
(* CountedRowsArrive names.                                                 *)
THEOREM CountedRows == Spec => []CountedRowsArrive
<1>1. ASSUME IInv
      PROVE  CountedRowsArrive
  <2> SUFFICES ASSUME clashes \cap {"flush", "row"} = {}
               PROVE  /\ 1 .. kept \subseteq Range(out) \cup OnTheWay
                      /\ pc["main"] = "exited" /\ ~expired /\ pc["handler"] = "none" =>
                           1 .. kept \subseteq Range(out)
    BY DEF CountedRowsArrive
  <2>1. Control /\ AllRowsThere
    BY <1>1 DEF IInv
  <2>2. /\ out \in Seq(Nat) /\ buffer \in Seq(Nat) /\ kept \in Nat
        /\ Written \in Nat /\ kept <= Written
    BY <2>1, WrittenTyped DEF Control, Typed
  <2>3. ASSUME out = Upto(Written)
        PROVE  1 .. kept \subseteq Range(out)
    <3>1. Len(out) = Written /\ \A i \in 1 .. Written : out[i] = i
      BY <2>2, <2>3, UptoTyped
    <3>2. \A i \in 1 .. kept : i \in DOMAIN out /\ out[i] = i
      BY <2>2, <3>1
    <3>3. QED  BY <3>2 DEF Range
  <2>4. ASSUME out \o buffer = Upto(Written), NEW i \in 1 .. kept
        PROVE  i \in Range(out) \cup Range(buffer)
    <3>1. /\ Len(out \o buffer) = Len(out) + Len(buffer)
          /\ \A j \in 1 .. Len(out) : (out \o buffer)[j] = out[j]
          /\ \A j \in (Len(out) + 1) .. (Len(out) + Len(buffer)) :
               (out \o buffer)[j] = buffer[j - Len(out)]
      BY <2>2, ConcatProperties
    <3>2. i \in 1 .. Len(out) + Len(buffer) /\ (out \o buffer)[i] = i
      <4>1. Len(Upto(Written)) = Written /\ \A j \in 1 .. Written : Upto(Written)[j] = j
        BY <2>2, UptoTyped
      <4>2. i \in 1 .. Written
        BY <2>2
      <4>3. QED  BY <2>4, <3>1, <4>1, <4>2
    <3>3. CASE i <= Len(out)
      BY <2>2, <3>1, <3>2, <3>3 DEF Range
    <3>4. CASE i > Len(out)
      <4>1. i - Len(out) \in DOMAIN buffer /\ buffer[i - Len(out)] = i
        BY <2>2, <3>1, <3>2, <3>4
      <4>2. QED  BY <4>1 DEF Range
    <3>5. QED  BY <2>2, <3>3, <3>4
  <2>5. 1 .. kept \subseteq Range(out) \cup OnTheWay
    BY <2>1, <2>3, <2>4 DEF AllRowsThere, OnTheWay
  <2>6. ASSUME pc["main"] = "exited", ~expired, pc["handler"] = "none"
        PROVE  1 .. kept \subseteq Range(out)
    <3>1. pc["apply"] = "done" /\ buffer = <<>>
      BY <1>1, <2>6 DEF IInv, Ordered, AfterApply, AfterFlush
    <3>2. \A t \in Threads : pc[t] # "reset"
      BY <2>6, <3>1 DEF Threads
    <3>3. out \o buffer = out
      BY <2>2, <3>1, ConcatEmptySeq
    <3>4. QED  BY <2>1, <2>3, <3>2, <3>3 DEF AllRowsThere
  <2>7. QED  BY <2>5, <2>6
<1>2. QED  BY <1>1, InvariantHolds, PTL

(* At every instant at which the process may be killed one of checkpoint    *)
(* and backup can be read, as long as no two threads are in                 *)
(* MergeCheckpoint.save at the same time.                                   *)
THEOREM OneIsReadable == Spec => []CheckpointReadable
<1>1. IInv => CheckpointReadable
  BY DEF IInv, CheckpointReadable, FilesInOrder, Saved
<1>2. QED  BY <1>1, InvariantHolds, PTL

(* A checkpoint never counts rows that are not in the output, as long as    *)
(* the apply thread was joined.                                             *)
THEOREM NeverAhead == Spec => []CheckpointNotAhead
<1>1. ASSUME IInv
      PROVE  CheckpointNotAhead
  <2>1. out \in Seq(Nat) /\ path \in Files \cup {None}
    BY <1>1 DEF IInv, Control, Typed
  <2>2. Ordered => Saved.kept <= Len(out)
    BY <1>1, <2>1 DEF IInv, NotAhead, Saved, Empty
  <2>3. QED  BY <2>2 DEF CheckpointNotAhead, Ordered
<1>2. QED  BY <1>1, InvariantHolds, PTL

(* mark_merge_complete is only reached with every row in the output, as     *)
(* long as the apply thread was joined; whatever signals arrive.            *)
THEOREM CompleteIsAll == Spec => []CompleteHasAllRows
<1>1. ASSUME IInv
      PROVE  CompleteHasAllRows
  <2>1. path \in Files \cup {None}
    BY <1>1 DEF IInv, Control, Typed
  <2>2. Saved.complete => SaysComplete
    BY <2>1 DEF Saved, SaysComplete, Empty
  <2>3. QED  BY <1>1, <2>2 DEF IInv, AllDone, CompleteHasAllRows, Upto
<1>2. QED  BY <1>1, InvariantHolds, PTL
================================================================================
