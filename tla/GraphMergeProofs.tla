---------------------------- MODULE GraphMergeProofs ----------------------------
(***************************************************************************)
(* Proofs about the merge graph for any number of lines, any sizes of       *)
(* batches, queues, lanes and buffers, and any faults, in three parts:      *)
(*   - no line is lost or doubled on its way, and the scheduler uses the    *)
(*     apply coordinator as module ApplyCoordinator says, so that what is   *)
(*     proved there holds here;                                             *)
(*   - how a run ends: what "complete" means of the output, and that only   *)
(*     the head the output waits for may exceed the limit of its lane;      *)
(*   - backpressure, which is only tested before work is started, bounds    *)
(*     the reorder buffer and the lanes: what is in flight when a test      *)
(*     succeeds was counted into tables of limited length.                  *)
(***************************************************************************)
EXTENDS GraphMerge, FiniteSetTheorems, FunctionTheorems, TLAPS

--------------------------------------------------------------------------------
(***************************************************************************)
(* Where every line is.                                                     *)
(***************************************************************************)

\* Two tasks of a table, and two batches in the queue, share no line.
TableApart(tasks) ==
  \A i, j \in DOMAIN tasks : i # j => tasks[i].lines \cap tasks[j].lines = {}

QueueApart ==
  \A i, j \in DOMAIN readQueue : i # j => readQueue[i] \cap readQueue[j] = {}

\* EachLineInOnePlace for seven sets.
Apart(Q, F, C, L, H, D, X) ==
  /\ Q \cap (F \cup C \cup L \cup H \cup D \cup X) = {}
  /\ F \cap (C \cup L \cup H \cup D \cup X) = {}
  /\ C \cap (L \cup H \cup D \cup X) = {}
  /\ L \cap (H \cup D \cup X) = {}
  /\ H \cap (D \cup X) = {}
  /\ D \cap X = {}

Placed ==
  /\ Apart(QueuedLines, LinesOf(pendingFast), LinesOf(collecting), LaneLines,
           LinesOf(pendingHeavy), delivered, lost)
  /\ QueuedLines \cup LinesOf(pendingFast) \cup LinesOf(collecting) \cup LaneLines
       \cup LinesOf(pendingHeavy) \cup delivered \cup lost = 0 .. sent - 1

Typed ==
  /\ kind \in [Seqs -> Kinds]
  /\ sent \in Nat /\ batchInHand \in Nat /\ sent + batchInHand <= Total
  /\ readQueue \in Seq(SUBSET Seqs)
  /\ TableOf(pendingFast, Seqs, Task)
  /\ TableOf(pendingHeavy, 1 .. Total, HeavyTasks)
  /\ TableOf(collecting, 0 .. Total, Task \cup HeavyTasks)
  /\ lanes \in [Lanes -> SUBSET Seqs]

\* The inductive invariant.
IInv ==
  /\ Typed /\ Placed
  /\ QueueApart
  /\ TableApart(pendingFast) /\ TableApart(pendingHeavy) /\ TableApart(collecting)
  /\ \A i \in DOMAIN pendingFast : i \in pendingFast[i].lines
  /\ \A l \in Lanes : \A s \in lanes[l] : kind[s] = l
  /\ pc \notin {"collectFast", "collectHeavy"} => DOMAIN collecting = {}
--------------------------------------------------------------------------------
(***************************************************************************)
(* Tables of tasks.                                                         *)
(***************************************************************************)
\* What the lemmas below say of a table t that was made of another one.
Added(t, tasks, id, task) ==
  /\ LinesOf(t) = LinesOf(tasks) \cup task.lines /\ TableApart(t)
  /\ DOMAIN t = DOMAIN tasks \cup {id} /\ t[id] = task
  /\ \A i \in DOMAIN tasks : t[i] = tasks[i]

Removed(t, tasks, id) ==
  /\ LinesOf(t) = LinesOf(tasks) \ tasks[id].lines /\ TableApart(t)
  /\ tasks[id].lines \subseteq LinesOf(tasks)

Parted(e, r, tasks) ==
  /\ LinesOf(r) = LinesOf(tasks) \ LinesOf(e)
  /\ LinesOf(e) \subseteq LinesOf(tasks)
  /\ TableApart(e) /\ TableApart(r)
  /\ \A i \in DOMAIN r : i \in DOMAIN tasks /\ r[i] = tasks[i]

SameLinesIn(t, tasks) ==
  /\ DOMAIN t = DOMAIN tasks
  /\ \A i \in DOMAIN tasks : t[i].lines = tasks[i].lines
  /\ LinesOf(t) = LinesOf(tasks) /\ TableApart(t)

LEMMA WithTask ==
  ASSUME NEW tasks, NEW id, NEW task, id \notin DOMAIN tasks, TableApart(tasks),
         task.lines \cap LinesOf(tasks) = {}
  PROVE  Added(With(tasks, id, task), tasks, id, task)
<1> DEFINE t == With(tasks, id, task)
<1>1. /\ DOMAIN t = DOMAIN tasks \cup {id} /\ t[id] = task
      /\ \A i \in DOMAIN tasks : t[i] = tasks[i]
  BY DEF With
<1> HIDE DEF t
<1>2. LinesOf(t) = LinesOf(tasks) \cup task.lines
  BY <1>1 DEF LinesOf
<1>3. TableApart(t)
  BY <1>1 DEF LinesOf, TableApart
<1>4. Added(t, tasks, id, task)
  BY <1>1, <1>2, <1>3 DEF Added
<1>5. QED  BY <1>4 DEF t

LEMMA WithoutTask ==
  ASSUME NEW tasks, NEW id \in DOMAIN tasks, TableApart(tasks)
  PROVE  Removed(Without(tasks, id), tasks, id)
<1> DEFINE t == Without(tasks, id)
<1>1. /\ DOMAIN t = DOMAIN tasks \ {id}
      /\ \A i \in DOMAIN tasks \ {id} : t[i] = tasks[i]
  BY DEF Without
<1> HIDE DEF t
<1>2. LinesOf(t) = LinesOf(tasks) \ tasks[id].lines
  BY <1>1 DEF LinesOf, TableApart
<1>3. TableApart(t) /\ tasks[id].lines \subseteq LinesOf(tasks)
  BY <1>1 DEF LinesOf, TableApart
<1>4. Removed(t, tasks, id)
  BY <1>2, <1>3 DEF Removed
<1>5. QED  BY <1>4 DEF t

\* The tasks that have ended are taken out.
LEMMA Split ==
  ASSUME NEW tasks, TableApart(tasks)
  PROVE  Parted(Only(tasks, Ended), Only(tasks, Running), tasks)
<1> DEFINE e == Only(tasks, Ended)
           r == Only(tasks, Running)
<1>1. /\ DOMAIN e = {i \in DOMAIN tasks : Ended(tasks[i])}
      /\ DOMAIN r = {i \in DOMAIN tasks : Running(tasks[i])}
      /\ \A i \in DOMAIN e : e[i] = tasks[i]
      /\ \A i \in DOMAIN r : r[i] = tasks[i]
  BY DEF Only
<1> HIDE DEF e, r
<1>2. DOMAIN e \cup DOMAIN r = DOMAIN tasks /\ DOMAIN e \cap DOMAIN r = {}
  BY <1>1 DEF Ended
<1>3. LinesOf(e) \cup LinesOf(r) = LinesOf(tasks)
  BY <1>1, <1>2 DEF LinesOf
<1>4. LinesOf(e) \cap LinesOf(r) = {}
  BY <1>1, <1>2 DEF LinesOf, TableApart
<1>5. TableApart(e) /\ TableApart(r)
  BY <1>1 DEF TableApart
<1>6. LinesOf(r) = LinesOf(tasks) \ LinesOf(e) /\ LinesOf(e) \subseteq LinesOf(tasks)
  BY <1>3, <1>4
<1>7. \A i \in DOMAIN r : i \in DOMAIN tasks /\ r[i] = tasks[i]
  BY <1>1
<1>8. Parted(e, r, tasks)
  BY <1>5, <1>6, <1>7 DEF Parted
<1>9. QED  BY <1>8 DEF e, r

LEMMA NoLines == ASSUME NEW tasks, DOMAIN tasks = {}
                 PROVE  LinesOf(tasks) = {} /\ TableApart(tasks)
BY DEF LinesOf, TableApart

\* A task that ends keeps its lines.
LEMMA TaskEnds ==
  ASSUME NEW tasks, NEW Ids, NEW Tasks, Tasks = Task \/ Tasks = HeavyTasks,
         TableOf(tasks, Ids, Tasks), NEW id \in DOMAIN tasks,
         NEW status \in {"done", "failed"},
         NEW t, t = [tasks EXCEPT ![id].status = status], TableApart(tasks)
  PROVE  TableOf(t, Ids, Tasks) /\ SameLinesIn(t, tasks)
<1>1. tasks \in [DOMAIN tasks -> Tasks] /\ tasks[id] \in Tasks
  BY DEF TableOf
<1> DEFINE ended == [tasks[id] EXCEPT !.status = status]
<1>2. ended \in Tasks /\ ended.lines = tasks[id].lines
  <2>1. CASE Tasks = Task
    BY <1>1, <2>1 DEF Task
  <2>2. CASE Tasks = HeavyTasks
    BY <1>1, <2>2 DEF HeavyTasks
  <2>3. QED  BY <2>1, <2>2
<1>3. t = [tasks EXCEPT ![id] = ended]
  OBVIOUS
<1> HIDE DEF ended
<1>4. /\ t \in [DOMAIN tasks -> Tasks] /\ DOMAIN t = DOMAIN tasks
      /\ \A i \in DOMAIN tasks : t[i].lines = tasks[i].lines
  BY <1>1, <1>2, <1>3
<1>5. LinesOf(t) = LinesOf(tasks)
  BY <1>4 DEF LinesOf
<1>6. TableApart(t)
  BY <1>4 DEF TableApart
<1>7. TableOf(t, Ids, Tasks)
  BY <1>4 DEF TableOf
<1>8. QED  BY <1>4, <1>5, <1>6, <1>7 DEF SameLinesIn
--------------------------------------------------------------------------------
(***************************************************************************)
(* The seven places of a line.                                              *)
(***************************************************************************)
LEMMA ApartIsOnePlace ==
  ASSUME NEW Q, NEW F, NEW C, NEW L, NEW H, NEW D, NEW X, NEW U,
         Apart(Q, F, C, L, H, D, X),
         Q \cup F \cup C \cup L \cup H \cup D \cup X = U
  PROVE  LET places == <<Q, F, C, L, H, D, X>>
         IN /\ UNION {places[i] : i \in 1 .. 7} = U
            /\ \A i, j \in 1 .. 7 : i < j => places[i] \cap places[j] = {}
<1> DEFINE places == <<Q, F, C, L, H, D, X>>
<1>1. 1 .. 7 = {1, 2, 3, 4, 5, 6, 7}
  OBVIOUS
<1>2. /\ places[1] = Q /\ places[2] = F /\ places[3] = C /\ places[4] = L
      /\ places[5] = H /\ places[6] = D /\ places[7] = X
  OBVIOUS
<1> HIDE DEF places
<1>3. {places[i] : i \in 1 .. 7} = {Q, F, C, L, H, D, X}
  BY <1>1, <1>2
<1>4. UNION {places[i] : i \in 1 .. 7} = U
  BY <1>3
<1>5. ASSUME NEW i \in 1 .. 7, NEW j \in 1 .. 7, i < j
      PROVE  places[i] \cap places[j] = {}
  <2>1. CASE i = 1
    BY <1>1, <1>2, <1>5, <2>1 DEF Apart
  <2>2. CASE i = 2
    BY <1>1, <1>2, <1>5, <2>2 DEF Apart
  <2>3. CASE i = 3
    BY <1>1, <1>2, <1>5, <2>3 DEF Apart
  <2>4. CASE i \in {4, 5, 6, 7}
    BY <1>1, <1>2, <1>5, <2>4 DEF Apart
  <2>5. QED  BY <1>1, <2>1, <2>2, <2>3, <2>4
<1>6. QED  BY <1>4, <1>5 DEF places
--------------------------------------------------------------------------------
(***************************************************************************)
(* Every step preserves the invariant.                                      *)
(***************************************************************************)
LEMMA InitIInv == Init => IInv
<1> SUFFICES ASSUME Init PROVE IInv
  OBVIOUS
<1> USE DEF Init
<1>1. DOMAIN NoTasks = {}
  BY DEF NoTasks
<1>2. /\ LinesOf(pendingFast) = {} /\ LinesOf(pendingHeavy) = {}
      /\ LinesOf(collecting) = {}
      /\ TableApart(pendingFast) /\ TableApart(pendingHeavy)
      /\ TableApart(collecting)
  BY <1>1, NoLines
<1>3. QueuedLines = {} /\ LaneLines = {} /\ QueueApart
  BY DEF QueuedLines, LaneLines, QueueApart
<1>4. delivered = {} /\ lost = {} /\ 0 .. sent - 1 = {}
  BY DEF Coord!Init
<1>5. Placed
  BY <1>2, <1>3, <1>4 DEF Placed, Apart
<1>6. Typed
  <2>1. NoTasks \in [{} -> Task] /\ NoTasks \in [{} -> HeavyTasks]
        /\ NoTasks \in [{} -> Task \cup HeavyTasks]
    BY DEF NoTasks
  <2>2. /\ TableOf(pendingFast, Seqs, Task)
        /\ TableOf(pendingHeavy, 1 .. Total, HeavyTasks)
        /\ TableOf(collecting, 0 .. Total, Task \cup HeavyTasks)
    BY <1>1, <2>1 DEF TableOf
  <2>3. readQueue \in Seq(SUBSET Seqs) /\ lanes \in [Lanes -> SUBSET Seqs]
    OBVIOUS
  <2>4. sent \in Nat /\ batchInHand \in Nat /\ sent + batchInHand <= Total
    BY BoundsAssumption
  <2>5. QED  BY <2>2, <2>3, <2>4 DEF Typed
<1>7. QED  BY <1>1, <1>2, <1>3, <1>5, <1>6 DEF IInv

LEMMA SameLines ==
  /\ UNCHANGED readQueue => QueuedLines' = QueuedLines
  /\ UNCHANGED lanes => LaneLines' = LaneLines
BY DEF QueuedLines, LaneLines

\* A step that moves no line.
LEMMA Beside ==
  ASSUME IInv, kind' = kind, sent' = sent,
         UNCHANGED <<readQueue, pendingFast, pendingHeavy, collecting, lanes,
                     delivered, lost>>,
         batchInHand' \in Nat, sent + batchInHand' <= Total,
         pc' \notin {"collectFast", "collectHeavy"} => DOMAIN collecting = {}
  PROVE  IInv'
<1>1. Typed'
  BY DEF IInv, Typed
<1>2. Placed'
  <2>1. QueuedLines' = QueuedLines /\ LaneLines' = LaneLines
    BY SameLines
  <2>2. Placed
    BY DEF IInv
  <2>3. QED  BY <2>1, <2>2 DEF Placed
<1>3. /\ QueueApart' /\ TableApart(pendingFast)' /\ TableApart(pendingHeavy)'
      /\ TableApart(collecting)'
  BY DEF IInv, QueueApart, TableApart
<1>4. QED  BY <1>1, <1>2, <1>3 DEF IInv

LEMMA QuietSteps ==
  ASSUME IInv,
         \/ FillBatch \/ DropBatch \/ EndOfSources \/ ReaderRaises
         \/ LeaveLoop \/ EndCollectFast \/ ReadHead \/ SubmitLanes
         \/ EndCollectHeavy \/ StopCoordinator \/ Join \/ ApplyThread
         \/ LimitReached \/ DrainExpires \/ StopSignal \/ UNCHANGED vars
  PROVE  IInv'
<1> USE DEF coordVars, readerVars, taskVars, envVars
<1>1. /\ sent \in Nat /\ batchInHand \in Nat /\ sent + batchInHand <= Total
      /\ pc \notin {"collectFast", "collectHeavy"} => DOMAIN collecting = {}
  BY DEF IInv, Typed
<1>2. DOMAIN NoTasks = {}
  BY DEF NoTasks
<1>3. CASE FillBatch
  <2>1. PICK n \in 1 .. MaxBatch : sent + n <= Total /\ batchInHand' = n
    BY <1>3 DEF FillBatch
  <2>2. n \in Nat
    BY BoundsAssumption
  <2>3. batchInHand' \in Nat /\ sent + batchInHand' <= Total
    BY <2>1, <2>2
  <2>4. /\ kind' = kind /\ sent' = sent /\ pc' = pc
        /\ UNCHANGED <<readQueue, pendingFast, pendingHeavy, collecting, lanes,
                       delivered, lost>>
    BY <1>3 DEF FillBatch
  <2>5. pc' \notin {"collectFast", "collectHeavy"} => DOMAIN collecting = {}
    BY <1>1, <2>4
  <2>6. QED  BY <2>3, <2>4, <2>5, Beside
<1>4. CASE DropBatch \/ EndOfSources \/ ReaderRaises
  <2>1. batchInHand' = 0 \/ batchInHand' = batchInHand
    BY <1>4 DEF DropBatch, EndOfSources, ReaderRaises
  <2>2. /\ kind' = kind /\ sent' = sent /\ pc' = pc
        /\ UNCHANGED <<readQueue, pendingFast, pendingHeavy, collecting, lanes,
                       delivered, lost>>
    BY <1>4 DEF DropBatch, EndOfSources, ReaderRaises
  <2>3. pc' \notin {"collectFast", "collectHeavy"} => DOMAIN collecting = {}
    BY <1>1, <2>2
  <2>4. batchInHand' \in Nat /\ sent + batchInHand' <= Total
    <3>1. CASE batchInHand' = 0
      <4>1. sent + 0 = sent /\ sent <= Total
        BY <1>1, BoundsAssumption
      <4>2. QED  BY <3>1, <4>1
    <3>2. CASE batchInHand' = batchInHand
      BY <1>1, <3>2
    <3>3. QED  BY <2>1, <3>1, <3>2
  <2>5. QED  BY <2>2, <2>3, <2>4, Beside
<1>5. CASE LeaveLoop \/ ReadHead \/ SubmitLanes \/ Join
  BY <1>1, <1>5, Beside DEF LeaveLoop, ReadHead, SubmitLanes, Join
<1>6. CASE EndCollectFast \/ EndCollectHeavy
  BY <1>1, <1>2, <1>6, Beside DEF EndCollectFast, EndCollectHeavy, ReadGap
<1>7. CASE StopCoordinator
  BY <1>1, <1>7, Beside DEF StopCoordinator, Coord!Stop
<1>8. CASE ApplyThread
  BY <1>1, <1>8, Beside
  DEF ApplyThread, Coord!Pop, Coord!Apply, Coord!Raise, Coord!Advance, Coord!Exit
<1>9. CASE LimitReached \/ DrainExpires \/ StopSignal
  BY <1>1, <1>9, Beside DEF LimitReached, DrainExpires, StopSignal
<1>10. CASE UNCHANGED vars
  BY <1>1, <1>10, Beside DEF vars
<1>11. QED
  BY <1>3, <1>4, <1>5, <1>6, <1>7, <1>8, <1>9, <1>10

\* The reader puts a batch into the queue: lines nobody has seen.
LEMMA PutBatchStep == ASSUME IInv, PutBatch PROVE IInv'
<1> DEFINE B == sent .. sent + batchInHand - 1
<1> USE DEF PutBatch
<1>1. /\ UNCHANGED <<kind, pendingFast, pendingHeavy, collecting, lanes, lost,
                     delivered, pc>>
      /\ readQueue' = Append(readQueue, B)
      /\ sent' = sent + batchInHand /\ batchInHand' = 0
  BY DEF coordVars, taskVars
<1>2. /\ sent \in Nat /\ batchInHand \in Nat /\ sent + batchInHand <= Total
      /\ Total \in Nat /\ readQueue \in Seq(SUBSET Seqs)
  BY BoundsAssumption DEF IInv, Typed
<1>3. B \in SUBSET Seqs /\ 0 .. sent' - 1 = (0 .. sent - 1) \cup B
      /\ B \cap 0 .. sent - 1 = {}
  BY <1>1, <1>2 DEF Seqs
<1> HIDE DEF B, PutBatch
<1>4. /\ readQueue' \in Seq(SUBSET Seqs)
      /\ Len(readQueue') = Len(readQueue) + 1
      /\ DOMAIN readQueue = 1 .. Len(readQueue) /\ DOMAIN readQueue' = 1 .. Len(readQueue')
      /\ \A i \in 1 .. Len(readQueue) : readQueue'[i] = readQueue[i]
      /\ readQueue'[Len(readQueue) + 1] = B /\ Len(readQueue) \in Nat
  BY <1>1, <1>2, <1>3
<1>5. DOMAIN readQueue' = DOMAIN readQueue \cup {Len(readQueue) + 1}
  BY <1>4
<1>6. QueuedLines' = QueuedLines \cup B
  BY <1>4, <1>5 DEF QueuedLines
<1>7. LaneLines' = LaneLines
  BY <1>1, SameLines
<1>8. Placed
  BY DEF IInv
<1>9. Placed'
  BY <1>1, <1>3, <1>6, <1>7, <1>8 DEF Placed, Apart
<1>10. QueueApart'
  <2>1. \A i \in DOMAIN readQueue : readQueue[i] \cap B = {}
    BY <1>3, <1>8 DEF Placed, QueuedLines
  <2>2. QueueApart
    BY DEF IInv
  <2>3. QED  BY <1>4, <1>5, <2>1, <2>2 DEF QueueApart
<1>11. Typed'
  BY <1>1, <1>2, <1>4 DEF IInv, Typed
<1>12. QED  BY <1>1, <1>9, <1>10, <1>11 DEF IInv, TableApart

LinesIn(q) == UNION {q[i] : i \in DOMAIN q}

\* The head of the queue is taken off: first for any two functions.
LEMMA AllButOne ==
  ASSUME NEW q, NEW t, NEW one \in DOMAIN q,
         \A i \in DOMAIN t : \E k \in DOMAIN q : k # one /\ q[k] = t[i],
         \A i \in DOMAIN q : i # one => \E k \in DOMAIN t : t[k] = q[i],
         \A i, j \in DOMAIN q : i # j => q[i] \cap q[j] = {}
  PROVE  /\ LinesIn(q) = LinesIn(t) \cup q[one]
         /\ LinesIn(t) \cap q[one] = {}
<1>1. ASSUME NEW i \in DOMAIN q
      PROVE  q[i] \subseteq (UNION {t[k] : k \in DOMAIN t}) \cup q[one]
  <2>1. CASE i # one
    <3>1. PICK k \in DOMAIN t : t[k] = q[i]
      BY <2>1
    <3>2. t[k] \subseteq UNION {t[m] : m \in DOMAIN t}
      OBVIOUS
    <3>3. QED  BY <3>1, <3>2
  <2>2. CASE i = one
    BY <2>2
  <2>3. QED  BY <2>1, <2>2
<1>2. ASSUME NEW i \in DOMAIN t
      PROVE  t[i] \subseteq UNION {q[k] : k \in DOMAIN q} /\ t[i] \cap q[one] = {}
  <2>1. PICK k \in DOMAIN q : k # one /\ q[k] = t[i]
    OBVIOUS
  <2>2. q[k] \subseteq UNION {q[m] : m \in DOMAIN q} /\ q[k] \cap q[one] = {}
    BY <2>1
  <2>3. QED  BY <2>1, <2>2
<1>3. q[one] \subseteq UNION {q[m] : m \in DOMAIN q}
  OBVIOUS
<1> DEFINE A == UNION {q[m] : m \in DOMAIN q}
           B == UNION {t[m] : m \in DOMAIN t}
<1>4. A \subseteq B \cup q[one]
  BY <1>1
<1>5. B \subseteq A /\ B \cap q[one] = {} /\ q[one] \subseteq A
  BY <1>2, <1>3
<1> HIDE DEF A, B
<1>6. A = B \cup q[one] /\ B \cap q[one] = {}
  BY <1>4, <1>5
<1>7. QED  BY <1>6 DEF A, B, LinesIn

LEMMA Shifted ==
  ASSUME NEW n \in Nat, NEW q, NEW t, DOMAIN q = 1 .. n + 1, DOMAIN t = 1 .. n,
         \A i \in 1 .. n : t[i] = q[i + 1],
         \A i, j \in DOMAIN q : i # j => q[i] \cap q[j] = {}
  PROVE  /\ \A i, j \in DOMAIN t : i # j => t[i] \cap t[j] = {}
         /\ LinesIn(q) = LinesIn(t) \cup q[1]
         /\ LinesIn(t) \cap q[1] = {}
<1>1. \A i \in DOMAIN t : i + 1 \in DOMAIN q /\ i + 1 # 1 /\ t[i] = q[i + 1]
  OBVIOUS
<1>2. ASSUME NEW i \in DOMAIN t, NEW j \in DOMAIN t, i # j
      PROVE  t[i] \cap t[j] = {}
  <2>1. i + 1 # j + 1
    BY <1>2
  <2>2. QED  BY <1>1, <2>1
<1>3. 1 \in DOMAIN q /\ \A i \in DOMAIN q : i # 1 => i - 1 \in DOMAIN t /\ t[i - 1] = q[i]
  OBVIOUS
<1>4. \A i \in DOMAIN t : \E k \in DOMAIN q : k # 1 /\ q[k] = t[i]
  BY <1>1
<1>5. \A i \in DOMAIN q : i # 1 => \E k \in DOMAIN t : t[k] = q[i]
  BY <1>3
<1>6. QED  BY <1>2, <1>3, <1>4, <1>5, AllButOne

LEMMA HeadTaken ==
  ASSUME NEW q \in Seq(SUBSET Seqs), q # <<>>,
         \A i, j \in DOMAIN q : i # j => q[i] \cap q[j] = {}
  PROVE  LET t == Tail(q)
         IN /\ t \in Seq(SUBSET Seqs)
            /\ \A i, j \in DOMAIN t : i # j => t[i] \cap t[j] = {}
            /\ LinesIn(q) = LinesIn(t) \cup Head(q)
            /\ LinesIn(t) \cap Head(q) = {}
            /\ Head(q) \in SUBSET Seqs
<1> DEFINE t == Tail(q)
           n == Len(q) - 1
<1>1. /\ t \in Seq(SUBSET Seqs) /\ n \in Nat
      /\ \A i \in 1 .. n : t[i] = q[i + 1]
      /\ DOMAIN t = 1 .. n /\ DOMAIN q = 1 .. n + 1
      /\ Head(q) = q[1] /\ Head(q) \in SUBSET Seqs
  OBVIOUS
<1> HIDE DEF t, n
<1>2. /\ \A i, j \in DOMAIN t : i # j => t[i] \cap t[j] = {}
      /\ LinesIn(q) = LinesIn(t) \cup q[1]
      /\ LinesIn(t) \cap q[1] = {}
  BY <1>1, Shifted
<1>3. QED  BY <1>1, <1>2 DEF t
--------------------------------------------------------------------------------
(***************************************************************************)
(* Tasks are typed.                                                         *)
(***************************************************************************)
LEMMA TypedWith ==
  ASSUME NEW tasks, NEW Ids, NEW Tasks, TableOf(tasks, Ids, Tasks),
         NEW id \in Ids, NEW task \in Tasks
  PROVE  TableOf(With(tasks, id, task), Ids, Tasks)
BY DEF TableOf, With

LEMMA TypedWithout ==
  ASSUME NEW tasks, NEW Ids, NEW Tasks, TableOf(tasks, Ids, Tasks), NEW id
  PROVE  TableOf(Without(tasks, id), Ids, Tasks)
BY DEF TableOf, Without

LEMMA TypedOnly ==
  ASSUME NEW tasks, NEW Ids, NEW Tasks, TableOf(tasks, Ids, Tasks)
  PROVE  /\ TableOf(Only(tasks, Ended), Ids, Tasks)
         /\ TableOf(Only(tasks, Running), Ids, Tasks)
BY DEF TableOf, Only, Ended, Running

LEMMA TypedMore ==
  ASSUME NEW tasks, NEW Ids, NEW Tasks, TableOf(tasks, Ids, Tasks),
         NEW MoreIds, Ids \subseteq MoreIds, NEW MoreTasks, Tasks \subseteq MoreTasks
  PROVE  TableOf(tasks, MoreIds, MoreTasks)
BY DEF TableOf

LEMMA TaskLines ==
  ASSUME NEW tasks, NEW Ids, TableOf(tasks, Ids, Task \cup HeavyTasks),
         NEW id \in DOMAIN tasks
  PROVE  tasks[id].lines \in SUBSET Seqs
BY DEF TableOf, Task, HeavyTasks

\* What is collected is a task of either sort.
LEMMA EitherTask == /\ Task \subseteq Task \cup HeavyTasks
                    /\ HeavyTasks \subseteq Task \cup HeavyTasks
OBVIOUS
--------------------------------------------------------------------------------
(***************************************************************************)
(* The steps that move lines.                                               *)
(***************************************************************************)

\* What IInv says, by parts.
LEMMA Parts ==
  ASSUME IInv
  PROVE  /\ Typed /\ Placed /\ QueueApart
         /\ TableApart(pendingFast) /\ TableApart(pendingHeavy)
         /\ TableApart(collecting)
         /\ readQueue \in Seq(SUBSET Seqs)
         /\ TableOf(pendingFast, Seqs, Task)
         /\ TableOf(pendingHeavy, 1 .. Total, HeavyTasks)
         /\ TableOf(collecting, 0 .. Total, Task \cup HeavyTasks)
         /\ lanes \in [Lanes -> SUBSET Seqs]
         /\ pc \notin {"collectFast", "collectHeavy"} => DOMAIN collecting = {}
BY DEF IInv, Typed

LEMMA PutSentinelStep == ASSUME IInv, PutSentinel PROVE IInv'
<1> USE DEF PutSentinel
<1>1. /\ UNCHANGED <<kind, pendingFast, pendingHeavy, collecting, lanes, lost,
                     delivered, pc, sent, batchInHand>>
      /\ readQueue' = Append(readQueue, {})
  BY DEF coordVars, taskVars, Sentinel
<1> HIDE DEF PutSentinel
<1>2. /\ readQueue' \in Seq(SUBSET Seqs)
      /\ DOMAIN readQueue' = DOMAIN readQueue \cup {Len(readQueue) + 1}
      /\ \A i \in DOMAIN readQueue : readQueue'[i] = readQueue[i]
      /\ readQueue'[Len(readQueue) + 1] = {}
  BY <1>1, Parts
<1>3. QueuedLines' = QueuedLines
  BY <1>2 DEF QueuedLines
<1>4. LaneLines' = LaneLines
  BY <1>1, SameLines
<1>5. Placed'
  BY <1>1, <1>3, <1>4, Parts DEF Placed
<1>6. QueueApart'
  BY <1>2, Parts DEF QueueApart
<1>7. Typed'
  BY <1>1, <1>2, Parts DEF Typed
<1>8. QED  BY <1>1, <1>5, <1>6, <1>7 DEF IInv, TableApart

LEMMA PullSentinelStep == ASSUME IInv, PullSentinel PROVE IInv'
<1>1. /\ UNCHANGED <<kind, pendingFast, pendingHeavy, collecting, lanes, lost,
                     delivered, pc, sent, batchInHand>>
      /\ readQueue # <<>> /\ Head(readQueue) = {} /\ readQueue' = Tail(readQueue)
  BY DEF PullSentinel, MayPull, coordVars, taskVars, readerVars, Sentinel
<1>2. /\ readQueue' \in Seq(SUBSET Seqs) /\ QueueApart'
      /\ LinesIn(readQueue') = LinesIn(readQueue)
  BY <1>1, Parts, HeadTaken DEF QueueApart
<1>3. QueuedLines' = QueuedLines /\ LaneLines' = LaneLines
  BY <1>1, <1>2, SameLines DEF QueuedLines, LinesIn
<1>4. Placed'
  BY <1>1, <1>3, Parts DEF Placed
<1>5. Typed'
  BY <1>1, <1>2, Parts DEF Typed
<1>6. QED  BY <1>1, <1>2, <1>4, <1>5 DEF IInv, TableApart

\* A batch becomes a task.
LEMMA PullBatchStep == ASSUME IInv, PullBatch PROVE IInv'
<1> DEFINE B == Head(readQueue)
           task == [lines |-> B, status |-> "running"]
<1>1. /\ UNCHANGED <<kind, pendingHeavy, collecting, lanes, lost,
                     delivered, pc, sent, batchInHand>>
      /\ readQueue # <<>> /\ readQueue' = Tail(readQueue)
  BY DEF PullBatch, MayPull, coordVars, readerVars
<1>2. PICK first \in B : pendingFast' = With(pendingFast, first, task)
  BY DEF PullBatch
<1>3. /\ readQueue' \in Seq(SUBSET Seqs) /\ QueueApart' /\ B \in SUBSET Seqs
      /\ LinesIn(readQueue) = LinesIn(readQueue') \cup B
      /\ LinesIn(readQueue') \cap B = {}
  BY <1>1, Parts, HeadTaken DEF QueueApart
<1>4. task.lines = B /\ task \in Task
  BY <1>3 DEF Task
<1> HIDE DEF B, task
<1>5. QueuedLines' = QueuedLines \ B /\ B \subseteq QueuedLines
  BY <1>3 DEF QueuedLines, LinesIn
<1>6. LaneLines' = LaneLines
  BY <1>1, SameLines
<1>7. B \cap LinesOf(pendingFast) = {}
  BY <1>5, Parts DEF Placed, Apart
<1>8. first \notin DOMAIN pendingFast
  <2>1. \A i \in DOMAIN pendingFast : i \in LinesOf(pendingFast)
    BY DEF IInv, LinesOf
  <2>2. QED  BY <1>2, <1>7, <2>1
<1>9. /\ LinesOf(pendingFast') = LinesOf(pendingFast) \cup B
      /\ TableApart(pendingFast')
      /\ DOMAIN pendingFast' = DOMAIN pendingFast \cup {first}
      /\ pendingFast'[first] = task
      /\ \A i \in DOMAIN pendingFast : pendingFast'[i] = pendingFast[i]
  <2>1. TableApart(pendingFast) /\ task.lines \cap LinesOf(pendingFast) = {}
    BY <1>4, <1>7, Parts
  <2>2. Added(pendingFast', pendingFast, first, task)
    BY <1>2, <1>8, <2>1, WithTask
  <2>3. QED  BY <1>4, <2>2 DEF Added
<1>10. TableOf(pendingFast', Seqs, Task)
  <2>1. first \in Seqs
    BY <1>2, <1>3
  <2>2. TableOf(pendingFast, Seqs, Task) /\ task \in Task
    BY <1>4, Parts
  <2>3. TableOf(With(pendingFast, first, task), Seqs, Task)
    BY <2>1, <2>2, TypedWith
  <2>4. QED  BY <1>2, <2>3
<1>11. Placed'
  BY <1>1, <1>5, <1>6, <1>9, Parts DEF Placed, Apart
<1>12. Typed'
  BY <1>1, <1>3, <1>10, Parts DEF Typed
<1>13. \A i \in DOMAIN pendingFast' : i \in pendingFast'[i].lines
  BY <1>2, <1>4, <1>9 DEF IInv
<1>14. QED
  BY <1>1, <1>3, <1>9, <1>11, <1>12, <1>13 DEF IInv, TableApart

LEMMA WorkerSteps == ASSUME IInv, WorkerStep PROVE IInv'
<1>1. CASE FastFinishes \/ FastFails
  <2>1. /\ UNCHANGED <<kind, readQueue, pendingHeavy, collecting, lanes, lost,
                       delivered, pc, sent, batchInHand>>
        /\ \E status \in {"done", "failed"} : FastEnds(status)
    BY <1>1 DEF FastFinishes, FastFails, FastEnds, coordVars, readerVars
  <2>2. PICK status \in {"done", "failed"}, i \in DOMAIN pendingFast :
          pendingFast' = [pendingFast EXCEPT ![i].status = status]
    BY <2>1 DEF FastEnds
  <2>3. /\ TableOf(pendingFast', Seqs, Task) /\ DOMAIN pendingFast' = DOMAIN pendingFast
        /\ \A j \in DOMAIN pendingFast : pendingFast'[j].lines = pendingFast[j].lines
        /\ LinesOf(pendingFast') = LinesOf(pendingFast)
        /\ TableApart(pendingFast')
    <3>1. TableOf(pendingFast, Seqs, Task) /\ TableApart(pendingFast)
      BY Parts
    <3>2. TableOf(pendingFast', Seqs, Task) /\ SameLinesIn(pendingFast', pendingFast)
      BY <2>2, <3>1, TaskEnds
    <3>3. QED  BY <3>2 DEF SameLinesIn
  <2>4. QueuedLines' = QueuedLines /\ LaneLines' = LaneLines
    BY <2>1, SameLines
  <2>5. Placed'
    BY <2>1, <2>3, <2>4, Parts DEF Placed
  <2>6. Typed'
    BY <2>1, <2>3, Parts DEF Typed
  <2>7. QED  BY <2>1, <2>3, <2>5, <2>6 DEF IInv, TableApart, QueueApart
<1>2. CASE HeavyFinishes \/ HeavyFails
  <2>1. /\ UNCHANGED <<kind, readQueue, pendingFast, collecting, lanes, lost,
                       delivered, pc, sent, batchInHand>>
        /\ \E status \in {"done", "failed"} : HeavyEnds(status)
    BY <1>2 DEF HeavyFinishes, HeavyFails, HeavyEnds, coordVars, readerVars
  <2>2. PICK status \in {"done", "failed"}, i \in DOMAIN pendingHeavy :
          pendingHeavy' = [pendingHeavy EXCEPT ![i].status = status]
    BY <2>1 DEF HeavyEnds
  <2>3. /\ TableOf(pendingHeavy', 1 .. Total, HeavyTasks)
        /\ LinesOf(pendingHeavy') = LinesOf(pendingHeavy)
        /\ TableApart(pendingHeavy')
    <3>1. TableOf(pendingHeavy, 1 .. Total, HeavyTasks) /\ TableApart(pendingHeavy)
      BY Parts
    <3>2. /\ TableOf(pendingHeavy', 1 .. Total, HeavyTasks)
          /\ SameLinesIn(pendingHeavy', pendingHeavy)
      BY <2>2, <3>1, TaskEnds
    <3>3. QED  BY <3>2 DEF SameLinesIn
  <2>4. QueuedLines' = QueuedLines /\ LaneLines' = LaneLines
    BY <2>1, SameLines
  <2>5. Placed'
    BY <2>1, <2>3, <2>4, Parts DEF Placed
  <2>6. Typed'
    BY <2>1, <2>3, Parts DEF Typed
  <2>7. QED  BY <2>1, <2>3, <2>5, <2>6 DEF IInv, TableApart, QueueApart
<1>3. QED  BY <1>1, <1>2 DEF WorkerStep

\* The fast tasks that have ended are taken out of their table.
LEMMA BeginCollectFastStep ==
  ASSUME IInv, BeginCollectFast, DOMAIN collecting = {},
         UNCHANGED <<kind, readQueue, pendingHeavy, lanes, lost, delivered, sent,
                     batchInHand>>
  PROVE  IInv'
<1>1. /\ collecting' = Only(pendingFast, Ended)
      /\ pendingFast' = Only(pendingFast, Running) /\ pc' = "collectFast"
  BY DEF BeginCollectFast
<1>2. Parted(collecting', pendingFast', pendingFast)
  BY <1>1, Split, Parts
<1>3. TableOf(collecting', Seqs, Task) /\ TableOf(pendingFast', Seqs, Task)
  BY <1>1, TypedOnly, Parts
<1>4. TableOf(collecting', 0 .. Total, Task \cup HeavyTasks)
  <2>1. Seqs \subseteq 0 .. Total
    BY BoundsAssumption DEF Seqs
  <2>2. QED  BY <1>3, <2>1, TypedMore, EitherTask
<1>5. LinesOf(collecting) = {}
  BY NoLines
<1>6. QueuedLines' = QueuedLines /\ LaneLines' = LaneLines
  BY SameLines
<1>7. Placed'
  BY <1>2, <1>5, <1>6, Parts DEF Placed, Apart, Parted
<1>8. Typed'
  BY <1>3, <1>4, Parts DEF IInv, Typed
<1>9. \A i \in DOMAIN pendingFast' : i \in pendingFast'[i].lines
  BY <1>2 DEF IInv, Parted
<1>10. QED
  BY <1>1, <1>2, <1>7, <1>8, <1>9 DEF IInv, Parted, TableApart, QueueApart

LEMMA PassSteps == ASSUME IInv, StartPass \/ EndPull PROVE IInv'
<1>1. /\ DOMAIN collecting = {}
      /\ UNCHANGED <<kind, readQueue, pendingHeavy, lanes, lost, delivered, sent,
                     batchInHand>>
      /\ \/ BeginCollectFast
         \/ pc' = "pull" /\ UNCHANGED <<pendingFast, collecting>>
  BY Parts DEF StartPass, EndPull, coordVars, readerVars
<1>2. CASE BeginCollectFast
  BY <1>1, <1>2, BeginCollectFastStep
<1>3. CASE pc' = "pull" /\ UNCHANGED <<pendingFast, collecting>>
  <2>1. batchInHand' \in Nat /\ sent + batchInHand' <= Total
    BY <1>1, Parts DEF Typed
  <2>2. QED  BY <1>1, <1>3, <2>1, Beside
<1>4. QED  BY <1>1, <1>2, <1>3

\* A collected task leaves its lines to coordinator and lanes, or they are lost.
LEMMA Collected ==
  ASSUME IInv, NEW id \in DOMAIN collecting, collecting' = Without(collecting, id),
         NEW T, NEW S, NEW R, collecting[id].lines = T \cup S \cup R,
         T \cap S = {}, T \cap R = {}, S \cap R = {},
         delivered' = delivered \cup T, lost' = lost \cup R,
         lanes' \in [Lanes -> SUBSET Seqs], LaneLines' = LaneLines \cup S,
         \A l \in Lanes : \A s \in lanes'[l] : kind[s] = l,
         pc \in {"collectFast", "collectHeavy"},
         UNCHANGED <<kind, readQueue, pendingFast, pendingHeavy, sent, batchInHand, pc>>
  PROVE  IInv'
<1>1. Removed(collecting', collecting, id)
  BY WithoutTask, Parts
<1>2. QueuedLines' = QueuedLines
  BY SameLines
<1>3. /\ LinesOf(collecting') = LinesOf(collecting) \ (T \cup S \cup R)
      /\ T \cup S \cup R \subseteq LinesOf(collecting)
      /\ TableApart(collecting')
  BY <1>1 DEF Removed
<1>4. Placed'
  BY <1>2, <1>3, Parts DEF Placed, Apart
<1>5. TableOf(collecting', 0 .. Total, Task \cup HeavyTasks)
  BY TypedWithout, Parts
<1>6. Typed'
  BY <1>5, Parts DEF Typed
<1>7. QED  BY <1>3, <1>4, <1>6 DEF IInv, TableApart, QueueApart

\* A whole batch goes to the coordinator, or is lost.
LEMMA CollectedWhole ==
  ASSUME IInv, NEW id \in DOMAIN collecting, collecting' = Without(collecting, id),
         \/ delivered' = delivered \cup collecting[id].lines /\ lost' = lost
         \/ lost' = lost \cup collecting[id].lines /\ delivered' = delivered,
         pc \in {"collectFast", "collectHeavy"},
         UNCHANGED <<kind, readQueue, pendingFast, pendingHeavy, lanes, sent,
                     batchInHand, pc>>
  PROVE  IInv'
<1> DEFINE B == collecting[id].lines
<1>1. /\ lanes' \in [Lanes -> SUBSET Seqs] /\ LaneLines' = LaneLines
      /\ \A l \in Lanes : \A s \in lanes'[l] : kind[s] = l
  BY SameLines, Parts DEF IInv
<1>2. CASE delivered' = delivered \cup B /\ lost' = lost
  <2>1. B = B \cup {} \cup {} /\ LaneLines' = LaneLines \cup {} /\ lost' = lost \cup {}
    BY <1>1, <1>2
  <2>2. B \cap {} = {} /\ {} \cap {} = {}
    OBVIOUS
  <2>3. QED  BY <1>1, <1>2, <2>1, <2>2, Collected
<1>3. CASE lost' = lost \cup B /\ delivered' = delivered
  <2>1. /\ B = {} \cup {} \cup B /\ LaneLines' = LaneLines \cup {}
        /\ delivered' = delivered \cup {}
    BY <1>1, <1>3
  <2>2. {} \cap B = {} /\ {} \cap {} = {}
    OBVIOUS
  <2>3. QED  BY <1>1, <1>3, <2>1, <2>2, Collected
<1>4. QED  BY <1>2, <1>3

LEMMA FallBackStep == ASSUME IInv, FallBack PROVE IInv'
<1>1. PICK id \in DOMAIN collecting : /\ Coord!Ingest(collecting[id].lines)
                                      /\ collecting' = Without(collecting, id)
  BY DEF FallBack
<1>2. delivered' = delivered \cup collecting[id].lines
  BY <1>1 DEF Coord!Ingest
<1>3. /\ UNCHANGED <<kind, readQueue, pendingFast, pendingHeavy, lanes, lost, sent,
                     batchInHand, pc>>
      /\ pc = "collectFast"
  BY DEF FallBack, readerVars
<1>4. QED  BY <1>1, <1>2, <1>3, CollectedWhole

LEMMA CollectHeavyStep == ASSUME IInv, CollectHeavy PROVE IInv'
<1>1. PICK id \in DOMAIN collecting : /\ Coord!Ingest(collecting[id].lines)
                                      /\ collecting' = Without(collecting, id)
  BY DEF CollectHeavy
<1>2. delivered' = delivered \cup collecting[id].lines
  BY <1>1 DEF Coord!Ingest
<1>3. /\ UNCHANGED <<kind, readQueue, pendingFast, pendingHeavy, lanes, lost, sent,
                     batchInHand, pc>>
      /\ pc = "collectHeavy"
  BY DEF CollectHeavy, readerVars
<1>4. QED  BY <1>1, <1>2, <1>3, CollectedWhole

LEMMA LoseHeavyStep == ASSUME IInv, LoseHeavy PROVE IInv'
<1>1. PICK id \in DOMAIN collecting : /\ lost' = lost \cup collecting[id].lines
                                      /\ collecting' = Without(collecting, id)
  BY DEF LoseHeavy
<1>2. /\ UNCHANGED <<kind, readQueue, pendingFast, pendingHeavy, lanes, delivered,
                     sent, batchInHand, pc>>
      /\ pc = "collectHeavy"
  BY DEF LoseHeavy, readerVars, coordVars
<1>3. QED  BY <1>1, <1>2, CollectedWhole

LEMMA CollectFastStep == ASSUME IInv, CollectFast PROVE IInv'
<1>1. PICK id \in DOMAIN collecting :
        LET batch == collecting[id].lines
            terminal == {s \in batch : kind[s] = "terminal"}
        IN /\ IF terminal = {} THEN UNCHANGED coordVars ELSE Coord!Ingest(terminal)
           /\ lanes' = [l \in Lanes |-> lanes[l] \cup {s \in batch : kind[s] = l}]
           /\ collecting' = Without(collecting, id)
  BY DEF CollectFast
<1> DEFINE B == collecting[id].lines
           T == {s \in B : kind[s] = "terminal"}
           S == {s \in B : kind[s] # "terminal"}
<1>2. /\ UNCHANGED <<kind, readQueue, pendingFast, pendingHeavy, lost, sent,
                     batchInHand, pc>>
      /\ pc = "collectFast"
  BY DEF CollectFast, readerVars
<1>3. delivered' = delivered \cup T
  <2>1. CASE T = {}
    BY <1>1, <2>1 DEF coordVars
  <2>2. CASE T # {}
    BY <1>1, <2>2 DEF Coord!Ingest
  <2>3. QED  BY <2>1, <2>2
<1>4. B \in SUBSET Seqs /\ lanes \in [Lanes -> SUBSET Seqs]
  BY TaskLines, Parts
<1>5. \A s \in S : kind[s] \in Lanes
  BY <1>4, Parts, KindsAssumption DEF Typed
<1>6. \A l \in Lanes : lanes'[l] = lanes[l] \cup {s \in B : kind[s] = l}
  BY <1>1
<1>7. lanes' \in [Lanes -> SUBSET Seqs]
  BY <1>1, <1>4
<1>8. "terminal" \notin Lanes
  BY DEF Lanes
<1>9. \A l \in Lanes : \A s \in lanes'[l] : kind[s] = l
  BY <1>6 DEF IInv
<1>10. LaneLines' = LaneLines \cup S
  BY <1>5, <1>6, <1>8 DEF LaneLines
<1>11. /\ B = T \cup S \cup {} /\ T \cap S = {} /\ T \cap {} = {} /\ S \cap {} = {}
       /\ lost' = lost \cup {}
  BY <1>2
<1>12. collecting' = Without(collecting, id)
  BY <1>1
<1> HIDE DEF T, S
<1>13. QED
  BY <1>2, <1>3, <1>7, <1>9, <1>10, <1>11, <1>12, Collected
--------------------------------------------------------------------------------
(***************************************************************************)
(* Submitting heavy tasks, and taking out those that have ended.            *)
(***************************************************************************)

\* The next id is free.
LEMMA FreeId == ASSUME IInv, NEW id \in NextHeavyId
                PROVE  id \in 1 .. Total /\ id \notin DOMAIN pendingHeavy
<1>1. /\ id \in 1 .. Total /\ \A i \in DOMAIN pendingHeavy : i < id
  BY DEF NextHeavyId
<1>2. QED  BY <1>1

\* Lines taken out of a lane.
LEMMA LeaveLane ==
  ASSUME IInv, NEW l \in Lanes, NEW B, B \subseteq lanes[l],
         lanes' = [lanes EXCEPT ![l] = @ \ B]
  PROVE  /\ lanes' \in [Lanes -> SUBSET Seqs]
         /\ LaneLines' = LaneLines \ B /\ B \subseteq LaneLines
         /\ B \in SUBSET Seqs
         /\ \A k \in Lanes : \A s \in lanes'[k] : kind[s] = k
<1>1. lanes \in [Lanes -> SUBSET Seqs]
  BY Parts
<1>2. \A k \in Lanes : lanes'[k] = IF k = l THEN lanes[l] \ B ELSE lanes[k]
  BY <1>1
<1>3. \A k \in Lanes : \A s \in lanes[k] : kind[s] = k
  BY DEF IInv
<1>4. lanes' \in [Lanes -> SUBSET Seqs] /\ B \in SUBSET Seqs
  BY <1>1
<1>5. \A k \in Lanes : \A s \in lanes'[k] : kind[s] = k
  BY <1>2, <1>3
<1>6. LaneLines' = LaneLines \ B /\ B \subseteq LaneLines
  BY <1>2, <1>3 DEF LaneLines
<1>7. QED  BY <1>4, <1>5, <1>6

\* What the heavy tasks are when a call of _submit_heavy_lanes is over: t, or
\* what is left of t when the ended tasks have been taken out.
LEMMA HeavyTaken ==
  ASSUME NEW t, TableApart(t), TableOf(t, 1 .. Total, HeavyTasks),
         DOMAIN collecting = {},
         TableOf(collecting, 0 .. Total, Task \cup HeavyTasks),
         \/ BeginCollectHeavy(t)
         \/ pendingHeavy' = t /\ collecting' = collecting
  PROVE  /\ LinesOf(pendingHeavy') = LinesOf(t) \ LinesOf(collecting')
         /\ LinesOf(collecting') \subseteq LinesOf(t)
         /\ TableApart(pendingHeavy') /\ TableApart(collecting')
         /\ TableOf(pendingHeavy', 1 .. Total, HeavyTasks)
         /\ TableOf(collecting', 0 .. Total, Task \cup HeavyTasks)
<1>1. CASE pendingHeavy' = t /\ collecting' = collecting
  <2>1. LinesOf(collecting') = {} /\ TableApart(collecting')
    BY <1>1, NoLines
  <2>2. QED  BY <1>1, <2>1
<1>2. CASE collecting' = Only(t, Ended) /\ pendingHeavy' = Only(t, Running)
  <2>1. Parted(collecting', pendingHeavy', t)
    BY <1>2, Split
  <2>2. /\ TableOf(collecting', 1 .. Total, HeavyTasks)
        /\ TableOf(pendingHeavy', 1 .. Total, HeavyTasks)
    BY <1>2, TypedOnly
  <2>3. TableOf(collecting', 0 .. Total, Task \cup HeavyTasks)
    <3>1. 1 .. Total \subseteq 0 .. Total
      BY BoundsAssumption
    <3>2. QED  BY <2>2, <3>1, TypedMore, EitherTask
  <2>4. QED  BY <1>2, <2>1, <2>2, <2>3 DEF Parted
<1>3. QED  BY <1>1, <1>2 DEF BeginCollectHeavy

\* The lines B, in no lane any more or none at all, are in table t now.
LEMMA Submitted ==
  ASSUME IInv, DOMAIN collecting = {}, NEW B, NEW t,
         TableApart(t), TableOf(t, 1 .. Total, HeavyTasks),
         LinesOf(t) = LinesOf(pendingHeavy) \cup B,
         B \subseteq LaneLines, LaneLines' = LaneLines \ B,
         lanes' \in [Lanes -> SUBSET Seqs],
         \A k \in Lanes : \A s \in lanes'[k] : kind[s] = k,
         \/ BeginCollectHeavy(t) /\ EndSubmit
         \/ /\ pendingHeavy' = t /\ collecting' = collecting
            /\ pc' \notin {"collectFast", "collectHeavy"},
         UNCHANGED <<kind, readQueue, pendingFast, lost, delivered, sent, batchInHand>>
  PROVE  IInv'
<1>1. /\ LinesOf(pendingHeavy') = LinesOf(t) \ LinesOf(collecting')
      /\ LinesOf(collecting') \subseteq LinesOf(t)
      /\ TableApart(pendingHeavy') /\ TableApart(collecting')
      /\ TableOf(pendingHeavy', 1 .. Total, HeavyTasks)
      /\ TableOf(collecting', 0 .. Total, Task \cup HeavyTasks)
  <2>1. TableOf(collecting, 0 .. Total, Task \cup HeavyTasks)
    BY Parts
  <2>2. QED  BY <2>1, HeavyTaken
<1>2. QueuedLines' = QueuedLines
  BY SameLines
<1>3. LinesOf(collecting) = {}
  BY NoLines
<1>4. Placed'
  BY <1>1, <1>2, <1>3, Parts DEF Placed, Apart
<1>5. Typed'
  BY <1>1, Parts DEF Typed
<1>6. pc' \notin {"collectFast", "collectHeavy"} => DOMAIN collecting' = {}
  BY DEF BeginCollectHeavy, EndSubmit
<1>7. QED  BY <1>1, <1>4, <1>5, <1>6 DEF IInv, TableApart, QueueApart

\* No line is submitted.
LEMMA SubmittedNone ==
  ASSUME IInv, DOMAIN collecting = {}, BeginCollectHeavy(pendingHeavy), EndSubmit,
         UNCHANGED <<kind, readQueue, pendingFast, lanes, lost, delivered, sent,
                     batchInHand>>
  PROVE  IInv'
<1>1. /\ LaneLines' = LaneLines \ {} /\ {} \subseteq LaneLines
      /\ LinesOf(pendingHeavy) = LinesOf(pendingHeavy) \cup {}
  BY SameLines
<1>2. /\ TableApart(pendingHeavy) /\ TableOf(pendingHeavy, 1 .. Total, HeavyTasks)
      /\ lanes' \in [Lanes -> SUBSET Seqs]
      /\ \A k \in Lanes : \A s \in lanes'[k] : kind[s] = k
  BY Parts DEF IInv
<1>3. QED  BY <1>1, <1>2, Submitted

\* Lines B of lane l become a task.
LEMMA SubmittedSome ==
  ASSUME IInv, DOMAIN collecting = {}, NEW l \in Lanes, NEW B, B \subseteq lanes[l],
         lanes' = [lanes EXCEPT ![l] = @ \ B],
         NEW id \in NextHeavyId,
         LET t == With(pendingHeavy, id, HeavyTask(B, l))
         IN \/ BeginCollectHeavy(t) /\ EndSubmit
            \/ /\ pendingHeavy' = t /\ collecting' = collecting
               /\ pc' \notin {"collectFast", "collectHeavy"},
         UNCHANGED <<kind, readQueue, pendingFast, lost, delivered, sent, batchInHand>>
  PROVE  IInv'
<1> DEFINE task == HeavyTask(B, l)
           t == With(pendingHeavy, id, task)
<1>1. /\ lanes' \in [Lanes -> SUBSET Seqs]
      /\ LaneLines' = LaneLines \ B /\ B \subseteq LaneLines
      /\ B \in SUBSET Seqs
      /\ \A k \in Lanes : \A s \in lanes'[k] : kind[s] = k
  BY LeaveLane
<1>2. task.lines = B /\ task \in HeavyTasks
  BY <1>1 DEF HeavyTask, HeavyTasks
<1>3. id \in 1 .. Total /\ id \notin DOMAIN pendingHeavy
  BY FreeId
<1>4. \/ BeginCollectHeavy(t) /\ EndSubmit
      \/ /\ pendingHeavy' = t /\ collecting' = collecting
         /\ pc' \notin {"collectFast", "collectHeavy"}
  OBVIOUS
<1> HIDE DEF task
<1>5. TableApart(pendingHeavy) /\ task.lines \cap LinesOf(pendingHeavy) = {}
  BY <1>1, <1>2, Parts DEF Placed, Apart
<1>6. Added(t, pendingHeavy, id, task)
  BY <1>3, <1>5, WithTask
<1>7. TableOf(t, 1 .. Total, HeavyTasks)
  <2>1. TableOf(pendingHeavy, 1 .. Total, HeavyTasks)
    BY Parts
  <2>2. QED  BY <1>2, <1>3, <2>1, TypedWith
<1> HIDE DEF t
<1>8. TableApart(t) /\ LinesOf(t) = LinesOf(pendingHeavy) \cup B
  BY <1>2, <1>6 DEF Added
<1>9. QED  BY <1>1, <1>4, <1>7, <1>8, Submitted

LEMMA SubmitNothingStep == ASSUME IInv, SubmitNothing PROVE IInv'
<1>1. /\ BeginCollectHeavy(pendingHeavy) /\ EndSubmit /\ DOMAIN collecting = {}
      /\ UNCHANGED <<kind, readQueue, pendingFast, lanes, lost, delivered, sent,
                     batchInHand>>
  BY Parts DEF SubmitNothing, coordVars, readerVars
<1>2. QED  BY <1>1, SubmittedNone

LEMMA SubmitHeadStep == ASSUME IInv, SubmitHead PROVE IInv'
<1>1. /\ EndSubmit /\ DOMAIN collecting = {}
      /\ UNCHANGED <<kind, readQueue, pendingFast, lost, delivered, sent, batchInHand>>
  BY Parts DEF SubmitHead, coordVars, readerVars
<1>2. PICK l \in Lanes, id \in NextHeavyId :
        /\ head \in lanes[l] /\ lanes' = [lanes EXCEPT ![l] = @ \ {head}]
        /\ BeginCollectHeavy(With(pendingHeavy, id, HeavyTask({head}, l)))
  BY DEF SubmitHead
<1>3. {head} \subseteq lanes[l]
  BY <1>2
<1>4. QED  BY <1>1, <1>2, <1>3, SubmittedSome

LEMMA SubmitFromLaneStep == ASSUME IInv, SubmitFromLane, LaneOrder[lane] \in Lanes
                            PROVE  IInv'
<1> DEFINE l == LaneOrder[lane]
           B == PickBatch(l)
<1>1. /\ DOMAIN collecting = {} /\ collecting' = collecting
      /\ pc' \notin {"collectFast", "collectHeavy"}
      /\ UNCHANGED <<kind, readQueue, pendingFast, lost, delivered, sent, batchInHand>>
  BY Parts DEF SubmitFromLane, coordVars, readerVars
<1>2. /\ lanes' = [lanes EXCEPT ![l] = @ \ B]
      /\ \E id \in NextHeavyId : pendingHeavy' = With(pendingHeavy, id, HeavyTask(B, l))
  BY DEF SubmitFromLane
<1>3. B \subseteq lanes[l]
  BY DEF PickBatch
<1> HIDE DEF l, B
<1>4. PICK id \in NextHeavyId : pendingHeavy' = With(pendingHeavy, id, HeavyTask(B, l))
  BY <1>2
<1>5. l \in Lanes
  BY DEF l
<1>6. QED  BY <1>1, <1>2, <1>3, <1>4, <1>5, SubmittedSome

LEMMA NextLaneStep == ASSUME IInv, NextLane PROVE IInv'
<1>1. /\ DOMAIN collecting = {}
      /\ UNCHANGED <<kind, readQueue, pendingFast, lanes, lost, delivered, sent,
                     batchInHand>>
      /\ \/ UNCHANGED <<pc, pendingHeavy, collecting>>
         \/ BeginCollectHeavy(pendingHeavy) /\ EndSubmit
  BY Parts DEF NextLane, coordVars, readerVars
<1>2. CASE UNCHANGED <<pc, pendingHeavy, collecting>>
  <2>1. batchInHand' \in Nat /\ sent + batchInHand' <= Total
    BY <1>1, Parts DEF Typed
  <2>2. QED  BY <1>1, <1>2, <2>1, Beside
<1>3. CASE BeginCollectHeavy(pendingHeavy) /\ EndSubmit
  BY <1>1, <1>3, SubmittedNone
<1>4. QED  BY <1>1, <1>2, <1>3
--------------------------------------------------------------------------------
(***************************************************************************)
(* The theorems.                                                            *)
(***************************************************************************)

\* The position of the scheduler in ALL_LANES.
InOrder == lane \in 1 .. 3

LEMMA LaneStep == InOrder /\ [Next]_vars => InOrder'
<1> SUFFICES ASSUME InOrder, [Next]_vars PROVE InOrder'
  OBVIOUS
<1>1. lane' = lane \/ lane' = 1 \/ (lane < Len(LaneOrder) /\ lane' = lane + 1)
  <2>1. CASE ReaderStep
    BY <2>1
    DEF ReaderStep, FillBatch, PutBatch, DropBatch, EndOfSources, ReaderRaises,
        PutSentinel, localVars
  <2>2. CASE WorkerStep
    BY <2>2
    DEF WorkerStep, FastFinishes, FastFails, HeavyFinishes, HeavyFails, FastEnds,
        HeavyEnds, localVars
  <2>3. CASE LeaveLoop \/ StartPass \/ PullBatch \/ PullSentinel \/ EndPull
    BY <2>3 DEF LeaveLoop, StartPass, PullBatch, PullSentinel, EndPull, localVars
  <2>4. CASE CollectFast \/ FallBack \/ EndCollectFast \/ ReadHead \/ SubmitLanes
    BY <2>4 DEF CollectFast, FallBack, EndCollectFast, ReadHead, SubmitLanes, localVars
  <2>5. CASE SubmitNothing \/ SubmitHead \/ SubmitFromLane \/ NextLane
    BY <2>5 DEF SubmitNothing, SubmitHead, SubmitFromLane, NextLane, EndSubmit, localVars
  <2>6. CASE CollectHeavy \/ LoseHeavy \/ EndCollectHeavy \/ StopCoordinator \/ Join
    BY <2>6 DEF CollectHeavy, LoseHeavy, EndCollectHeavy, StopCoordinator, Join, localVars
  <2>7. CASE ApplyThread \/ LimitReached \/ DrainExpires \/ StopSignal
    BY <2>7 DEF ApplyThread, LimitReached, DrainExpires, StopSignal, localVars
  <2>8. CASE UNCHANGED vars
    BY <2>8 DEF vars, localVars
  <2>9. QED
    BY <2>1, <2>2, <2>3, <2>4, <2>5, <2>6, <2>7, <2>8 DEF Next, SchedulerStep
<1>2. Len(LaneOrder) = 3
  BY DEF LaneOrder
<1>3. QED  BY <1>1, <1>2 DEF InOrder

LEMMA NextIInv == IInv /\ InOrder /\ [Next]_vars => IInv'
<1> SUFFICES ASSUME IInv, InOrder, [Next]_vars PROVE IInv'
  OBVIOUS
<1>1. CASE ReaderStep
  BY <1>1, QuietSteps, PutBatchStep, PutSentinelStep DEF ReaderStep
<1>2. CASE WorkerStep
  BY <1>2, WorkerSteps
<1>3. CASE SchedulerStep
  <2>1. LaneOrder[lane] \in Lanes
    BY DEF InOrder, LaneOrder, Lanes
  <2>2. CASE \/ LeaveLoop \/ EndCollectFast \/ ReadHead \/ SubmitLanes
             \/ EndCollectHeavy \/ StopCoordinator \/ Join
    BY <2>2, QuietSteps
  <2>3. CASE StartPass \/ PullBatch \/ PullSentinel \/ EndPull
    BY <2>3, PassSteps, PullBatchStep, PullSentinelStep
  <2>4. CASE CollectFast \/ FallBack \/ CollectHeavy \/ LoseHeavy
    BY <2>4, CollectFastStep, FallBackStep, CollectHeavyStep, LoseHeavyStep
  <2>5. CASE SubmitNothing \/ SubmitHead \/ SubmitFromLane \/ NextLane
    BY <2>1, <2>5, SubmitNothingStep, SubmitHeadStep, SubmitFromLaneStep, NextLaneStep
  <2>6. QED  BY <1>3, <2>2, <2>3, <2>4, <2>5 DEF SchedulerStep
<1>4. CASE ApplyThread \/ LimitReached \/ DrainExpires \/ StopSignal \/ UNCHANGED vars
  BY <1>4, QuietSteps
<1>5. QED  BY <1>1, <1>2, <1>3, <1>4 DEF Next

\* The inductive invariant, of the specification.
LEMMA Invariance == Spec => [](IInv /\ InOrder)
<1>1. Init => IInv /\ InOrder
  BY InitIInv DEF Init, InOrder
<1>2. IInv /\ InOrder /\ [Next]_vars => (IInv /\ InOrder)'
  BY NextIInv, LaneStep
<1>3. QED  BY <1>1, <1>2, PTL DEF Spec

(* A line the reader has handed over is at every moment in exactly one of   *)
(* queue, task, lane, coordinator and the lines lost with a failed heavy    *)
(* task (run_graph_merge, _collect_fast, _submit_heavy_lanes,               *)
(* _collect_heavy): for any number of lines, any limits and any faults.     *)
THEOREM OnePlace == Spec => []EachLineInOnePlace
<1>1. IInv => EachLineInOnePlace
  <2> SUFFICES ASSUME IInv PROVE EachLineInOnePlace
    OBVIOUS
  <2>1. Placed
    BY Parts
  <2>2. QED  BY <2>1, ApartIsOnePlace DEF Placed, EachLineInOnePlace
<1>2. QED  BY <1>1, Invariance, PTL

LEMMA CoordinatorStep == IInv /\ [Next]_vars => [Coord!Next]_(Coord!vars)
<1> SUFFICES ASSUME IInv, [Next]_vars PROVE [Coord!Next]_(Coord!vars)
  OBVIOUS
<1> USE DEF Coord!vars
<1>1. ASSUME NEW id \in DOMAIN collecting, NEW T, T \subseteq collecting[id].lines,
             Coord!Ingest(T)
      PROVE  Coord!Next
  <2>1. T \subseteq LinesOf(collecting)
    BY <1>1 DEF LinesOf
  <2>2. T \cap delivered = {} /\ T \in SUBSET Seqs
    <3>1. collecting[id].lines \in SUBSET Seqs
      BY TaskLines, Parts
    <3>2. LinesOf(collecting) \cap delivered = {}
      BY Parts DEF Placed, Apart
    <3>3. QED  BY <1>1, <2>1, <3>1, <3>2
  <2>3. T \in SUBSET (Coord!Seqs \ delivered)
    BY <2>2 DEF Seqs, Coord!Seqs
  <2>4. QED  BY <1>1, <2>3 DEF Coord!Next, Coord!Deliver
<1>2. CASE ReaderStep
  BY <1>2
  DEF ReaderStep, FillBatch, PutBatch, DropBatch, EndOfSources, ReaderRaises,
      PutSentinel, coordVars
<1>3. CASE WorkerStep
  BY <1>3
  DEF WorkerStep, FastFinishes, FastFails, HeavyFinishes, HeavyFails, FastEnds,
      HeavyEnds, coordVars
<1>4. CASE LeaveLoop \/ StartPass \/ PullBatch \/ PullSentinel \/ EndPull
  BY <1>4 DEF LeaveLoop, StartPass, PullBatch, PullSentinel, EndPull, coordVars
<1>5. CASE CollectFast
  <2>1. PICK id \in DOMAIN collecting :
          LET terminal == {s \in collecting[id].lines : kind[s] = "terminal"}
          IN IF terminal = {} THEN UNCHANGED coordVars ELSE Coord!Ingest(terminal)
    BY <1>5 DEF CollectFast
  <2> DEFINE T == {s \in collecting[id].lines : kind[s] = "terminal"}
  <2>2. T \subseteq collecting[id].lines
    OBVIOUS
  <2>3. UNCHANGED coordVars \/ Coord!Ingest(T)
    BY <2>1
  <2> HIDE DEF T
  <2>4. QED  BY <1>1, <2>2, <2>3 DEF coordVars
<1>6. CASE FallBack \/ CollectHeavy
  <2>1. PICK id \in DOMAIN collecting : Coord!Ingest(collecting[id].lines)
    BY <1>6 DEF FallBack, CollectHeavy
  <2>2. QED  BY <1>1, <2>1
<1>7. CASE \/ EndCollectFast \/ ReadHead \/ SubmitNothing \/ SubmitHead
           \/ SubmitLanes \/ SubmitFromLane \/ NextLane \/ LoseHeavy
           \/ EndCollectHeavy \/ Join
  BY <1>7
  DEF EndCollectFast, ReadHead, SubmitNothing, SubmitHead, SubmitLanes,
      SubmitFromLane, NextLane, LoseHeavy, EndCollectHeavy, Join, coordVars
<1>8. CASE StopCoordinator
  BY <1>8 DEF StopCoordinator, Coord!Next
<1>9. CASE ApplyThread
  BY <1>9 DEF ApplyThread, Coord!Next, Coord!ApplyStep
<1>10. CASE LimitReached \/ DrainExpires \/ StopSignal
  BY <1>10 DEF LimitReached, DrainExpires, StopSignal, coordVars
<1>11. CASE UNCHANGED vars
  BY <1>11 DEF vars, coordVars
<1>12. QED
  BY <1>2, <1>3, <1>4, <1>5, <1>6, <1>7, <1>8, <1>9, <1>10, <1>11
  DEF Next, SchedulerStep

(* The scheduler is an environment that ApplyCoordinator allows for: it     *)
(* gives each line to the coordinator once, and nothing after stop(),       *)
(* whatever is run again, lost or cut off by a deadline.                    *)
THEOREM LegalEnvironment == Spec => UsesCoordinatorAsSpecified
<1>1. Init => Coord!Init
  BY DEF Init
<1>2. QED
  BY <1>1, CoordinatorStep, Invariance, PTL DEF Spec, UsesCoordinatorAsSpecified, Coord!Spec

CoordProofs == INSTANCE ApplyCoordinatorProofs
                 WITH ApplyMayRaise <- "apply_raises" \in Faults

(* So what is proved of the coordinator holds in every run of the merge     *)
(* graph: the output is in document order without hole or repetition, and   *)
(* a line given to the coordinator is not lost ("in strict document         *)
(* sequence", scheduler.mdx).                                               *)
THEOREM OutputOfARun == Spec => [](Coord!WrittenInOrder /\ Coord!NothingLost)
<1>1. ("apply_raises" \in Faults) \in BOOLEAN /\ Total \in Nat
  BY BoundsAssumption
<1>2. CoordProofs!Spec => []CoordProofs!WrittenInOrder
  BY <1>1, CoordProofs!OutputInOrder
<1>3. CoordProofs!Spec => []CoordProofs!NothingLost
  BY <1>1, CoordProofs!NoLineLost
<1>4. Coord!Init => CoordProofs!Init
  BY DEF Coord!Init, CoordProofs!Init
<1>5. [Coord!Next]_(Coord!vars) => [CoordProofs!Next]_(CoordProofs!vars)
  BY
  DEF Coord!vars, Coord!Next, Coord!Deliver, Coord!Ingest, Coord!Stop, Coord!ApplyStep,
      Coord!Pop, Coord!Apply, Coord!Raise, Coord!Advance, Coord!Exit, Coord!HeadReady,
      Coord!Seqs, CoordProofs!vars, CoordProofs!Next, CoordProofs!Deliver,
      CoordProofs!Ingest, CoordProofs!Stop, CoordProofs!ApplyStep, CoordProofs!Pop,
      CoordProofs!Apply, CoordProofs!Raise, CoordProofs!Advance, CoordProofs!Exit,
      CoordProofs!HeadReady, CoordProofs!Seqs
<1>6. CoordProofs!WrittenInOrder => Coord!WrittenInOrder
  BY DEF Coord!WrittenInOrder, CoordProofs!WrittenInOrder
<1>7. CoordProofs!NothingLost => Coord!NothingLost
  BY DEF Coord!NothingLost, CoordProofs!NothingLost, Coord!WrittenSet,
         CoordProofs!WrittenSet, Coord!InHand, CoordProofs!InHand
<1>8. QED
  BY <1>2, <1>3, <1>4, <1>5, <1>6, <1>7, LegalEnvironment, PTL
  DEF UsesCoordinatorAsSpecified, Coord!Spec, CoordProofs!Spec

--------------------------------------------------------------------------------
(***************************************************************************)
(* How a run ends.  The place of every line comes from above, and what the  *)
(* coordinator did with the lines it was given from ApplyCoordinatorProofs. *)
(***************************************************************************)

\* The reader holds a batch only while it reads, and it has a reason to end.
ReaderThrough ==
  /\ batchInHand > 0 => readerPc = "reading"
  /\ readerPc # "reading" => sent = Total \/ readerFailed \/ StopEvent

\* Nothing is behind the sentinel in the queue.
SentinelLast ==
  \A i \in DOMAIN readQueue :
    readQueue[i] = Sentinel => readerPc = "done" /\ i = Len(readQueue)

QueueDrained == readerDone => readerPc = "done" /\ readQueue = <<>>

\* The loop is left with nothing in flight, or because it was asked to end.
WhyLeft == pc \in {"left", "joining", "ended"} => StopEvent \/ AllCollected

CompleteUnasked == outcome = "complete" => pc = "ended" /\ ~StopEvent

\* The inductive invariant, beside IInv.
Ends == ReaderThrough /\ SentinelLast /\ QueueDrained /\ WhyLeft /\ CompleteUnasked
--------------------------------------------------------------------------------
(***************************************************************************)
(* The reader and its queue.                                                *)
(***************************************************************************)
LEMMA StopStays == [Next]_vars /\ StopEvent => StopEvent'
<1> SUFFICES ASSUME [Next]_vars, StopEvent PROVE StopEvent'
  OBVIOUS
<1> USE DEF StopEvent, localVars, envVars
<1>1. CASE ReaderStep
  BY <1>1
  DEF ReaderStep, FillBatch, PutBatch, DropBatch, EndOfSources, ReaderRaises,
      PutSentinel
<1>2. CASE WorkerStep
  BY <1>2
  DEF WorkerStep, FastFinishes, FastFails, HeavyFinishes, HeavyFails, FastEnds,
      HeavyEnds
<1>3. CASE LeaveLoop \/ StartPass \/ PullBatch \/ PullSentinel \/ EndPull
  BY <1>3 DEF LeaveLoop, StartPass, PullBatch, PullSentinel, EndPull
<1>4. CASE CollectFast \/ FallBack \/ EndCollectFast \/ ReadHead \/ SubmitLanes
  BY <1>4 DEF CollectFast, FallBack, EndCollectFast, ReadHead, SubmitLanes
<1>5. CASE SubmitNothing \/ SubmitHead \/ SubmitFromLane \/ NextLane
  BY <1>5 DEF SubmitNothing, SubmitHead, SubmitFromLane, NextLane
<1>6. CASE CollectHeavy \/ LoseHeavy \/ EndCollectHeavy \/ StopCoordinator \/ Join
  BY <1>6 DEF CollectHeavy, LoseHeavy, EndCollectHeavy, StopCoordinator, Join
<1>7. CASE ApplyThread \/ LimitReached \/ DrainExpires \/ StopSignal
  BY <1>7 DEF ApplyThread, LimitReached, DrainExpires, StopSignal
<1>8. CASE UNCHANGED vars
  BY <1>8 DEF vars
<1>9. QED
  BY <1>1, <1>2, <1>3, <1>4, <1>5, <1>6, <1>7, <1>8 DEF Next, SchedulerStep

ReaderPart == ReaderThrough /\ SentinelLast /\ QueueDrained

LEMMA ReaderUntouched ==
  ASSUME ReaderPart, StopEvent => StopEvent',
         UNCHANGED <<readerPc, sent, batchInHand, readerFailed, readQueue, readerDone>>
  PROVE  ReaderPart'
BY DEF ReaderPart, ReaderThrough, SentinelLast, QueueDrained

\* The reader's steps beside the queue.
LEMMA ReaderMoves ==
  ASSUME ReaderPart, StopEvent => StopEvent',
         FillBatch \/ DropBatch \/ EndOfSources \/ ReaderRaises
  PROVE  ReaderPart'
<1>1. /\ readQueue' = readQueue /\ readerDone' = readerDone /\ sent' = sent
      /\ readerPc = "done" => readerPc' = "done"
  BY DEF FillBatch, DropBatch, EndOfSources, ReaderRaises, localVars
<1>2. SentinelLast' /\ QueueDrained'
  BY <1>1 DEF ReaderPart, SentinelLast, QueueDrained
<1>3. ReaderThrough'
  BY DEF ReaderPart, ReaderThrough, FillBatch, DropBatch, EndOfSources, ReaderRaises
<1>4. QED  BY <1>2, <1>3 DEF ReaderPart

\* A batch or the sentinel is put into a queue without the sentinel.
LEMMA QueuePuts ==
  ASSUME IInv, ReaderPart, StopEvent => StopEvent', PutBatch \/ PutSentinel
  PROVE  ReaderPart'
<1>1. readQueue \in Seq(SUBSET Seqs) /\ sent \in Nat /\ batchInHand \in Nat
  BY Parts DEF Typed
<1>2. readerPc # "done" /\ readerDone' = readerDone
  BY DEF PutBatch, PutSentinel, ReaderPart, ReaderThrough, localVars
<1>3. \A i \in DOMAIN readQueue : readQueue[i] # Sentinel
  BY <1>2 DEF ReaderPart, SentinelLast
<1>4. QueueDrained'
  BY <1>2 DEF ReaderPart, QueueDrained
<1>5. CASE PutBatch
  <2> DEFINE B == sent .. sent + batchInHand - 1
  <2>1. /\ batchInHand > 0 /\ batchInHand' = 0 /\ readerPc = "reading"
        /\ readerPc' = readerPc /\ readQueue' = Append(readQueue, B)
    BY <1>5 DEF PutBatch, ReaderPart, ReaderThrough
  <2>2. sent \in B
    BY <1>1, <2>1
  <2>3. B # Sentinel
    BY <2>2 DEF Sentinel
  <2> HIDE DEF B
  <2>4. /\ DOMAIN readQueue' = DOMAIN readQueue \cup {Len(readQueue) + 1}
        /\ \A i \in DOMAIN readQueue : readQueue'[i] = readQueue[i]
        /\ readQueue'[Len(readQueue) + 1] = B
    BY <1>1, <2>1
  <2>5. \A i \in DOMAIN readQueue' : readQueue'[i] # Sentinel
    BY <1>3, <2>3, <2>4
  <2>6. SentinelLast' /\ ReaderThrough'
    BY <2>1, <2>5 DEF SentinelLast, ReaderThrough, Sentinel
  <2>7. QED  BY <1>4, <2>6 DEF ReaderPart
<1>6. CASE PutSentinel
  <2>1. /\ readerPc = "closing" /\ readerPc' = "done"
        /\ sent' = sent /\ batchInHand' = batchInHand /\ readerFailed' = readerFailed
        /\ readQueue' = Append(readQueue, Sentinel)
    BY <1>6 DEF PutSentinel
  <2>2. /\ DOMAIN readQueue' = DOMAIN readQueue \cup {Len(readQueue) + 1}
        /\ \A i \in DOMAIN readQueue : readQueue'[i] = readQueue[i]
        /\ Len(readQueue') = Len(readQueue) + 1
    BY <1>1, <2>1 DEF Sentinel
  <2>3. SentinelLast'
    BY <1>3, <2>1, <2>2 DEF SentinelLast, Sentinel
  <2>4. ReaderThrough'
    BY <2>1 DEF ReaderPart, ReaderThrough
  <2>5. QED  BY <1>4, <2>3, <2>4 DEF ReaderPart
<1>7. QED  BY <1>5, <1>6

LEMMA QueuePulls ==
  ASSUME IInv, ReaderPart, StopEvent => StopEvent', PullBatch \/ PullSentinel
  PROVE  ReaderPart'
<1>1. readQueue \in Seq(SUBSET Seqs)
  BY Parts
<1>2. /\ ~readerDone /\ readQueue # <<>> /\ readQueue' = Tail(readQueue)
      /\ UNCHANGED <<readerPc, sent, batchInHand, readerFailed>>
  BY DEF PullBatch, PullSentinel, MayPull, readerVars
<1>3. ReaderThrough'
  BY <1>2 DEF ReaderPart, ReaderThrough
<1>4. /\ Len(readQueue') = Len(readQueue) - 1 /\ Len(readQueue) \in Nat
      /\ DOMAIN readQueue = 1 .. Len(readQueue)
      /\ DOMAIN readQueue' = 1 .. Len(readQueue')
      /\ \A i \in DOMAIN readQueue' :
           i + 1 \in DOMAIN readQueue /\ readQueue'[i] = readQueue[i + 1]
  BY <1>1, <1>2
<1>5. SentinelLast'
  <2>1. ASSUME NEW i \in DOMAIN readQueue', readQueue'[i] = Sentinel
        PROVE  readerPc = "done" /\ i = Len(readQueue')
    <3>1. readerPc = "done" /\ i + 1 = Len(readQueue)
      BY <1>4, <2>1 DEF ReaderPart, SentinelLast
    <3>2. QED  BY <1>4, <3>1
  <2>2. QED  BY <1>2, <2>1 DEF SentinelLast, Sentinel
<1>6. QueueDrained'
  <2>1. CASE PullBatch
    BY <1>2, <2>1 DEF PullBatch, QueueDrained, localVars
  <2>2. CASE PullSentinel
    <3>1. readQueue[1] = Sentinel /\ 1 \in DOMAIN readQueue
      BY <1>1, <1>2, <1>4, <2>2 DEF PullSentinel
    <3>2. readerPc = "done" /\ Len(readQueue) = 1
      BY <3>1 DEF ReaderPart, SentinelLast
    <3>3. readQueue' = <<>>
      BY <1>1, <1>2, <3>2
    <3>4. QED  BY <1>2, <3>2, <3>3 DEF QueueDrained
  <2>3. QED  BY <2>1, <2>2
<1>7. QED  BY <1>3, <1>5, <1>6 DEF ReaderPart

LEMMA ReaderPartStep == IInv /\ ReaderPart /\ [Next]_vars => ReaderPart'
<1> SUFFICES ASSUME IInv, ReaderPart, [Next]_vars PROVE ReaderPart'
  OBVIOUS
<1>1. StopEvent => StopEvent'
  BY StopStays
<1> DEFINE Same ==
      UNCHANGED <<readerPc, sent, batchInHand, readerFailed, readQueue, readerDone>>
<1>2. CASE ReaderStep
  BY <1>1, <1>2, ReaderMoves, QueuePuts DEF ReaderStep
<1>3. CASE PullBatch \/ PullSentinel
  BY <1>1, <1>3, QueuePulls
<1>4. CASE WorkerStep
  <2>1. Same
    BY <1>4
    DEF WorkerStep, FastFinishes, FastFails, HeavyFinishes, HeavyFails, FastEnds,
        HeavyEnds, readerVars, localVars
  <2>2. QED  BY <1>1, <2>1, ReaderUntouched
<1>5. CASE \/ LeaveLoop \/ StartPass \/ EndPull \/ CollectFast \/ FallBack
           \/ EndCollectFast \/ ReadHead \/ SubmitNothing \/ SubmitHead
  <2>1. Same
    BY <1>5
    DEF LeaveLoop, StartPass, EndPull, CollectFast, FallBack, EndCollectFast, ReadHead,
        SubmitNothing, SubmitHead, readerVars, localVars
  <2>2. QED  BY <1>1, <2>1, ReaderUntouched
<1>6. CASE \/ SubmitLanes \/ SubmitFromLane \/ NextLane \/ CollectHeavy \/ LoseHeavy
           \/ EndCollectHeavy \/ StopCoordinator \/ Join
  <2>1. Same
    BY <1>6
    DEF SubmitLanes, SubmitFromLane, NextLane, CollectHeavy, LoseHeavy,
        EndCollectHeavy, StopCoordinator, Join, readerVars, localVars
  <2>2. QED  BY <1>1, <2>1, ReaderUntouched
<1>7. CASE ApplyThread \/ LimitReached \/ DrainExpires \/ StopSignal \/ UNCHANGED vars
  <2>1. Same
    BY <1>7
    DEF ApplyThread, LimitReached, DrainExpires, StopSignal, vars, readerVars, localVars
  <2>2. QED  BY <1>1, <2>1, ReaderUntouched
<1>8. QED
  BY <1>2, <1>3, <1>4, <1>5, <1>6, <1>7 DEF Next, SchedulerStep
--------------------------------------------------------------------------------
(***************************************************************************)
(* The end of a run.                                                        *)
(***************************************************************************)
LEMMA SchedulerIsThrough ==
  ASSUME SchedulerStep, pc \in {"left", "joining", "ended"}
  PROVE  StopCoordinator \/ Join
BY DEF SchedulerStep, LeaveLoop, StartPass, PullBatch, PullSentinel, EndPull,
       CollectFast, FallBack, EndCollectFast, ReadHead, SubmitNothing, SubmitHead,
       SubmitLanes, SubmitFromLane, NextLane, CollectHeavy, LoseHeavy, EndCollectHeavy

LEMMA SchedulerStays ==
  ASSUME SchedulerStep, pc' \in {"left", "joining", "ended"}
  PROVE  LeaveLoop \/ StopCoordinator \/ Join
BY DEF SchedulerStep, StartPass, PullBatch, PullSentinel, EndPull, BeginCollectFast,
       CollectFast, FallBack, EndCollectFast, ReadGap, ReadHead, SubmitNothing,
       SubmitHead, SubmitLanes, SubmitFromLane, NextLane, EndSubmit, CollectHeavy,
       LoseHeavy, EndCollectHeavy

LEMMA AllStaysCollected ==
  ASSUME AllCollected, readerDone' = readerDone, pendingFast' = pendingFast,
         pendingHeavy' = pendingHeavy, lanes' = lanes
  PROVE  AllCollected'
BY DEF AllCollected, LaneTotal, LaneLines

LEMMA WhyLeftStep == WhyLeft /\ [Next]_vars => WhyLeft'
<1> SUFFICES ASSUME WhyLeft, [Next]_vars, pc' \in {"left", "joining", "ended"}
             PROVE  StopEvent' \/ AllCollected'
  BY DEF WhyLeft
<1>1. StopEvent => StopEvent'
  BY StopStays
<1>2. CASE ReaderStep
  <2>1. pc' = pc /\ UNCHANGED <<readerDone, pendingFast, pendingHeavy, lanes>>
    BY <1>2
    DEF ReaderStep, FillBatch, PutBatch, DropBatch, EndOfSources, ReaderRaises,
        PutSentinel, taskVars, localVars
  <2>2. QED  BY <1>1, <2>1, AllStaysCollected DEF WhyLeft
<1>3. CASE WorkerStep
  <2>1. DOMAIN NoTasks = {}
    BY DEF NoTasks
  <2>2. pc' = pc /\ ~AllCollected
    BY <1>3, <2>1
    DEF WorkerStep, FastFinishes, FastFails, HeavyFinishes, HeavyFails, FastEnds,
        HeavyEnds, AllCollected
  <2>3. QED  BY <1>1, <2>2 DEF WhyLeft
<1>4. CASE SchedulerStep
  <2>1. LeaveLoop \/ StopCoordinator \/ Join
    BY <1>4, SchedulerStays
  <2>2. UNCHANGED <<readerDone, pendingFast, pendingHeavy, lanes>>
    BY <2>1 DEF LeaveLoop, StopCoordinator, Join, taskVars, localVars
  <2>3. StopEvent \/ AllCollected
    BY <2>1 DEF LeaveLoop, Leaving, DrainDone, StopEvent, WhyLeft, StopCoordinator, Join
  <2>4. QED  BY <1>1, <2>2, <2>3, AllStaysCollected
<1>5. CASE ApplyThread \/ LimitReached \/ DrainExpires \/ StopSignal \/ UNCHANGED vars
  <2>1. pc' = pc /\ UNCHANGED <<readerDone, pendingFast, pendingHeavy, lanes>>
    BY <1>5
    DEF ApplyThread, LimitReached, DrainExpires, StopSignal, vars, taskVars, localVars
  <2>2. QED  BY <1>1, <2>1, AllStaysCollected DEF WhyLeft
<1>6. QED  BY <1>2, <1>3, <1>4, <1>5 DEF Next

LEMMA CompleteUnaskedStep == CompleteUnasked /\ [Next]_vars => CompleteUnasked'
<1> SUFFICES ASSUME CompleteUnasked, [Next]_vars, outcome' = "complete"
             PROVE  pc' = "ended" /\ ~StopEvent'
  BY DEF CompleteUnasked
<1> USE DEF StopEvent, localVars, envVars
<1>1. CASE ReaderStep
  BY <1>1
  DEF CompleteUnasked, ReaderStep, FillBatch, PutBatch, DropBatch, EndOfSources,
      ReaderRaises, PutSentinel
<1>2. CASE WorkerStep
  BY <1>2
  DEF CompleteUnasked, WorkerStep, FastFinishes, FastFails, HeavyFinishes, HeavyFails,
      FastEnds, HeavyEnds
<1>3. CASE SchedulerStep
  <2>1. CASE Join
    BY <2>1 DEF Join
  <2>2. CASE ~Join
    <3>1. outcome' = outcome
      BY <1>3, <2>2
      DEF SchedulerStep, LeaveLoop, StartPass, PullBatch, PullSentinel, EndPull,
          CollectFast, FallBack, EndCollectFast, ReadHead, SubmitNothing, SubmitHead,
          SubmitLanes, SubmitFromLane, NextLane, CollectHeavy, LoseHeavy,
          EndCollectHeavy, StopCoordinator
    <3>2. pc = "ended"
      BY <3>1 DEF CompleteUnasked
    <3>3. FALSE
      BY <1>3, <2>2, <3>2, SchedulerIsThrough DEF StopCoordinator
    <3>4. QED  BY <3>3
  <2>3. QED  BY <2>1, <2>2
<1>4. CASE ApplyThread \/ LimitReached \/ DrainExpires \/ StopSignal
  BY <1>4 DEF CompleteUnasked, ApplyThread, LimitReached, DrainExpires, StopSignal
<1>5. CASE UNCHANGED vars
  BY <1>5 DEF CompleteUnasked, vars
<1>6. QED  BY <1>1, <1>2, <1>3, <1>4, <1>5 DEF Next

LEMMA EndsInvariance == Spec => []Ends
<1>1. Init => Ends
  <2> SUFFICES ASSUME Init PROVE Ends
    OBVIOUS
  <2>1. DOMAIN readQueue = {}
    BY DEF Init
  <2>2. QED
    BY <2>1
    DEF Init, Ends, ReaderThrough, SentinelLast, QueueDrained, WhyLeft, CompleteUnasked
<1>2. IInv /\ Ends /\ [Next]_vars => Ends'
  BY ReaderPartStep, WhyLeftStep, CompleteUnaskedStep DEF Ends, ReaderPart
<1>3. QED  BY <1>1, <1>2, Invariance, PTL DEF Spec
--------------------------------------------------------------------------------
(***************************************************************************)
(* What the coordinator's proofs say in a run of the graph.                 *)
(***************************************************************************)
CoordInv == CoordProofs!IInv

LEMMA CoordinatorInvariance == Spec => []CoordInv
<1>1. ("apply_raises" \in Faults) \in BOOLEAN /\ Total \in Nat
  BY BoundsAssumption
<1>2. CoordProofs!Spec => []CoordInv
  BY <1>1, CoordProofs!Invariance DEF CoordInv
<1>3. Coord!Init => CoordProofs!Init
  BY DEF Coord!Init, CoordProofs!Init
<1>4. [Coord!Next]_(Coord!vars) => [CoordProofs!Next]_(CoordProofs!vars)
  BY
  DEF Coord!vars, Coord!Next, Coord!Deliver, Coord!Ingest, Coord!Stop, Coord!ApplyStep,
      Coord!Pop, Coord!Apply, Coord!Raise, Coord!Advance, Coord!Exit, Coord!HeadReady,
      Coord!Seqs, CoordProofs!vars, CoordProofs!Next, CoordProofs!Deliver,
      CoordProofs!Ingest, CoordProofs!Stop, CoordProofs!ApplyStep, CoordProofs!Pop,
      CoordProofs!Apply, CoordProofs!Raise, CoordProofs!Advance, CoordProofs!Exit,
      CoordProofs!HeadReady, CoordProofs!Seqs
<1>5. QED
  BY <1>2, <1>3, <1>4, LegalEnvironment, PTL
  DEF UsesCoordinatorAsSpecified, Coord!Spec, CoordProofs!Spec

\* The facts used below: the types, the lines before the head are delivered,
\* and a returned apply thread has left no head behind.
LEMMA CoordinatorFacts ==
  ASSUME CoordInv
  PROVE  /\ nextWriteSeq \in 0 .. Total /\ written \in Seq(Seqs)
         /\ applyPc \in {"waiting", "applying", "applied", "done", "dead"}
         /\ \A s \in 0 .. nextWriteSeq - 1 : s \in delivered
         /\ applyPc = "applied" => nextWriteSeq \in delivered
         /\ applyPc = "done" => /\ Len(written) = nextWriteSeq
                                /\ nextWriteSeq \notin delivered
<1> USE DEF CoordInv, CoordProofs!IInv
<1>1. /\ nextWriteSeq \in 0 .. Total /\ written \in Seq(Seqs) /\ Len(written) \in Nat
      /\ applyPc \in {"waiting", "applying", "applied", "done", "dead"}
  BY DEF CoordProofs!TypeOK, CoordProofs!Seqs, Seqs
<1>2. nextWriteSeq <= Len(written)
  BY <1>1 DEF CoordProofs!HeadExact
<1>3. \A s \in 0 .. Len(written) - 1 : s \in delivered
  BY DEF CoordProofs!Accounted
<1>4. \A s \in 0 .. nextWriteSeq - 1 : s \in delivered
  BY <1>1, <1>2, <1>3
<1>5. applyPc = "applied" => nextWriteSeq \in delivered
  BY DEF CoordProofs!Accounted, CoordProofs!Taken, CoordProofs!InFlight
<1>6. ASSUME applyPc = "done"
      PROVE  Len(written) = nextWriteSeq /\ nextWriteSeq \notin delivered
  <2>1. Len(written) = nextWriteSeq
    BY <1>6 DEF CoordProofs!HeadExact
  <2>2. nextWriteSeq \notin lineResults
    BY <1>6 DEF CoordProofs!DoneStopped
  <2>3. nextWriteSeq \notin 0 .. Len(written) - 1
    BY <1>1, <2>1
  <2>4. CoordProofs!Taken = {}
    BY <1>6 DEF CoordProofs!Taken, CoordProofs!InFlight
  <2>5. delivered = lineResults \cup 0 .. Len(written) - 1 \cup CoordProofs!Taken
    BY DEF CoordProofs!Accounted
  <2>6. QED  BY <2>1, <2>2, <2>3, <2>4, <2>5
<1>7. QED  BY <1>1, <1>4, <1>5, <1>6

LEMMA NoLaneLines == ASSUME IInv, LaneTotal = 0 PROVE LaneLines = {}
<1>1. LaneLines \in SUBSET (0 .. Total - 1)
  BY Parts DEF LaneLines, Seqs
<1>2. IsFiniteSet(0 .. Total - 1)
  BY FS_Interval, BoundsAssumption
<1>3. IsFiniteSet(LaneLines)
  BY <1>1, <1>2, FS_Subset
<1>4. QED  BY <1>3, FS_EmptySet DEF LaneTotal

\* A run that ends unasked with a healthy reader has delivered or lost it all.
LEMMA AllDeliveredOrLost ==
  ASSUME IInv, Ends, outcome = "complete", ~readerFailed
  PROVE  delivered \cup lost = 0 .. Total - 1 /\ delivered \cap lost = {}
<1>1. AllCollected /\ ~StopEvent /\ pc = "ended"
  BY DEF Ends, CompleteUnasked, WhyLeft
<1>2. readerPc = "done" /\ readQueue = <<>>
  BY <1>1 DEF Ends, QueueDrained, AllCollected
<1>3. sent = Total
  BY <1>1, <1>2 DEF Ends, ReaderThrough
<1>4. DOMAIN NoTasks = {}
  BY DEF NoTasks
<1>5. LinesOf(pendingFast) = {} /\ LinesOf(pendingHeavy) = {} /\ LinesOf(collecting) = {}
  <2>1. DOMAIN collecting = {}
    BY <1>1, Parts
  <2>2. DOMAIN pendingFast = {} /\ DOMAIN pendingHeavy = {}
    BY <1>1, <1>4 DEF AllCollected
  <2>3. QED  BY <2>1, <2>2, NoLines
<1>6. QueuedLines = {}
  BY <1>2 DEF QueuedLines
<1>7. LaneLines = {}
  BY <1>1, NoLaneLines DEF AllCollected
<1>8. QED  BY <1>3, <1>5, <1>6, <1>7, Parts DEF Placed, Apart

\* The first line that is in no place but among the lost ones.
LEMMA FirstLost ==
  ASSUME NEW n \in 0 .. Total, NEW D, NEW X, D \cup X = 0 .. Total - 1, D \cap X = {},
         n \notin D, \A s \in 0 .. n - 1 : s \in D
  PROVE  n = Min(X \cup {Total})
<1>1. Total \in Nat
  BY BoundsAssumption
<1>2. n \in X \cup {Total}
  BY <1>1
<1>3. \A y \in X \cup {Total} : n <= y
  <2>1. ASSUME NEW y \in X PROVE n <= y
    BY <1>1, <2>1
  <2>2. QED  BY <1>1, <2>1
<1>4. X \cup {Total} \subseteq Nat
  BY <1>1
<1>5. \A m \in X \cup {Total} : (\A y \in X \cup {Total} : m <= y) => m = n
  BY <1>2, <1>3, <1>4
<1>6. QED  BY <1>2, <1>3, <1>5 DEF Min

(* A run that reports completion, and whose reader and apply thread did not *)
(* die, has written every line before the first one that was lost with a    *)
(* heavy task, and every line if none was (run_graph_merge, run_loop,       *)
(* parallel.py:773), for any number of lines, any sizes and any faults.     *)
THEOREM Completion == Spec => []CompleteUpToFirstLoss
<1>1. IInv /\ Ends /\ CoordInv => CompleteUpToFirstLoss
  <2> SUFFICES ASSUME IInv, Ends, CoordInv,
                      outcome = "complete", ~readerFailed, applyPc = "done"
               PROVE  Len(written) = Min(lost \cup {Total})
    BY DEF CompleteUpToFirstLoss
  <2>1. /\ nextWriteSeq \in 0 .. Total /\ Len(written) = nextWriteSeq
        /\ nextWriteSeq \notin delivered
        /\ \A s \in 0 .. nextWriteSeq - 1 : s \in delivered
    BY CoordinatorFacts
  <2>2. delivered \cup lost = 0 .. Total - 1 /\ delivered \cap lost = {}
    BY AllDeliveredOrLost
  <2>3. nextWriteSeq = Min(lost \cup {Total})
    BY <2>1, <2>2, FirstLost
  <2>4. QED  BY <2>1, <2>3
<1>2. QED  BY <1>1, Invariance, EndsInvariance, CoordinatorInvariance, PTL
--------------------------------------------------------------------------------
(***************************************************************************)
(* The limits of the lanes.                                                 *)
(***************************************************************************)
InLane(tasks, l) == {i \in DOMAIN tasks : tasks[i].lane = l}

Limit(l) == Max({1, SlotLimit[l]})

\* SlotsExceededByHeadOnly, of any table and head.
Within(tasks, h) ==
  \A l \in Lanes :
    Cardinality(InLane(tasks, l)) > Limit(l) =>
      /\ Cardinality(InLane(tasks, l)) = Limit(l) + 1
      /\ \E i \in DOMAIN tasks : tasks[i].lane = l /\ tasks[i].lines = {h}

\* The head that was read is no line behind the one everything waits for.
HeadRead == pc = "submit" => head \in Nat /\ head <= nextWriteSeq

LEMMA LimitType == ASSUME NEW l \in Lanes PROVE Limit(l) \in Nat
<1>1. SlotLimit[l] \in Nat
  BY SlotAssumption
<1>2. \E m \in {1, SlotLimit[l]} : \A y \in {1, SlotLimit[l]} : m >= y
  BY <1>1
<1>3. Max({1, SlotLimit[l]}) \in {1, SlotLimit[l]}
  BY <1>2 DEF Max
<1>4. QED  BY <1>1, <1>3 DEF Limit

LEMMA LaneCount ==
  ASSUME NEW tasks, TableOf(tasks, 1 .. Total, HeavyTasks), NEW l
  PROVE  /\ IsFiniteSet(InLane(tasks, l))
         /\ Cardinality(InLane(tasks, l)) \in Nat
<1>1. InLane(tasks, l) \in SUBSET (1 .. Total)
  BY DEF InLane, TableOf
<1>2. IsFiniteSet(1 .. Total)
  BY FS_Interval, BoundsAssumption
<1>3. IsFiniteSet(InLane(tasks, l))
  BY <1>1, <1>2, FS_Subset
<1>4. QED  BY <1>3, FS_CardinalityType

\* A table of some of the tasks, running or ended, keeps within the limits.
LEMMA WithinSome ==
  ASSUME NEW tasks, TableOf(tasks, 1 .. Total, HeavyTasks), NEW h, Within(tasks, h),
         NEW some, DOMAIN some \subseteq DOMAIN tasks,
         \A i \in DOMAIN some : /\ some[i].lane = tasks[i].lane
                                /\ some[i].lines = tasks[i].lines
  PROVE  Within(some, h)
<1> SUFFICES ASSUME NEW l \in Lanes, Cardinality(InLane(some, l)) > Limit(l)
             PROVE  /\ Cardinality(InLane(some, l)) = Limit(l) + 1
                    /\ \E i \in DOMAIN some : some[i].lane = l /\ some[i].lines = {h}
  BY DEF Within
<1>1. InLane(some, l) \in SUBSET InLane(tasks, l)
  BY DEF InLane
<1>2. /\ IsFiniteSet(InLane(tasks, l)) /\ Cardinality(InLane(tasks, l)) \in Nat
      /\ Limit(l) \in Nat
  BY LaneCount, LimitType
<1>3. /\ IsFiniteSet(InLane(some, l))
      /\ Cardinality(InLane(some, l)) <= Cardinality(InLane(tasks, l))
      /\ Cardinality(InLane(tasks, l)) = Cardinality(InLane(some, l))
           => InLane(tasks, l) = InLane(some, l)
  BY <1>1, <1>2, FS_Subset
<1>4. Cardinality(InLane(some, l)) \in Nat
  BY <1>3, FS_CardinalityType
<1>5. Cardinality(InLane(tasks, l)) > Limit(l)
  BY <1>2, <1>3, <1>4
<1>6. Cardinality(InLane(tasks, l)) = Limit(l) + 1
  BY <1>5 DEF Within
<1>7. PICK i \in DOMAIN tasks : tasks[i].lane = l /\ tasks[i].lines = {h}
  BY <1>5 DEF Within
<1>8. Cardinality(InLane(some, l)) = Limit(l) + 1
  BY <1>2, <1>3, <1>4, <1>6
<1>9. i \in InLane(some, l)
  BY <1>3, <1>6, <1>7, <1>8 DEF InLane
<1>10. i \in DOMAIN some /\ some[i].lane = l /\ some[i].lines = {h}
  BY <1>7, <1>9 DEF InLane
<1>11. QED  BY <1>8, <1>10

\* Table t is the table with one more task, lines B in lane l.
Started(t, tasks, id, l, B) ==
  /\ DOMAIN t = DOMAIN tasks \cup {id}
  /\ t[id].lane = l /\ t[id].lines = B
  /\ \A i \in DOMAIN tasks : t[i] = tasks[i]
  /\ Cardinality(InLane(t, l)) = Cardinality(InLane(tasks, l)) + 1
  /\ \A k \in Lanes : k # l => InLane(t, k) = InLane(tasks, k)

LEMMA OneMore ==
  ASSUME NEW tasks, TableOf(tasks, 1 .. Total, HeavyTasks), NEW id, id \notin DOMAIN tasks,
         NEW l \in Lanes, NEW B
  PROVE  Started(With(tasks, id, HeavyTask(B, l)), tasks, id, l, B)
<1> DEFINE t == With(tasks, id, HeavyTask(B, l))
<1>1. /\ DOMAIN t = DOMAIN tasks \cup {id}
      /\ t[id].lane = l /\ t[id].lines = B
      /\ \A i \in DOMAIN tasks : t[i] = tasks[i]
  BY DEF With, HeavyTask
<1> HIDE DEF t
<1>2. InLane(t, l) = InLane(tasks, l) \cup {id} /\ id \notin InLane(tasks, l)
  BY <1>1 DEF InLane
<1>3. \A k \in Lanes : k # l => InLane(t, k) = InLane(tasks, k)
  BY <1>1 DEF InLane
<1>4. IsFiniteSet(InLane(tasks, l))
  BY LaneCount
<1>5. Cardinality(InLane(t, l)) = Cardinality(InLane(tasks, l)) + 1
  BY <1>2, <1>4, FS_AddElement
<1>6. Started(t, tasks, id, l, B)
  BY <1>1, <1>3, <1>5 DEF Started
<1>7. QED  BY <1>6 DEF t

\* The head is a line of no task: then no lane is over its limit.
LEMMA NoneOver ==
  ASSUME NEW tasks, TableOf(tasks, 1 .. Total, HeavyTasks), NEW h, Within(tasks, h),
         h \notin LinesOf(tasks), NEW l \in Lanes
  PROVE  Cardinality(InLane(tasks, l)) <= Limit(l)
<1>1. ~(Cardinality(InLane(tasks, l)) > Limit(l))
  <2> SUFFICES ASSUME Cardinality(InLane(tasks, l)) > Limit(l) PROVE FALSE
    OBVIOUS
  <2>1. PICK i \in DOMAIN tasks : tasks[i].lines = {h}
    BY DEF Within
  <2>2. h \in LinesOf(tasks)
    BY <2>1 DEF LinesOf
  <2>3. QED  BY <2>2
<1>2. Cardinality(InLane(tasks, l)) \in Nat /\ Limit(l) \in Nat
  BY LaneCount, LimitType
<1>3. QED  BY <1>1, <1>2

\* The head goes first, whatever the limit.
LEMMA WithinWithHead ==
  ASSUME NEW tasks, TableOf(tasks, 1 .. Total, HeavyTasks), NEW h, Within(tasks, h),
         h \notin LinesOf(tasks), NEW id, id \notin DOMAIN tasks, NEW l \in Lanes
  PROVE  Within(With(tasks, id, HeavyTask({h}, l)), h)
<1> DEFINE t == With(tasks, id, HeavyTask({h}, l))
<1>1. Started(t, tasks, id, l, {h})
  BY OneMore
<1> HIDE DEF t
<1>2. \A k \in Lanes : /\ Cardinality(InLane(tasks, k)) <= Limit(k)
                       /\ Cardinality(InLane(tasks, k)) \in Nat /\ Limit(k) \in Nat
  BY NoneOver, LaneCount, LimitType
<1>3. ASSUME NEW k \in Lanes, Cardinality(InLane(t, k)) > Limit(k)
      PROVE  /\ Cardinality(InLane(t, k)) = Limit(k) + 1
             /\ \E i \in DOMAIN t : t[i].lane = k /\ t[i].lines = {h}
  <2>1. k = l
    BY <1>1, <1>2, <1>3 DEF Started
  <2>2. Cardinality(InLane(t, l)) = Limit(l) + 1
    BY <1>1, <1>2, <1>3, <2>1 DEF Started
  <2>3. QED  BY <1>1, <2>1, <2>2 DEF Started
<1>4. Within(t, h)
  BY <1>3 DEF Within
<1>5. QED  BY <1>4 DEF t

\* The regular way: one more task while there is room.
LEMMA WithinWithRoom ==
  ASSUME NEW tasks, TableOf(tasks, 1 .. Total, HeavyTasks), NEW h, Within(tasks, h),
         NEW id, id \notin DOMAIN tasks, NEW l \in Lanes, NEW B,
         Cardinality(InLane(tasks, l)) < Limit(l)
  PROVE  Within(With(tasks, id, HeavyTask(B, l)), h)
<1> DEFINE t == With(tasks, id, HeavyTask(B, l))
<1>1. Started(t, tasks, id, l, B)
  BY OneMore
<1> HIDE DEF t
<1>2. Cardinality(InLane(tasks, l)) \in Nat /\ Limit(l) \in Nat
  BY LaneCount, LimitType
<1>3. ~(Cardinality(InLane(t, l)) > Limit(l))
  BY <1>1, <1>2 DEF Started
<1>4. ASSUME NEW k \in Lanes, Cardinality(InLane(t, k)) > Limit(k)
      PROVE  /\ Cardinality(InLane(t, k)) = Limit(k) + 1
             /\ \E i \in DOMAIN t : t[i].lane = k /\ t[i].lines = {h}
  <2>1. InLane(t, k) = InLane(tasks, k)
    BY <1>1, <1>3, <1>4 DEF Started
  <2>2. /\ Cardinality(InLane(tasks, k)) = Limit(k) + 1
        /\ \E i \in DOMAIN tasks : tasks[i].lane = k /\ tasks[i].lines = {h}
    BY <1>4, <2>1 DEF Within
  <2>3. QED  BY <1>1, <2>1, <2>2 DEF Started
<1>5. Within(t, h)
  BY <1>4 DEF Within
<1>6. QED  BY <1>5 DEF t

\* What the steps that put tasks into the table or take them out preserve.
LEMMA TaskStarts ==
  ASSUME IInv, NEW t, TableOf(t, 1 .. Total, HeavyTasks), Within(t, nextWriteSeq),
         nextWriteSeq' = nextWriteSeq, BeginCollectHeavy(t)
  PROVE  Within(pendingHeavy, nextWriteSeq)'
<1>1. /\ DOMAIN pendingHeavy' \subseteq DOMAIN t
      /\ \A i \in DOMAIN pendingHeavy' : /\ pendingHeavy'[i].lane = t[i].lane
                                         /\ pendingHeavy'[i].lines = t[i].lines
  BY DEF BeginCollectHeavy, Only
<1>2. Within(pendingHeavy', nextWriteSeq)
  BY <1>1, WithinSome
<1>3. QED  BY <1>2 DEF Within, InLane

LEMMA TypedTask ==
  ASSUME IInv, NEW l \in Lanes, NEW B \in SUBSET Seqs, NEW id \in NextHeavyId
  PROVE  /\ TableOf(With(pendingHeavy, id, HeavyTask(B, l)), 1 .. Total, HeavyTasks)
         /\ id \notin DOMAIN pendingHeavy
<1>1. HeavyTask(B, l) \in HeavyTasks
  BY DEF HeavyTask, HeavyTasks
<1>2. id \in 1 .. Total /\ id \notin DOMAIN pendingHeavy
  BY FreeId
<1>3. TableOf(pendingHeavy, 1 .. Total, HeavyTasks)
  BY Parts
<1>4. QED  BY <1>1, <1>2, <1>3, TypedWith

\* The head that is submitted is the one everything waits for: had that moved
\* on since it was read, the line would be delivered and in no lane.
LEMMA HeadIsNext ==
  ASSUME IInv, CoordInv, HeadRead, pc = "submit", head \in LaneLines
  PROVE  head = nextWriteSeq /\ nextWriteSeq \notin LinesOf(pendingHeavy)
<1>1. head \in Nat /\ head <= nextWriteSeq
  BY DEF HeadRead
<1>2. LaneLines \cap delivered = {} /\ LaneLines \cap LinesOf(pendingHeavy) = {}
  BY Parts DEF Placed, Apart
<1>3. nextWriteSeq \in 0 .. Total /\ \A s \in 0 .. nextWriteSeq - 1 : s \in delivered
  BY CoordinatorFacts
<1>4. head = nextWriteSeq
  BY <1>1, <1>2, <1>3
<1>5. QED  BY <1>2, <1>4

LEMMA SubmitStep ==
  ASSUME IInv, CoordInv, HeadRead, LaneOrder[lane] \in Lanes,
         Within(pendingHeavy, nextWriteSeq),
         SubmitNothing \/ SubmitHead \/ SubmitFromLane \/ NextLane
  PROVE  Within(pendingHeavy, nextWriteSeq)'
<1>1. nextWriteSeq' = nextWriteSeq
  BY DEF SubmitNothing, SubmitHead, SubmitFromLane, NextLane, coordVars
<1>2. TableOf(pendingHeavy, 1 .. Total, HeavyTasks)
  BY Parts
<1>3. CASE SubmitNothing \/ NextLane
  <2>1. BeginCollectHeavy(pendingHeavy) \/ pendingHeavy' = pendingHeavy
    BY <1>3 DEF SubmitNothing, NextLane
  <2>2. CASE pendingHeavy' = pendingHeavy
    BY <1>1, <2>2 DEF Within, InLane
  <2>3. QED  BY <1>1, <1>2, <2>1, <2>2, TaskStarts
<1>4. CASE SubmitHead
  <2>1. pc = "submit" /\ head \in LaneLines
    BY <1>4 DEF SubmitHead
  <2>2. head = nextWriteSeq /\ nextWriteSeq \notin LinesOf(pendingHeavy)
    BY <2>1, HeadIsNext
  <2>3. PICK l \in Lanes, id \in NextHeavyId :
          /\ head \in lanes[l]
          /\ BeginCollectHeavy(With(pendingHeavy, id, HeavyTask({head}, l)))
    BY <1>4 DEF SubmitHead
  <2> DEFINE t == With(pendingHeavy, id, HeavyTask({nextWriteSeq}, l))
  <2>4. {nextWriteSeq} \in SUBSET Seqs
    BY <2>2, <2>3, Parts
  <2>5. TableOf(t, 1 .. Total, HeavyTasks) /\ id \notin DOMAIN pendingHeavy
    BY <2>4, TypedTask
  <2>6. Within(t, nextWriteSeq)
    BY <1>2, <2>2, <2>5, WithinWithHead
  <2>7. BeginCollectHeavy(t)
    BY <2>2, <2>3
  <2> HIDE DEF t
  <2>8. QED  BY <1>1, <2>5, <2>6, <2>7, TaskStarts
<1>5. CASE SubmitFromLane
  <2> DEFINE l == LaneOrder[lane]
             B == PickBatch(l)
  <2>1. /\ Cardinality(InLane(pendingHeavy, l)) < Limit(l)
        /\ \E id \in NextHeavyId : pendingHeavy' = With(pendingHeavy, id, HeavyTask(B, l))
    BY <1>5 DEF SubmitFromLane, LaneAccepts, PendingIn, InLane, Limit
  <2>2. l \in Lanes
    OBVIOUS
  <2>3. B \in SUBSET Seqs
    BY <2>2, Parts DEF PickBatch
  <2> HIDE DEF l, B
  <2>4. PICK id \in NextHeavyId : pendingHeavy' = With(pendingHeavy, id, HeavyTask(B, l))
    BY <2>1
  <2>5. id \notin DOMAIN pendingHeavy
    BY <2>2, <2>3, TypedTask
  <2>6. Within(With(pendingHeavy, id, HeavyTask(B, l)), nextWriteSeq)
    BY <1>2, <2>1, <2>2, <2>5, WithinWithRoom
  <2>7. QED  BY <1>1, <2>4, <2>6 DEF Within, InLane
<1>6. QED  BY <1>3, <1>4, <1>5

\* A line is applied: no task of any lane had it.
LEMMA AdvanceStep ==
  ASSUME IInv, CoordInv, Within(pendingHeavy, nextWriteSeq), Coord!Advance,
         pendingHeavy' = pendingHeavy
  PROVE  Within(pendingHeavy, nextWriteSeq)'
<1>1. nextWriteSeq \in delivered
  BY CoordinatorFacts DEF Coord!Advance
<1>2. nextWriteSeq \notin LinesOf(pendingHeavy)
  BY <1>1, Parts DEF Placed, Apart
<1>3. TableOf(pendingHeavy, 1 .. Total, HeavyTasks)
  BY Parts
<1>4. \A l \in Lanes : /\ Cardinality(InLane(pendingHeavy, l)) <= Limit(l)
                       /\ Cardinality(InLane(pendingHeavy, l)) \in Nat
                       /\ Limit(l) \in Nat
  BY <1>2, <1>3, NoneOver, LaneCount, LimitType
<1>5. \A l \in Lanes : ~(Cardinality(InLane(pendingHeavy, l)) > Limit(l))
  BY <1>4
<1>6. \A l \in Lanes : ~(Cardinality(InLane(pendingHeavy', l)) > Limit(l))
  BY <1>5
<1>7. Within(pendingHeavy', nextWriteSeq')
  BY <1>6 DEF Within
<1>8. QED  BY <1>7 DEF Within, InLane

LEMMA WithinStep ==
  IInv /\ InOrder /\ CoordInv /\ HeadRead /\ Within(pendingHeavy, nextWriteSeq)
    /\ [Next]_vars => Within(pendingHeavy, nextWriteSeq)'
<1> SUFFICES ASSUME IInv, InOrder, CoordInv, HeadRead, Within(pendingHeavy, nextWriteSeq),
                    [Next]_vars
             PROVE  Within(pendingHeavy, nextWriteSeq)'
  OBVIOUS
<1> DEFINE Same == UNCHANGED <<pendingHeavy, nextWriteSeq>>
<1>1. Same => Within(pendingHeavy, nextWriteSeq)'
  BY DEF Within, InLane
<1>2. CASE ReaderStep
  <2>1. Same
    BY <1>2
    DEF ReaderStep, FillBatch, PutBatch, DropBatch, EndOfSources, ReaderRaises,
        PutSentinel, coordVars, taskVars
  <2>2. QED  BY <1>1, <2>1
<1>3. CASE FastFinishes \/ FastFails
  <2>1. Same
    BY <1>3 DEF FastFinishes, FastFails, FastEnds, coordVars
  <2>2. QED  BY <1>1, <2>1
<1>4. CASE HeavyFinishes \/ HeavyFails
  <2>1. nextWriteSeq' = nextWriteSeq /\ \E status \in {"done", "failed"} : HeavyEnds(status)
    BY <1>4 DEF HeavyFinishes, HeavyFails, HeavyEnds, coordVars
  <2>2. PICK status \in {"done", "failed"}, i \in DOMAIN pendingHeavy :
          pendingHeavy' = [pendingHeavy EXCEPT ![i].status = status]
    BY <2>1 DEF HeavyEnds
  <2>3. pendingHeavy \in [DOMAIN pendingHeavy -> HeavyTasks]
    BY Parts DEF TableOf
  <2>4. /\ DOMAIN pendingHeavy' = DOMAIN pendingHeavy
        /\ \A j \in DOMAIN pendingHeavy :
             /\ pendingHeavy'[j].lane = pendingHeavy[j].lane
             /\ pendingHeavy'[j].lines = pendingHeavy[j].lines
    BY <2>2, <2>3 DEF HeavyTasks
  <2>5. Within(pendingHeavy', nextWriteSeq)
    BY <2>4, WithinSome, Parts
  <2>6. QED  BY <2>1, <2>5 DEF Within, InLane
<1>5. CASE SubmitNothing \/ SubmitHead \/ SubmitFromLane \/ NextLane
  <2>1. LaneOrder[lane] \in Lanes
    BY DEF InOrder, LaneOrder, Lanes
  <2>2. QED  BY <1>5, <2>1, SubmitStep
<1>6. CASE \/ LeaveLoop \/ StartPass \/ PullBatch \/ PullSentinel \/ EndPull
           \/ CollectFast \/ FallBack \/ EndCollectFast \/ ReadHead
  <2>1. Same
    BY <1>6
    DEF LeaveLoop, StartPass, PullBatch, PullSentinel, EndPull, CollectFast, FallBack,
        EndCollectFast, ReadHead, Coord!Ingest, coordVars, taskVars
  <2>2. QED  BY <1>1, <2>1
<1>7. CASE \/ SubmitLanes \/ CollectHeavy \/ LoseHeavy \/ EndCollectHeavy
           \/ StopCoordinator \/ Join
  <2>1. Same
    BY <1>7
    DEF SubmitLanes, CollectHeavy, LoseHeavy, EndCollectHeavy, StopCoordinator, Join,
        Coord!Ingest, Coord!Stop, coordVars, taskVars
  <2>2. QED  BY <1>1, <2>1
<1>8. CASE ApplyThread
  <2>1. pendingHeavy' = pendingHeavy
    BY <1>8 DEF ApplyThread, taskVars
  <2>2. CASE Coord!Advance
    BY <2>1, <2>2, AdvanceStep
  <2>3. CASE ~Coord!Advance
    <3>1. nextWriteSeq' = nextWriteSeq
      BY <1>8, <2>3 DEF ApplyThread, Coord!Pop, Coord!Apply, Coord!Raise, Coord!Exit
    <3>2. QED  BY <1>1, <2>1, <3>1
  <2>4. QED  BY <2>2, <2>3
<1>9. CASE LimitReached \/ DrainExpires \/ StopSignal \/ UNCHANGED vars
  <2>1. Same
    BY <1>9 DEF LimitReached, DrainExpires, StopSignal, vars, coordVars, taskVars
  <2>2. QED  BY <1>1, <2>1
<1>10. QED
  BY <1>2, <1>3, <1>4, <1>5, <1>6, <1>7, <1>8, <1>9 DEF Next, WorkerStep, SchedulerStep

LEMMA HeadReadStep == IInv /\ CoordInv /\ HeadRead /\ [Next]_vars => HeadRead'
<1> SUFFICES ASSUME IInv, CoordInv, HeadRead, [Next]_vars, pc' = "submit"
             PROVE  head' \in Nat /\ head' <= nextWriteSeq'
  BY DEF HeadRead
<1>1. nextWriteSeq \in Nat
  BY CoordinatorFacts
<1> DEFINE Same == UNCHANGED <<pc, head, nextWriteSeq>>
<1>2. Same => head' \in Nat /\ head' <= nextWriteSeq'
  BY DEF HeadRead
<1>3. CASE ReaderStep
  BY <1>2, <1>3
  DEF ReaderStep, FillBatch, PutBatch, DropBatch, EndOfSources, ReaderRaises,
      PutSentinel, coordVars, localVars
<1>4. CASE WorkerStep
  BY <1>2, <1>4
  DEF WorkerStep, FastFinishes, FastFails, HeavyFinishes, HeavyFails, FastEnds,
      HeavyEnds, coordVars, localVars
<1>5. CASE ReadHead
  BY <1>1, <1>5 DEF ReadHead, coordVars
<1>6. CASE SchedulerStep /\ ~ReadHead
  <2>1. pc' # "submit"
    BY <1>6
    DEF SchedulerStep, LeaveLoop, StartPass, PullBatch, PullSentinel, EndPull,
        BeginCollectFast, CollectFast, FallBack, EndCollectFast, ReadGap,
        SubmitNothing, SubmitHead, SubmitLanes, SubmitFromLane, NextLane, EndSubmit,
        CollectHeavy, LoseHeavy, EndCollectHeavy, StopCoordinator, Join
  <2>2. QED  BY <2>1
<1>7. CASE ApplyThread
  <2>1. pc' = pc /\ head' = head
    BY <1>7 DEF ApplyThread, localVars
  <2>2. nextWriteSeq' \in {nextWriteSeq, nextWriteSeq + 1}
    BY <1>7
    DEF ApplyThread, Coord!Pop, Coord!Apply, Coord!Raise, Coord!Advance, Coord!Exit
  <2>3. QED  BY <1>1, <2>1, <2>2 DEF HeadRead
<1>8. CASE LimitReached \/ DrainExpires \/ StopSignal \/ UNCHANGED vars
  BY <1>2, <1>8 DEF LimitReached, DrainExpires, StopSignal, vars, coordVars, localVars
<1>9. QED  BY <1>3, <1>4, <1>5, <1>6, <1>7, <1>8 DEF Next

(* A lane has one task over its limit at most, and only while that task is  *)
(* the line the output waits for: the head is looked up and sent off ahead  *)
(* of the limit from values read before (_submit_heavy_lanes, runner.py:188 *)
(* to 221), while the apply thread moves on.                                *)
THEOREM HeadOnly == Spec => []SlotsExceededByHeadOnly
<1> DEFINE Inv == HeadRead /\ Within(pendingHeavy, nextWriteSeq)
<1>1. Init => Inv
  <2> SUFFICES ASSUME Init PROVE Inv
    OBVIOUS
  <2>1. \A l : InLane(pendingHeavy, l) = {}
    BY DEF Init, InLane, NoTasks
  <2>2. \A l \in Lanes : ~(Cardinality(InLane(pendingHeavy, l)) > Limit(l))
    BY <2>1, FS_EmptySet, LimitType
  <2>3. QED  BY <2>2 DEF Init, HeadRead, Within
<1>2. IInv /\ InOrder /\ CoordInv /\ Inv /\ [Next]_vars => Inv'
  BY HeadReadStep, WithinStep
<1>3. Inv => SlotsExceededByHeadOnly
  BY DEF Within, InLane, Limit, SlotsExceededByHeadOnly, PendingIn
<1> HIDE DEF Inv
<1>4. QED  BY <1>1, <1>2, <1>3, Invariance, CoordinatorInvariance, PTL DEF Spec

--------------------------------------------------------------------------------
(***************************************************************************)
(* The sizes of the tables, and with them of the buffer and the lanes.      *)
(***************************************************************************)

\* A table has n tasks at most, of m lines at most.
SmallTasks(tasks, n, m) ==
  /\ Cardinality(DOMAIN tasks) <= n
  /\ \A i \in DOMAIN tasks : Cardinality(tasks[i].lines) <= m

Sizes ==
  /\ batchInHand <= MaxBatch
  /\ \A i \in DOMAIN readQueue : Cardinality(readQueue[i]) <= MaxBatch
  /\ SmallTasks(pendingFast, FastQueue, MaxBatch)
  /\ SmallTasks(pendingHeavy, CleanQueue, HeavyBatch)

\* The lines that are in the lanes or may come there without another pull.
FastSide ==
  LaneLines \cup LinesOf(pendingFast)
    \cup (IF pc = "collectFast" THEN LinesOf(collecting) ELSE {})

\* The lines that are in the buffer or may come there without another
\* submission.
Flight ==
  lineResults \cup LinesOf(pendingFast) \cup LinesOf(pendingHeavy) \cup LinesOf(collecting)

LaneBound == SurvivorCap - 1 + FastQueue * MaxBatch
BufferBound == MaxCompleted - 1 + FastQueue * MaxBatch + CleanQueue * HeavyBatch

\* While batches are pulled, the tests that let the pull begin still hold.
Bounds ==
  IF pc = "pull"
  THEN Cardinality(LaneLines) < SurvivorCap /\ Cardinality(lineResults) < MaxCompleted
  ELSE Cardinality(FastSide) <= LaneBound /\ Cardinality(Flight) <= BufferBound
--------------------------------------------------------------------------------
(***************************************************************************)
(* Counting the lines of a table.                                           *)
(***************************************************************************)
\* The coordinator's Cardinality is the one of FiniteSets.
LEMMA RoomInBuffer == CanSubmit <=> Cardinality(lineResults) < MaxCompleted
BY DEF CanSubmit, Coord!CanAccept, Coord!Cardinality, Cardinality

LEMMA Positive ==
  /\ MaxBatch \in Nat /\ FastQueue \in Nat /\ CleanQueue \in Nat /\ HeavyBatch \in Nat
  /\ SurvivorCap \in Nat /\ MaxCompleted \in Nat /\ Total \in Nat
  /\ MaxBatch > 0 /\ FastQueue > 0 /\ CleanQueue > 0 /\ HeavyBatch > 0
  /\ SurvivorCap > 0 /\ MaxCompleted > 0
BY BoundsAssumption

LEMMA ProductGrows ==
  ASSUME NEW a \in Nat, NEW b \in Nat, NEW m \in Nat, a <= b
  PROVE  a * m \in Nat /\ b * m \in Nat /\ a * m <= b * m
<1>1. PICK k \in Nat : b = a + k
  <2>1. b - a \in Nat /\ b = a + (b - a)
    OBVIOUS
  <2>2. QED  BY <2>1
<1>2. b * m = a * m + k * m
  BY <1>1
<1>3. a * m \in Nat /\ b * m \in Nat /\ k * m \in Nat
  OBVIOUS
<1>4. QED  BY <1>2, <1>3

OneToOne(f) == \A x, y \in DOMAIN f : f[x] = f[y] => x = y

\* The elements of a set of m elements at most can be numbered up to m.
LEMMA Numbered ==
  ASSUME NEW S, IsFiniteSet(S), NEW m \in Nat, Cardinality(S) <= m
  PROVE  \E f \in [S -> 1 .. m] : OneToOne(f)
<1> DEFINE n == Cardinality(S)
<1>1. n \in Nat /\ ExistsBijection(1 .. n, S)
  BY FS_CardinalityType
<1>2. ExistsBijection(S, 1 .. n)
  BY <1>1, Fun_ExistsBijSymmetric
<1>3. PICK f : f \in Bijection(S, 1 .. n)
  BY <1>2 DEF ExistsBijection
<1>4. f \in [S -> 1 .. n] /\ OneToOne(f)
  BY <1>3 DEF Bijection, Injection, IsInjective, OneToOne
<1>5. 1 .. n \subseteq 1 .. m
  BY <1>1
<1>6. f \in [S -> 1 .. m]
  BY <1>4, <1>5
<1>7. QED  BY <1>4, <1>6

\* A set that can be numbered up to m has m elements at most.
LEMMA Counted ==
  ASSUME NEW S, NEW T, IsFiniteSet(T), NEW f \in [S -> T], OneToOne(f)
  PROVE  IsFiniteSet(S) /\ Cardinality(S) <= Cardinality(T)
<1>1. f \in Injection(S, T)
  BY DEF Injection, IsInjective, OneToOne
<1>2. QED  BY <1>1, FS_Injection

\* n tasks of m lines have n * m lines at most: number the lines by their task
\* and their place in it.
LEMMA FewLines ==
  ASSUME NEW tasks, NEW m \in Nat, IsFiniteSet(DOMAIN tasks),
         \A i \in DOMAIN tasks : /\ IsFiniteSet(tasks[i].lines)
                                 /\ Cardinality(tasks[i].lines) <= m
  PROVE  /\ IsFiniteSet(LinesOf(tasks))
         /\ Cardinality(LinesOf(tasks)) <= Cardinality(DOMAIN tasks) * m
<1> DEFINE T == (DOMAIN tasks) \X (1 .. m)
           Place(i) == CHOOSE f \in [tasks[i].lines -> 1 .. m] : OneToOne(f)
           Owner(s) == CHOOSE i \in DOMAIN tasks : s \in tasks[i].lines
           number == [s \in LinesOf(tasks) |-> <<Owner(s), Place(Owner(s))[s]>>]
<1>1. ASSUME NEW i \in DOMAIN tasks
      PROVE  Place(i) \in [tasks[i].lines -> 1 .. m] /\ OneToOne(Place(i))
  BY Numbered
<1>2. ASSUME NEW s \in LinesOf(tasks)
      PROVE  Owner(s) \in DOMAIN tasks /\ s \in tasks[Owner(s)].lines
  BY DEF LinesOf
<1> HIDE DEF Place, Owner
<1>3. ASSUME NEW s \in LinesOf(tasks)
      PROVE  number[s] \in T
  BY <1>1, <1>2
<1>4. number \in [LinesOf(tasks) -> T]
  BY <1>3
<1>5. ASSUME NEW r \in LinesOf(tasks), NEW s \in LinesOf(tasks), number[r] = number[s]
      PROVE  r = s
  <2>1. Owner(r) = Owner(s) /\ Place(Owner(r))[r] = Place(Owner(s))[s]
    BY <1>5
  <2>2. DOMAIN Place(Owner(s)) = tasks[Owner(s)].lines /\ OneToOne(Place(Owner(s)))
    BY <1>1, <1>2
  <2>3. r \in DOMAIN Place(Owner(s)) /\ s \in DOMAIN Place(Owner(s))
    BY <1>2, <2>1, <2>2
  <2>4. QED  BY <2>1, <2>2, <2>3 DEF OneToOne
<1>6. OneToOne(number)
  BY <1>5 DEF OneToOne
<1>7. IsFiniteSet(1 .. m) /\ Cardinality(1 .. m) = m
  BY FS_Interval
<1>8. IsFiniteSet(T) /\ Cardinality(T) = Cardinality(DOMAIN tasks) * m
  BY <1>7, FS_Product
<1> HIDE DEF T, number
<1>9. IsFiniteSet(LinesOf(tasks)) /\ Cardinality(LinesOf(tasks)) <= Cardinality(T)
  BY <1>4, <1>6, <1>8, Counted
<1>10. QED  BY <1>8, <1>9

LEMMA FiniteSeqs == ASSUME NEW S \in SUBSET Seqs
                    PROVE  IsFiniteSet(S) /\ Cardinality(S) \in Nat
<1>1. IsFiniteSet(Seqs)
  BY FS_Interval, Positive DEF Seqs
<1>2. IsFiniteSet(S)
  BY <1>1, FS_Subset
<1>3. QED  BY <1>2, FS_CardinalityType

\* Fewer lines are not more.
LEMMA NotMore ==
  ASSUME NEW S \in SUBSET Seqs, NEW R \in SUBSET S
  PROVE  /\ Cardinality(R) <= Cardinality(S)
         /\ Cardinality(R) \in Nat /\ Cardinality(S) \in Nat
BY FiniteSeqs, FS_Subset

LEMMA Joined ==
  ASSUME NEW R \in SUBSET Seqs, NEW S \in SUBSET Seqs
  PROVE  Cardinality(R \cup S) <= Cardinality(R) + Cardinality(S)
<1>1. /\ IsFiniteSet(R) /\ IsFiniteSet(S)
      /\ Cardinality(R) \in Nat /\ Cardinality(S) \in Nat
      /\ Cardinality(R \cap S) \in Nat
  BY FiniteSeqs
<1>2. Cardinality(R \cup S) = Cardinality(R) + Cardinality(S) - Cardinality(R \cap S)
  BY <1>1, FS_Union
<1>3. QED  BY <1>1, <1>2

\* Tables of any of the sorts.
LineTable(tasks) ==
  IsFiniteSet(DOMAIN tasks) /\ \A i \in DOMAIN tasks : tasks[i].lines \in SUBSET Seqs

LEMMA Tables ==
  ASSUME IInv
  PROVE  LineTable(pendingFast) /\ LineTable(pendingHeavy) /\ LineTable(collecting)
<1>1. /\ TableOf(pendingFast, Seqs, Task)
      /\ TableOf(pendingHeavy, 1 .. Total, HeavyTasks)
      /\ TableOf(collecting, 0 .. Total, Task \cup HeavyTasks)
  BY Parts
<1>2. IsFiniteSet(Seqs) /\ IsFiniteSet(1 .. Total) /\ IsFiniteSet(0 .. Total)
  BY FS_Interval, Positive DEF Seqs
<1>3. /\ IsFiniteSet(DOMAIN pendingFast) /\ IsFiniteSet(DOMAIN pendingHeavy)
      /\ IsFiniteSet(DOMAIN collecting)
  BY <1>1, <1>2, FS_Subset DEF TableOf
<1>4. \A i \in DOMAIN pendingFast : pendingFast[i].lines \in SUBSET Seqs
  BY <1>1 DEF TableOf, Task
<1>5. \A i \in DOMAIN pendingHeavy : pendingHeavy[i].lines \in SUBSET Seqs
  BY <1>1 DEF TableOf, HeavyTasks
<1>6. \A i \in DOMAIN collecting : collecting[i].lines \in SUBSET Seqs
  BY <1>1, TaskLines
<1>7. QED  BY <1>3, <1>4, <1>5, <1>6 DEF LineTable

LEMMA SmallLines ==
  ASSUME NEW tasks, LineTable(tasks), NEW n \in Nat, NEW m \in Nat,
         SmallTasks(tasks, n, m)
  PROVE  /\ LinesOf(tasks) \in SUBSET Seqs
         /\ Cardinality(LinesOf(tasks)) <= n * m
<1>1. LinesOf(tasks) \in SUBSET Seqs
  BY DEF LinesOf, LineTable
<1>2. \A i \in DOMAIN tasks : /\ IsFiniteSet(tasks[i].lines)
                              /\ Cardinality(tasks[i].lines) <= m
  BY FiniteSeqs DEF LineTable, SmallTasks
<1>3. IsFiniteSet(DOMAIN tasks)
  BY DEF LineTable
<1>4. Cardinality(LinesOf(tasks)) <= Cardinality(DOMAIN tasks) * m
  BY <1>2, <1>3, FewLines
<1>5. Cardinality(DOMAIN tasks) \in Nat /\ Cardinality(DOMAIN tasks) <= n
  BY <1>3, FS_CardinalityType DEF SmallTasks
<1>6. /\ Cardinality(DOMAIN tasks) * m \in Nat /\ n * m \in Nat
      /\ Cardinality(DOMAIN tasks) * m <= n * m
  BY <1>5, ProductGrows
<1>7. Cardinality(LinesOf(tasks)) \in Nat
  BY <1>1, FiniteSeqs
<1> DEFINE c == Cardinality(LinesOf(tasks))
           d == Cardinality(DOMAIN tasks) * m
           e == n * m
<1>8. c \in Nat /\ d \in Nat /\ e \in Nat /\ c <= d /\ d <= e
  BY <1>4, <1>6, <1>7
<1> HIDE DEF c, d, e
<1>9. c <= e
  BY <1>8
<1>10. QED  BY <1>1, <1>9 DEF c, e
--------------------------------------------------------------------------------
(***************************************************************************)
(* The sizes of batches and tables.                                         *)
(***************************************************************************)
LEMMA SmallSome ==
  ASSUME NEW tasks, IsFiniteSet(DOMAIN tasks), NEW n \in Nat, NEW m \in Nat,
         SmallTasks(tasks, n, m), NEW some, DOMAIN some \subseteq DOMAIN tasks,
         \A i \in DOMAIN some : some[i].lines = tasks[i].lines
  PROVE  SmallTasks(some, n, m)
<1>1. /\ Cardinality(DOMAIN some) <= Cardinality(DOMAIN tasks)
      /\ Cardinality(DOMAIN some) \in Nat /\ Cardinality(DOMAIN tasks) \in Nat
  BY FS_Subset, FS_CardinalityType
<1>2. Cardinality(DOMAIN some) <= n
  BY <1>1 DEF SmallTasks
<1>3. QED  BY <1>2 DEF SmallTasks

LEMMA SmallWith ==
  ASSUME NEW tasks, IsFiniteSet(DOMAIN tasks), NEW n \in Nat, NEW m \in Nat,
         SmallTasks(tasks, n, m), Cardinality(DOMAIN tasks) < n,
         NEW id, NEW task, Cardinality(task.lines) <= m
  PROVE  SmallTasks(With(tasks, id, task), n, m)
<1> DEFINE t == With(tasks, id, task)
<1>1. /\ DOMAIN t = DOMAIN tasks \cup {id}
      /\ \A i \in DOMAIN t : t[i] = IF i = id THEN task ELSE tasks[i]
  BY DEF With
<1> HIDE DEF t
<1>2. /\ Cardinality(DOMAIN tasks) \in Nat
      /\ Cardinality(DOMAIN t) \in {Cardinality(DOMAIN tasks), Cardinality(DOMAIN tasks) + 1}
  BY <1>1, FS_AddElement, FS_CardinalityType
<1>3. Cardinality(DOMAIN t) <= n
  BY <1>2
<1>4. \A i \in DOMAIN t : Cardinality(t[i].lines) <= m
  BY <1>1 DEF SmallTasks
<1>5. SmallTasks(t, n, m)
  BY <1>3, <1>4 DEF SmallTasks
<1>6. QED  BY <1>5 DEF t

\* A batch of a lane: numbered by how many lines of the lane are before.
LEMMA SmallPick ==
  ASSUME IInv, NEW l \in Lanes
  PROVE  PickBatch(l) \in SUBSET Seqs /\ Cardinality(PickBatch(l)) <= HeavyBatch
<1> DEFINE size == IF l # "normal" \/ gap THEN 1 ELSE HeavyBatch
           Before(s) == {r \in lanes[l] : r < s}
           rank == [s \in PickBatch(l) |-> Cardinality(Before(s))]
<1>1. lanes[l] \in SUBSET Seqs
  BY Parts
<1>2. PickBatch(l) = {s \in lanes[l] : Cardinality(Before(s)) < size}
  BY DEF PickBatch
<1>3. size \in Nat /\ size <= HeavyBatch /\ size > 0
  BY Positive
<1>4. \A s \in lanes[l] : Before(s) \in SUBSET Seqs
  BY <1>1
<1>5. \A s \in lanes[l] : IsFiniteSet(Before(s)) /\ Cardinality(Before(s)) \in Nat
  BY <1>4, FiniteSeqs
<1>6. ASSUME NEW r \in lanes[l], NEW s \in lanes[l], r < s
      PROVE  Cardinality(Before(r)) # Cardinality(Before(s))
  <2>1. r \in Int /\ s \in Int /\ \A q \in lanes[l] : q \in Int
    BY <1>1 DEF Seqs
  <2>2. Before(r) \in SUBSET Before(s) /\ r \in Before(s) /\ r \notin Before(r)
    BY <1>6, <2>1
  <2>3. Before(r) # Before(s)
    BY <2>2
  <2> HIDE DEF Before
  <2>4. QED  BY <1>5, <2>2, <2>3, FS_Subset
<1> HIDE DEF size, Before
<1>7. \A s \in PickBatch(l) : rank[s] \in 0 .. size - 1
  BY <1>2, <1>3, <1>5
<1>8. rank \in [PickBatch(l) -> 0 .. size - 1]
  BY <1>7
<1>9. OneToOne(rank)
  <2>1. ASSUME NEW r \in PickBatch(l), NEW s \in PickBatch(l), rank[r] = rank[s]
        PROVE  r = s
    <3>1. r \in lanes[l] /\ s \in lanes[l] /\ r \in Int /\ s \in Int
      BY <1>1, <1>2 DEF Seqs
    <3>2. Cardinality(Before(r)) = Cardinality(Before(s))
      BY <2>1
    <3>3. ~(r < s) /\ ~(s < r)
      BY <1>6, <3>1, <3>2
    <3>4. QED  BY <3>1, <3>3
  <2>2. QED  BY <2>1 DEF OneToOne
<1>10. IsFiniteSet(0 .. size - 1) /\ Cardinality(0 .. size - 1) = size
  BY <1>3, FS_Interval
<1> HIDE DEF rank
<1>11. Cardinality(PickBatch(l)) <= size
  BY <1>8, <1>9, <1>10, Counted
<1>12. PickBatch(l) \in SUBSET Seqs
  BY <1>1, <1>2
<1>13. Cardinality(PickBatch(l)) \in Nat
  BY <1>12, FiniteSeqs
<1>14. QED  BY <1>3, <1>11, <1>12, <1>13, Positive

LEMMA SizesUntouched ==
  ASSUME IInv, Sizes, batchInHand' = batchInHand \/ batchInHand' = 0,
         readQueue' = readQueue,
         pendingFast' = pendingFast \/ pendingFast' = Only(pendingFast, Running),
         pendingHeavy' = pendingHeavy
  PROVE  Sizes'
<1>1. IsFiniteSet(DOMAIN pendingFast)
  BY Tables DEF LineTable
<1>2. /\ DOMAIN pendingFast' \subseteq DOMAIN pendingFast
      /\ \A i \in DOMAIN pendingFast' : pendingFast'[i].lines = pendingFast[i].lines
  BY DEF Only
<1>3. SmallTasks(pendingFast', FastQueue, MaxBatch)
  BY <1>1, <1>2, SmallSome, Positive DEF Sizes
<1>4. SmallTasks(pendingHeavy', CleanQueue, HeavyBatch)
  BY DEF Sizes
<1>5. batchInHand' <= MaxBatch
  BY Positive DEF Sizes
<1>6. QED  BY <1>3, <1>4, <1>5 DEF Sizes, SmallTasks

LEMMA SizesOfBatches ==
  ASSUME IInv, Sizes, FillBatch \/ PutBatch \/ PutSentinel \/ PullBatch \/ PullSentinel
  PROVE  Sizes'
<1>1. /\ readQueue \in Seq(SUBSET Seqs) /\ sent \in Nat /\ batchInHand \in Nat
      /\ IsFiniteSet(DOMAIN pendingFast)
  BY Parts, Tables DEF Typed, LineTable
<1>2. CASE FillBatch
  <2>1. /\ batchInHand' <= MaxBatch /\ readQueue' = readQueue
        /\ pendingFast' = pendingFast /\ pendingHeavy' = pendingHeavy
    BY <1>2, Positive DEF FillBatch, taskVars
  <2>2. QED  BY <2>1 DEF Sizes, SmallTasks
<1>3. CASE PutBatch
  <2> DEFINE B == sent .. sent + batchInHand - 1
  <2>1. /\ batchInHand' = 0 /\ readQueue' = Append(readQueue, B)
        /\ pendingFast' = pendingFast /\ pendingHeavy' = pendingHeavy
    BY <1>3 DEF PutBatch, taskVars
  <2>2. Cardinality(B) <= MaxBatch
    BY <1>1, FS_Interval, Positive DEF Sizes
  <2> HIDE DEF B
  <2>3. \A i \in DOMAIN readQueue' : readQueue'[i] = B \/
          (i \in DOMAIN readQueue /\ readQueue'[i] = readQueue[i])
    BY <1>1, <2>1
  <2>4. \A i \in DOMAIN readQueue' : Cardinality(readQueue'[i]) <= MaxBatch
    BY <2>2, <2>3 DEF Sizes
  <2>5. batchInHand' <= MaxBatch
    BY <2>1, Positive
  <2>6. QED  BY <2>1, <2>4, <2>5 DEF Sizes, SmallTasks
<1>4. CASE PutSentinel
  <2>1. /\ batchInHand' = batchInHand /\ readQueue' = Append(readQueue, {})
        /\ pendingFast' = pendingFast /\ pendingHeavy' = pendingHeavy
    BY <1>4 DEF PutSentinel, Sentinel, taskVars
  <2>2. \A i \in DOMAIN readQueue' : readQueue'[i] = {} \/
          (i \in DOMAIN readQueue /\ readQueue'[i] = readQueue[i])
    BY <1>1, <2>1
  <2>3. Cardinality({}) <= MaxBatch
    BY FS_EmptySet, Positive
  <2>4. \A i \in DOMAIN readQueue' : Cardinality(readQueue'[i]) <= MaxBatch
    BY <2>2, <2>3 DEF Sizes
  <2>5. QED  BY <2>1, <2>4 DEF Sizes, SmallTasks
<1>5. CASE PullBatch \/ PullSentinel
  <2>1. /\ batchInHand' = batchInHand /\ pendingHeavy' = pendingHeavy
        /\ readQueue # <<>> /\ readQueue' = Tail(readQueue)
        /\ Cardinality(DOMAIN pendingFast) < FastQueue
    BY <1>5 DEF PullBatch, PullSentinel, MayPull, readerVars, taskVars
  <2>2. /\ \A i \in DOMAIN readQueue' :
             i + 1 \in DOMAIN readQueue /\ readQueue'[i] = readQueue[i + 1]
        /\ 1 \in DOMAIN readQueue /\ Head(readQueue) = readQueue[1]
    BY <1>1, <2>1
  <2>3. \A i \in DOMAIN readQueue' : Cardinality(readQueue'[i]) <= MaxBatch
    BY <2>2 DEF Sizes
  <2>4. SmallTasks(pendingFast', FastQueue, MaxBatch)
    <3>1. CASE PullSentinel
      BY <3>1 DEF PullSentinel, taskVars, Sizes
    <3>2. CASE PullBatch
      <4> DEFINE task == [lines |-> Head(readQueue), status |-> "running"]
      <4>1. PICK first : pendingFast' = With(pendingFast, first, task)
        BY <3>2 DEF PullBatch
      <4>2. task.lines = Head(readQueue)
        OBVIOUS
      <4> HIDE DEF task
      <4>3. Cardinality(task.lines) <= MaxBatch
        BY <2>2, <4>2 DEF Sizes
      <4>4. SmallTasks(pendingFast, FastQueue, MaxBatch)
        BY DEF Sizes
      <4>5. SmallTasks(With(pendingFast, first, task), FastQueue, MaxBatch)
        BY <1>1, <2>1, <4>3, <4>4, SmallWith, Positive
      <4>6. QED  BY <4>1, <4>5
    <3>3. QED  BY <1>5, <3>1, <3>2
  <2>5. QED  BY <2>1, <2>3, <2>4 DEF Sizes, SmallTasks
<1>6. QED  BY <1>2, <1>3, <1>4, <1>5

\* The table the submission leaves behind, before what has ended is taken out.
HeavyStarts(t) ==
  /\ LineTable(t) /\ SmallTasks(t, CleanQueue, HeavyBatch)
  /\ BeginCollectHeavy(t) \/ (pendingHeavy' = t /\ collecting' = collecting)

LEMMA HeavyNone ==
  ASSUME IInv, Sizes, SubmitNothing \/ NextLane
  PROVE  HeavyStarts(pendingHeavy)
BY Tables DEF HeavyStarts, Sizes, SubmitNothing, NextLane

LEMMA HeavySome ==
  ASSUME IInv, InOrder, Sizes, SubmitHead \/ SubmitFromLane
  PROVE  \E t : HeavyStarts(t)
<1>1. SmallTasks(pendingHeavy, CleanQueue, HeavyBatch) /\ LineTable(pendingHeavy)
  BY Tables DEF Sizes
<1>2. IsFiniteSet(DOMAIN pendingHeavy) /\ Cardinality(DOMAIN pendingHeavy) \in Nat
  BY <1>1, FS_CardinalityType DEF LineTable
<1>3. Cardinality(DOMAIN pendingHeavy) < CleanQueue
  BY <1>2, Positive
  DEF SubmitHead, SubmitFromLane, NothingToSubmit, LaneAccepts, HeavyTableFull
<1>4. ASSUME NEW l \in Lanes, NEW B \in SUBSET Seqs, Cardinality(B) <= HeavyBatch,
             NEW id \in NextHeavyId
      PROVE  LET t == With(pendingHeavy, id, HeavyTask(B, l))
             IN LineTable(t) /\ SmallTasks(t, CleanQueue, HeavyBatch)
  <2> DEFINE task == HeavyTask(B, l)
             t == With(pendingHeavy, id, task)
  <2>1. task.lines = B
    BY DEF HeavyTask
  <2>2. TableOf(t, 1 .. Total, HeavyTasks)
    BY TypedTask
  <2> HIDE DEF task
  <2>3. Cardinality(task.lines) <= HeavyBatch
    BY <1>4, <2>1
  <2>4. SmallTasks(t, CleanQueue, HeavyBatch)
    BY <1>1, <1>2, <1>3, <2>3, SmallWith, Positive
  <2> HIDE DEF t
  <2>5. LineTable(t)
    <3>1. IsFiniteSet(1 .. Total)
      BY FS_Interval, Positive
    <3>2. IsFiniteSet(DOMAIN t)
      BY <2>2, <3>1, FS_Subset DEF TableOf
    <3>3. \A i \in DOMAIN t : t[i].lines \in SUBSET Seqs
      BY <2>2 DEF TableOf, HeavyTasks
    <3>4. QED  BY <3>2, <3>3 DEF LineTable
  <2>6. LineTable(t) /\ SmallTasks(t, CleanQueue, HeavyBatch)
    BY <2>4, <2>5
  <2>7. QED  BY <2>6 DEF t, task
<1>5. CASE SubmitHead
  <2>1. PICK l \in Lanes, id \in NextHeavyId :
          /\ head \in lanes[l]
          /\ BeginCollectHeavy(With(pendingHeavy, id, HeavyTask({head}, l)))
    BY <1>5 DEF SubmitHead
  <2>2. {head} \in SUBSET Seqs
    BY <2>1, Parts
  <2>3. Cardinality({head}) <= HeavyBatch
    <3>1. Cardinality({head}) = 1
      BY FS_Singleton
    <3>2. QED  BY <3>1, Positive
  <2>4. /\ LineTable(With(pendingHeavy, id, HeavyTask({head}, l)))
        /\ SmallTasks(With(pendingHeavy, id, HeavyTask({head}, l)), CleanQueue, HeavyBatch)
    BY <1>4, <2>2, <2>3
  <2>5. HeavyStarts(With(pendingHeavy, id, HeavyTask({head}, l)))
    BY <2>1, <2>4 DEF HeavyStarts
  <2>6. QED  BY <2>5
<1>6. CASE SubmitFromLane
  <2> DEFINE l == LaneOrder[lane]
  <2>1. l \in Lanes
    BY DEF InOrder, LaneOrder, Lanes
  <2>2. PICK id \in NextHeavyId :
          pendingHeavy' = With(pendingHeavy, id, HeavyTask(PickBatch(l), l))
    BY <1>6 DEF SubmitFromLane
  <2>3. collecting' = collecting
    BY <1>6 DEF SubmitFromLane
  <2> HIDE DEF l
  <2>4. PickBatch(l) \in SUBSET Seqs /\ Cardinality(PickBatch(l)) <= HeavyBatch
    BY <2>1, SmallPick
  <2> DEFINE t == With(pendingHeavy, id, HeavyTask(PickBatch(l), l))
  <2>5. LineTable(t) /\ SmallTasks(t, CleanQueue, HeavyBatch)
    BY <1>4, <2>1, <2>4
  <2>6. HeavyStarts(t)
    BY <2>2, <2>3, <2>5 DEF HeavyStarts
  <2>7. QED  BY <2>6
<1>7. QED  BY <1>5, <1>6

LEMMA SizesOfSubmission ==
  ASSUME IInv, InOrder, Sizes, SubmitNothing \/ SubmitHead \/ SubmitFromLane \/ NextLane
  PROVE  Sizes'
<1>1. PICK t : HeavyStarts(t)
  BY HeavyNone, HeavySome
<1>2. /\ DOMAIN pendingHeavy' \subseteq DOMAIN t
      /\ \A i \in DOMAIN pendingHeavy' : pendingHeavy'[i].lines = t[i].lines
  BY <1>1 DEF HeavyStarts, BeginCollectHeavy, Only
<1>3. SmallTasks(pendingHeavy', CleanQueue, HeavyBatch)
  BY <1>1, <1>2, SmallSome, Positive DEF HeavyStarts, LineTable
<1>4. UNCHANGED <<batchInHand, readQueue, pendingFast>>
  BY DEF SubmitNothing, SubmitHead, SubmitFromLane, NextLane, readerVars
<1>5. QED  BY <1>3, <1>4 DEF Sizes, SmallTasks

LEMMA SizesOfTasks == ASSUME IInv, Sizes, WorkerStep PROVE Sizes'
<1>1. batchInHand' = batchInHand /\ readQueue' = readQueue
  BY
  DEF WorkerStep, FastFinishes, FastFails, HeavyFinishes, HeavyFails, FastEnds,
      HeavyEnds, readerVars
<1>2. /\ DOMAIN pendingFast' = DOMAIN pendingFast
      /\ \A i \in DOMAIN pendingFast : pendingFast'[i].lines = pendingFast[i].lines
      /\ DOMAIN pendingHeavy' = DOMAIN pendingHeavy
      /\ \A i \in DOMAIN pendingHeavy : pendingHeavy'[i].lines = pendingHeavy[i].lines
  <2>1. /\ pendingFast \in [DOMAIN pendingFast -> Task]
        /\ pendingHeavy \in [DOMAIN pendingHeavy -> HeavyTasks]
    BY Parts DEF TableOf
  <2>2. CASE FastFinishes \/ FastFails
    <3>1. PICK status \in {"done", "failed"}, i \in DOMAIN pendingFast :
            pendingFast' = [pendingFast EXCEPT ![i].status = status]
      BY <2>2 DEF FastFinishes, FastFails, FastEnds
    <3>2. pendingHeavy' = pendingHeavy
      BY <2>2 DEF FastFinishes, FastFails, FastEnds
    <3>3. QED  BY <2>1, <3>1, <3>2 DEF Task
  <2>3. CASE HeavyFinishes \/ HeavyFails
    <3>1. PICK status \in {"done", "failed"}, i \in DOMAIN pendingHeavy :
            pendingHeavy' = [pendingHeavy EXCEPT ![i].status = status]
      BY <2>3 DEF HeavyFinishes, HeavyFails, HeavyEnds
    <3>2. pendingFast' = pendingFast
      BY <2>3 DEF HeavyFinishes, HeavyFails, HeavyEnds
    <3>3. QED  BY <2>1, <3>1, <3>2 DEF HeavyTasks
  <2>4. QED  BY <2>2, <2>3 DEF WorkerStep
<1>3. QED  BY <1>1, <1>2 DEF Sizes, SmallTasks

LEMMA SizesStep == IInv /\ InOrder /\ Sizes /\ [Next]_vars => Sizes'
<1> SUFFICES ASSUME IInv, InOrder, Sizes, [Next]_vars PROVE Sizes'
  OBVIOUS
<1> DEFINE Same ==
      /\ batchInHand' = batchInHand \/ batchInHand' = 0
      /\ readQueue' = readQueue
      /\ pendingFast' = pendingFast \/ pendingFast' = Only(pendingFast, Running)
      /\ pendingHeavy' = pendingHeavy
<1>1. Same => Sizes'
  BY SizesUntouched
<1> USE DEF readerVars, taskVars
<1>2. CASE FillBatch \/ PutBatch \/ PutSentinel \/ PullBatch \/ PullSentinel
  BY <1>2, SizesOfBatches
<1>3. CASE SubmitNothing \/ SubmitHead \/ SubmitFromLane \/ NextLane
  BY <1>3, SizesOfSubmission
<1>4. CASE WorkerStep
  BY <1>4, SizesOfTasks
<1>5. CASE DropBatch \/ EndOfSources \/ ReaderRaises
  <2>1. Same
    BY <1>5 DEF DropBatch, EndOfSources, ReaderRaises
  <2>2. QED  BY <1>1, <2>1
<1>6. CASE LeaveLoop \/ StartPass \/ EndPull \/ CollectFast \/ FallBack \/ EndCollectFast
  <2>1. Same
    BY <1>6
    DEF LeaveLoop, StartPass, EndPull, BeginCollectFast, CollectFast, FallBack,
        EndCollectFast
  <2>2. QED  BY <1>1, <2>1
<1>7. CASE \/ ReadHead \/ SubmitLanes \/ CollectHeavy \/ LoseHeavy \/ EndCollectHeavy
           \/ StopCoordinator \/ Join
  <2>1. Same
    BY <1>7
    DEF ReadHead, SubmitLanes, CollectHeavy, LoseHeavy, EndCollectHeavy,
        StopCoordinator, Join
  <2>2. QED  BY <1>1, <2>1
<1>8. CASE ApplyThread \/ LimitReached \/ DrainExpires \/ StopSignal \/ UNCHANGED vars
  <2>1. Same
    BY <1>8 DEF ApplyThread, LimitReached, DrainExpires, StopSignal, vars
  <2>2. QED  BY <1>1, <2>1
<1>9. QED
  BY <1>2, <1>3, <1>4, <1>5, <1>6, <1>7, <1>8 DEF Next, ReaderStep, SchedulerStep
--------------------------------------------------------------------------------
(***************************************************************************)
(* The bounds.                                                              *)
(***************************************************************************)
LEMMA LineSets ==
  ASSUME IInv, CoordInv
  PROVE  /\ lineResults \in SUBSET Seqs /\ LaneLines \in SUBSET Seqs
         /\ LinesOf(pendingFast) \in SUBSET Seqs /\ LinesOf(pendingHeavy) \in SUBSET Seqs
         /\ LinesOf(collecting) \in SUBSET Seqs
         /\ FastSide \in SUBSET Seqs /\ Flight \in SUBSET Seqs
<1>1. lineResults \in SUBSET Seqs
  BY DEF CoordInv, CoordProofs!IInv, CoordProofs!TypeOK, CoordProofs!Seqs, Seqs
<1>2. LaneLines \in SUBSET Seqs
  BY Parts DEF LaneLines
<1>3. /\ LinesOf(pendingFast) \in SUBSET Seqs /\ LinesOf(pendingHeavy) \in SUBSET Seqs
      /\ LinesOf(collecting) \in SUBSET Seqs
  BY Tables DEF LineTable, LinesOf
<1>4. QED  BY <1>1, <1>2, <1>3 DEF FastSide, Flight

\* What small tables add to a buffer, or to lanes, below its limit.
LEMMA FewMore ==
  ASSUME NEW R \in SUBSET Seqs, NEW F \in SUBSET Seqs, NEW c \in Nat, NEW f \in Nat,
         Cardinality(R) < c, Cardinality(F) <= f
  PROVE  Cardinality(R \cup F) <= c - 1 + f
<1>1. Cardinality(R) \in Nat /\ Cardinality(F) \in Nat /\ Cardinality(R \cup F) \in Nat
  BY FiniteSeqs
<1>2. Cardinality(R \cup F) <= Cardinality(R) + Cardinality(F)
  BY Joined
<1>3. QED  BY <1>1, <1>2

LEMMA FastLines ==
  ASSUME IInv, Sizes
  PROVE  /\ LinesOf(pendingFast) \in SUBSET Seqs /\ FastQueue * MaxBatch \in Nat
         /\ Cardinality(LinesOf(pendingFast)) <= FastQueue * MaxBatch
<1>1. LineTable(pendingFast) /\ SmallTasks(pendingFast, FastQueue, MaxBatch)
  BY Tables DEF Sizes
<1>2. FastQueue * MaxBatch \in Nat
  BY Positive
<1>3. QED  BY <1>1, <1>2, SmallLines, Positive

\* A buffer below its limit, and what is in flight.
LEMMA FlightCounted ==
  ASSUME IInv, CoordInv, Sizes, Cardinality(lineResults) < MaxCompleted,
         NEW t, LineTable(t), SmallTasks(t, CleanQueue, HeavyBatch)
  PROVE  Cardinality(lineResults \cup LinesOf(pendingFast) \cup LinesOf(t)) <= BufferBound
<1> DEFINE f == FastQueue * MaxBatch
           h == CleanQueue * HeavyBatch
           RF == lineResults \cup LinesOf(pendingFast)
<1>1. /\ LinesOf(pendingFast) \in SUBSET Seqs /\ f \in Nat
      /\ Cardinality(LinesOf(pendingFast)) <= f
  BY FastLines
<1>2. LinesOf(t) \in SUBSET Seqs /\ Cardinality(LinesOf(t)) <= h
  BY SmallLines, Positive
<1>3. h \in Nat
  BY Positive
<1>4. lineResults \in SUBSET Seqs
  BY LineSets
<1>5. BufferBound = MaxCompleted - 1 + f + h
  BY DEF BufferBound
<1> HIDE DEF f, h
<1>6. RF \in SUBSET Seqs /\ Cardinality(RF) <= MaxCompleted - 1 + f
  BY <1>1, <1>4, FewMore, Positive
<1> HIDE DEF RF
<1>7. Cardinality(RF \cup LinesOf(t)) <= Cardinality(RF) + Cardinality(LinesOf(t))
  BY <1>2, <1>6, Joined
<1>8. /\ Cardinality(RF) \in Nat /\ Cardinality(LinesOf(t)) \in Nat
      /\ Cardinality(RF \cup LinesOf(t)) \in Nat
  BY <1>2, <1>6, FiniteSeqs
<1>9. Cardinality(RF \cup LinesOf(t)) <= MaxCompleted - 1 + f + h
  BY <1>1, <1>2, <1>3, <1>6, <1>7, <1>8, Positive
<1>10. QED  BY <1>5, <1>9 DEF RF

\* A step that adds no line to what is bounded.
LEMMA Shrinking ==
  ASSUME IInv, CoordInv, Bounds,
         IF pc = "pull"
         THEN pc' = "pull" /\ LaneLines' = LaneLines /\ lineResults' \subseteq lineResults
         ELSE pc' # "pull" /\ FastSide' \subseteq FastSide /\ Flight' \subseteq Flight
  PROVE  Bounds'
<1>1. CASE pc = "pull"
  <2>1. Cardinality(LaneLines) < SurvivorCap /\ Cardinality(lineResults) < MaxCompleted
    BY <1>1 DEF Bounds
  <2>2. lineResults' \in SUBSET lineResults /\ lineResults \in SUBSET Seqs
    BY <1>1, LineSets
  <2>3. /\ Cardinality(lineResults') <= Cardinality(lineResults)
        /\ Cardinality(lineResults') \in Nat /\ Cardinality(lineResults) \in Nat
    BY <2>2, NotMore
  <2>4. Cardinality(lineResults') < MaxCompleted
    BY <2>1, <2>3, Positive
  <2>5. Cardinality(LaneLines') < SurvivorCap
    BY <1>1, <2>1
  <2>6. QED  BY <1>1, <2>4, <2>5 DEF Bounds
<1>2. CASE pc # "pull"
  <2>1. Cardinality(FastSide) <= LaneBound /\ Cardinality(Flight) <= BufferBound
    BY <1>2 DEF Bounds
  <2>2. /\ FastSide' \in SUBSET FastSide /\ FastSide \in SUBSET Seqs
        /\ Flight' \in SUBSET Flight /\ Flight \in SUBSET Seqs
    BY <1>2, LineSets
  <2>3. /\ Cardinality(FastSide') <= Cardinality(FastSide)
        /\ Cardinality(FastSide') \in Nat /\ Cardinality(FastSide) \in Nat
    BY <2>2, NotMore
  <2>4. /\ Cardinality(Flight') <= Cardinality(Flight)
        /\ Cardinality(Flight') \in Nat /\ Cardinality(Flight) \in Nat
    BY <2>2, NotMore
  <2>5. LaneBound \in Int /\ BufferBound \in Int
    BY Positive DEF LaneBound, BufferBound
  <2>6. Cardinality(FastSide') <= LaneBound /\ Cardinality(Flight') <= BufferBound
    BY <2>1, <2>3, <2>4, <2>5
  <2>7. QED  BY <1>2, <2>6 DEF Bounds
<1>3. QED  BY <1>1, <1>2

\* A step of the others: it moves no line but takes one out of the buffer.
LEMMA OthersKeepBounds ==
  ASSUME IInv, CoordInv, Bounds,
         pc' = pc \/ (pc # "pull" /\ pc' \notin {"pull", "collectFast"}),
         lineResults' \subseteq lineResults, lanes' = lanes, collecting' = collecting,
         LinesOf(pendingFast)' = LinesOf(pendingFast),
         LinesOf(pendingHeavy)' = LinesOf(pendingHeavy)
  PROVE  Bounds'
<1>1. LaneLines' = LaneLines
  BY SameLines
<1>2. pc # "pull" => FastSide' \subseteq FastSide
  BY <1>1 DEF FastSide
<1>3. Flight' \subseteq Flight
  BY DEF Flight
<1>4. QED  BY <1>1, <1>2, <1>3, Shrinking

\* The end of a pull, or of a pass without one: the fast tasks are split.
LEMMA EndOfPullKeepsBounds ==
  ASSUME IInv, CoordInv, Sizes, Bounds, DOMAIN collecting = {}, BeginCollectFast,
         UNCHANGED <<lineResults, lanes, pendingHeavy>>
  PROVE  Bounds'
<1>1. /\ LinesOf(collecting') \cup LinesOf(pendingFast') = LinesOf(pendingFast)
      /\ LinesOf(collecting) = {}
  <2>1. Parted(collecting', pendingFast', pendingFast)
    BY Split, Parts DEF BeginCollectFast
  <2>2. QED  BY <2>1, NoLines DEF Parted
<1>2. LaneLines' = LaneLines /\ pc' = "collectFast"
  BY SameLines DEF BeginCollectFast
<1> DEFINE FS == LaneLines \cup LinesOf(pendingFast)
           FL == lineResults \cup LinesOf(pendingFast) \cup LinesOf(pendingHeavy)
<1>3. FastSide' = FS /\ Flight' = FL
  BY <1>1, <1>2 DEF FastSide, Flight
<1>4. CASE pc = "pull"
  <2>1. Cardinality(LaneLines) < SurvivorCap /\ Cardinality(lineResults) < MaxCompleted
    BY <1>4 DEF Bounds
  <2>2. LineTable(pendingHeavy) /\ SmallTasks(pendingHeavy, CleanQueue, HeavyBatch)
    BY Tables DEF Sizes
  <2>3. Cardinality(FL) <= BufferBound
    BY <2>1, <2>2, FlightCounted
  <2>4. /\ LinesOf(pendingFast) \in SUBSET Seqs /\ FastQueue * MaxBatch \in Nat
        /\ Cardinality(LinesOf(pendingFast)) <= FastQueue * MaxBatch
        /\ LaneLines \in SUBSET Seqs
    BY FastLines, LineSets
  <2>5. Cardinality(FS) <= LaneBound
    BY <2>1, <2>4, FewMore, Positive DEF LaneBound
  <2> HIDE DEF FS, FL
  <2>6. QED  BY <1>2, <1>3, <2>3, <2>5 DEF Bounds
<1>5. CASE pc # "pull"
  <2>1. FS \subseteq FastSide /\ FL \subseteq Flight
    BY DEF FastSide, Flight
  <2> HIDE DEF FS, FL
  <2>2. pc' # "pull" /\ FastSide' \subseteq FastSide /\ Flight' \subseteq Flight
    BY <1>2, <1>3, <2>1
  <2>3. QED  BY <1>5, <2>2, Shrinking
<1>6. QED  BY <1>4, <1>5

LEMMA PassKeepsBounds ==
  ASSUME IInv, CoordInv, Sizes, Bounds, StartPass \/ EndPull
  PROVE  Bounds'
<1>1. /\ DOMAIN collecting = {} /\ UNCHANGED <<lineResults, lanes, pendingHeavy>>
  BY Parts DEF StartPass, EndPull, coordVars
<1>2. CASE BeginCollectFast
  BY <1>1, <1>2, EndOfPullKeepsBounds
<1>3. CASE ~BeginCollectFast
  <2>1. pc' = "pull" /\ CanSubmit /\ LaneTotal < SurvivorCap
    BY <1>3 DEF StartPass, EndPull
  <2>2. LaneLines' = LaneLines
    BY <1>1, SameLines
  <2>3. Cardinality(LaneLines) < SurvivorCap /\ Cardinality(lineResults) < MaxCompleted
    BY <2>1, RoomInBuffer DEF LaneTotal
  <2>4. Cardinality(LaneLines') < SurvivorCap /\ Cardinality(lineResults') < MaxCompleted
    BY <1>1, <2>2, <2>3
  <2>5. QED  BY <2>1, <2>4 DEF Bounds
<1>4. QED  BY <1>2, <1>3

LEMMA PullKeepsBounds ==
  ASSUME IInv, CoordInv, Bounds, PullBatch \/ PullSentinel
  PROVE  Bounds'
<1>1. pc = "pull" /\ pc' = "pull" /\ lineResults' = lineResults /\ lanes' = lanes
  BY DEF PullBatch, PullSentinel, coordVars, taskVars
<1>2. LaneLines' = LaneLines
  BY <1>1, SameLines
<1>3. QED  BY <1>1, <1>2 DEF Bounds

\* A collected task: its lines go to the buffer, to the lanes, or away.
LEMMA CollectKeepsBounds ==
  ASSUME IInv, CoordInv, Bounds, CollectFast \/ FallBack \/ CollectHeavy \/ LoseHeavy
  PROVE  Bounds'
<1>1. /\ pc' = pc /\ pc # "pull" /\ (pc # "collectFast" => lanes' = lanes)
      /\ UNCHANGED <<pendingFast, pendingHeavy>>
  BY DEF CollectFast, FallBack, CollectHeavy, LoseHeavy
<1>2. PICK id \in DOMAIN collecting :
        /\ collecting' = Without(collecting, id)
        /\ \/ lineResults' = lineResults
           \/ \E T \in SUBSET collecting[id].lines : Coord!Ingest(T)
        /\ lanes' = lanes
             \/ lanes' = [l \in Lanes |->
                            lanes[l] \cup {s \in collecting[id].lines : kind[s] = l}]
  <2>1. CASE CollectFast
    <3>1. PICK id \in DOMAIN collecting :
            LET batch == collecting[id].lines
                terminal == {s \in batch : kind[s] = "terminal"}
            IN /\ IF terminal = {} THEN UNCHANGED coordVars ELSE Coord!Ingest(terminal)
               /\ lanes' = [l \in Lanes |-> lanes[l] \cup {s \in batch : kind[s] = l}]
               /\ collecting' = Without(collecting, id)
      BY <2>1 DEF CollectFast
    <3> DEFINE T == {s \in collecting[id].lines : kind[s] = "terminal"}
    <3>2. T \in SUBSET collecting[id].lines
      OBVIOUS
    <3>3. UNCHANGED coordVars \/ Coord!Ingest(T)
      BY <3>1
    <3> HIDE DEF T
    <3>4. lineResults' = lineResults
            \/ \E U \in SUBSET collecting[id].lines : Coord!Ingest(U)
      BY <3>2, <3>3 DEF coordVars
    <3>5. QED  BY <3>1, <3>4
  <2>2. CASE FallBack
    BY <2>2 DEF FallBack
  <2>3. CASE CollectHeavy
    BY <2>3 DEF CollectHeavy
  <2>4. CASE LoseHeavy
    BY <2>4 DEF LoseHeavy, coordVars
  <2>5. QED  BY <2>1, <2>2, <2>3, <2>4
<1>3. Removed(collecting', collecting, id)
  BY <1>2, WithoutTask, Parts
<1>4. /\ LinesOf(collecting') \subseteq LinesOf(collecting)
      /\ collecting[id].lines \subseteq LinesOf(collecting)
  BY <1>3 DEF Removed
<1>5. lineResults' \subseteq lineResults \cup LinesOf(collecting)
  BY <1>2, <1>4 DEF Coord!Ingest
<1>6. LaneLines' \subseteq LaneLines \cup LinesOf(collecting)
  <2>1. CASE lanes' = lanes
    BY <2>1, SameLines
  <2>2. CASE lanes' = [l \in Lanes |->
                         lanes[l] \cup {s \in collecting[id].lines : kind[s] = l}]
    BY <1>4, <2>2 DEF LaneLines
  <2>3. QED  BY <1>2, <2>1, <2>2
<1>7. pc # "collectFast" => LaneLines' = LaneLines
  BY <1>1, SameLines
<1>8. FastSide' \subseteq FastSide
  BY <1>1, <1>4, <1>6, <1>7 DEF FastSide
<1>9. Flight' \subseteq Flight
  BY <1>1, <1>4, <1>5 DEF Flight
<1>10. QED  BY <1>1, <1>8, <1>9, Shrinking

\* Lines leave their lanes for tasks, while the buffer is below its limit.
LEMMA SubmitKeepsBounds ==
  ASSUME IInv, InOrder, CoordInv, Sizes, Bounds,
         SubmitNothing \/ SubmitHead \/ SubmitFromLane \/ NextLane
  PROVE  Bounds'
<1>1. /\ pc \in {"submit", "lanes"}
      /\ DOMAIN collecting = {} /\ LinesOf(collecting) = {}
      /\ UNCHANGED <<lineResults, pendingFast>>
  <2>1. pc \in {"submit", "lanes"} /\ UNCHANGED <<lineResults, pendingFast>>
    BY DEF SubmitNothing, SubmitHead, SubmitFromLane, NextLane, coordVars
  <2>2. DOMAIN collecting = {}
    BY <2>1, Parts
  <2>3. QED  BY <2>1, <2>2, NoLines
<1>2. pc' \in {"lanes", "collectHeavy", "top"}
  BY DEF SubmitNothing, SubmitHead, SubmitFromLane, NextLane, EndSubmit
<1>3. LaneLines' \subseteq LaneLines
  <2>1. \A l \in Lanes : lanes'[l] \subseteq lanes[l]
    <3>1. CASE SubmitNothing \/ NextLane
      BY <3>1 DEF SubmitNothing, NextLane
    <3>2. CASE SubmitHead \/ SubmitFromLane
      <4>1. PICK k, B : lanes' = [lanes EXCEPT ![k] = @ \ B]
        BY <3>2 DEF SubmitHead, SubmitFromLane
      <4>2. lanes \in [Lanes -> SUBSET Seqs]
        BY Parts
      <4>3. QED  BY <4>1, <4>2
    <3>3. QED  BY <3>1, <3>2
  <2>2. QED  BY <2>1 DEF LaneLines
<1>4. FastSide' \subseteq FastSide
  BY <1>1, <1>2, <1>3 DEF FastSide
<1>5. ASSUME NEW t, HeavyStarts(t)
      PROVE  LinesOf(pendingHeavy') \cup LinesOf(collecting') \subseteq LinesOf(t)
  <2>1. CASE pendingHeavy' = t /\ collecting' = collecting
    BY <1>1, <2>1
  <2>2. CASE BeginCollectHeavy(t)
    <3>1. \/ collecting' = Only(t, Ended) /\ pendingHeavy' = Only(t, Running)
          \/ collecting' = collecting /\ pendingHeavy' = t
      BY <2>2 DEF BeginCollectHeavy
    <3>2. LinesOf(Only(t, Ended)) \subseteq LinesOf(t)
          /\ LinesOf(Only(t, Running)) \subseteq LinesOf(t)
      BY DEF LinesOf, Only
    <3>3. QED  BY <1>1, <3>1, <3>2
  <2>3. QED  BY <1>5, <2>1, <2>2 DEF HeavyStarts
<1>6. CASE SubmitNothing \/ NextLane
  <2>1. HeavyStarts(pendingHeavy)
    BY <1>6, HeavyNone
  <2>2. Flight' \subseteq Flight
    BY <1>1, <1>5, <2>1 DEF Flight
  <2>3. QED  BY <1>1, <1>2, <1>4, <2>2, Shrinking
<1>7. CASE SubmitHead \/ SubmitFromLane
  <2>1. PICK t : HeavyStarts(t)
    BY <1>7, HeavySome
  <2>2. Cardinality(lineResults) < MaxCompleted
    BY <1>7, RoomInBuffer
    DEF SubmitHead, SubmitFromLane, NothingToSubmit, LaneAccepts
  <2> DEFINE FL == lineResults \cup LinesOf(pendingFast) \cup LinesOf(t)
  <2>3. Cardinality(FL) <= BufferBound
    BY <2>1, <2>2, FlightCounted DEF HeavyStarts
  <2>4. LinesOf(t) \in SUBSET Seqs
    BY <2>1 DEF HeavyStarts, LineTable, LinesOf
  <2>5. FL \in SUBSET Seqs
    BY <2>4, LineSets
  <2>6. Flight' \in SUBSET FL
    BY <1>1, <1>5, <2>1 DEF Flight
  <2> HIDE DEF FL
  <2>7. /\ Cardinality(Flight') <= Cardinality(FL)
        /\ Cardinality(Flight') \in Nat /\ Cardinality(FL) \in Nat
    BY <2>5, <2>6, NotMore
  <2>8. BufferBound \in Int /\ LaneBound \in Int
    BY Positive DEF BufferBound, LaneBound
  <2>9. Cardinality(Flight') <= BufferBound
    BY <2>3, <2>7, <2>8
  <2>10. FastSide' \in SUBSET FastSide /\ FastSide \in SUBSET Seqs
    BY <1>4, LineSets
  <2>11. /\ Cardinality(FastSide') <= Cardinality(FastSide)
         /\ Cardinality(FastSide') \in Nat /\ Cardinality(FastSide) \in Nat
    BY <2>10, NotMore
  <2>12. Cardinality(FastSide) <= LaneBound
    BY <1>1 DEF Bounds
  <2>13. Cardinality(FastSide') <= LaneBound
    BY <2>8, <2>11, <2>12
  <2>14. QED  BY <1>2, <2>9, <2>13 DEF Bounds
<1>8. QED  BY <1>6, <1>7

LEMMA BoundsStep ==
  IInv /\ InOrder /\ CoordInv /\ Sizes /\ Bounds /\ [Next]_vars => Bounds'
<1> SUFFICES ASSUME IInv, InOrder, CoordInv, Sizes, Bounds, [Next]_vars
             PROVE  Bounds'
  OBVIOUS
<1> DEFINE Others ==
      /\ pc' = pc \/ (pc # "pull" /\ pc' \notin {"pull", "collectFast"})
      /\ lineResults' \subseteq lineResults /\ lanes' = lanes /\ collecting' = collecting
      /\ LinesOf(pendingFast)' = LinesOf(pendingFast)
      /\ LinesOf(pendingHeavy)' = LinesOf(pendingHeavy)
<1>1. Others => Bounds'
  BY OthersKeepBounds
<1>2. CASE WorkerStep
  <2>1. pc' = pc /\ lineResults' = lineResults /\ lanes' = lanes /\ collecting' = collecting
    BY <1>2
    DEF WorkerStep, FastFinishes, FastFails, HeavyFinishes, HeavyFails, FastEnds,
        HeavyEnds, coordVars
  <2>2. /\ LinesOf(pendingFast') = LinesOf(pendingFast)
        /\ LinesOf(pendingHeavy') = LinesOf(pendingHeavy)
    <3>1. /\ pendingFast \in [DOMAIN pendingFast -> Task]
          /\ pendingHeavy \in [DOMAIN pendingHeavy -> HeavyTasks]
          /\ TableOf(pendingFast, Seqs, Task) /\ TableApart(pendingFast)
          /\ TableOf(pendingHeavy, 1 .. Total, HeavyTasks) /\ TableApart(pendingHeavy)
      BY Parts DEF TableOf
    <3>2. CASE FastFinishes \/ FastFails
      <4>1. PICK status \in {"done", "failed"}, i \in DOMAIN pendingFast :
              pendingFast' = [pendingFast EXCEPT ![i].status = status]
        BY <3>2 DEF FastFinishes, FastFails, FastEnds
      <4>2. pendingHeavy' = pendingHeavy
        BY <3>2 DEF FastFinishes, FastFails, FastEnds
      <4>3. SameLinesIn(pendingFast', pendingFast)
        BY <3>1, <4>1, TaskEnds
      <4>4. QED  BY <4>2, <4>3 DEF SameLinesIn
    <3>3. CASE HeavyFinishes \/ HeavyFails
      <4>1. PICK status \in {"done", "failed"}, i \in DOMAIN pendingHeavy :
              pendingHeavy' = [pendingHeavy EXCEPT ![i].status = status]
        BY <3>3 DEF HeavyFinishes, HeavyFails, HeavyEnds
      <4>2. pendingFast' = pendingFast
        BY <3>3 DEF HeavyFinishes, HeavyFails, HeavyEnds
      <4>3. SameLinesIn(pendingHeavy', pendingHeavy)
        BY <3>1, <4>1, TaskEnds
      <4>4. QED  BY <4>2, <4>3 DEF SameLinesIn
    <3>4. QED  BY <1>2, <3>2, <3>3 DEF WorkerStep
  <2>3. Others
    BY <2>1, <2>2 DEF LinesOf
  <2>4. QED  BY <1>1, <2>3
<1>3. CASE ReaderStep
  <2>1. Others
    BY <1>3
    DEF ReaderStep, FillBatch, PutBatch, DropBatch, EndOfSources, ReaderRaises,
        PutSentinel, coordVars, taskVars, LinesOf
  <2>2. QED  BY <1>1, <2>1
<1>4. CASE StartPass \/ EndPull
  BY <1>4, PassKeepsBounds
<1>5. CASE PullBatch \/ PullSentinel
  BY <1>5, PullKeepsBounds
<1>6. CASE CollectFast \/ FallBack \/ CollectHeavy \/ LoseHeavy
  BY <1>6, CollectKeepsBounds
<1>7. CASE SubmitNothing \/ SubmitHead \/ SubmitFromLane \/ NextLane
  BY <1>7, SubmitKeepsBounds
<1>8. CASE \/ LeaveLoop \/ EndCollectFast \/ ReadHead \/ SubmitLanes \/ EndCollectHeavy
           \/ StopCoordinator \/ Join
  <2>1. UNCHANGED <<lineResults, lanes, collecting, pendingFast, pendingHeavy>>
    BY <1>8
    DEF LeaveLoop, EndCollectFast, ReadHead, SubmitLanes, EndCollectHeavy,
        StopCoordinator, Join, Coord!Stop, coordVars, taskVars
  <2>2. pc # "pull" /\ pc' \notin {"pull", "collectFast"}
    BY <1>8
    DEF LeaveLoop, EndCollectFast, ReadHead, SubmitLanes, EndCollectHeavy, ReadGap,
        StopCoordinator, Join
  <2>3. Others
    BY <2>1, <2>2 DEF LinesOf
  <2>4. QED  BY <1>1, <2>3
<1>9. CASE ApplyThread
  <2>1. lineResults' \subseteq lineResults
    BY <1>9
    DEF ApplyThread, Coord!Pop, Coord!Apply, Coord!Raise, Coord!Advance, Coord!Exit
  <2>2. pc' = pc /\ UNCHANGED <<lanes, collecting, pendingFast, pendingHeavy>>
    BY <1>9 DEF ApplyThread, taskVars
  <2>3. Others
    BY <2>1, <2>2 DEF LinesOf
  <2>4. QED  BY <1>1, <2>3
<1>10. CASE LimitReached \/ DrainExpires \/ StopSignal \/ UNCHANGED vars
  <2>1. Others
    BY <1>10
    DEF LimitReached, DrainExpires, StopSignal, vars, coordVars, taskVars, LinesOf
  <2>2. QED  BY <1>1, <2>1
<1>11. QED
  BY <1>2, <1>3, <1>4, <1>5, <1>6, <1>7, <1>8, <1>9, <1>10 DEF Next, SchedulerStep

LEMMA BoundsInvariance == Spec => [](Sizes /\ Bounds)
<1>1. Init => Sizes /\ Bounds
  <2> SUFFICES ASSUME Init PROVE Sizes /\ Bounds
    OBVIOUS
  <2>1. DOMAIN NoTasks = {} /\ DOMAIN readQueue = {}
    BY DEF Init, NoTasks
  <2>2. Cardinality({}) = 0
    BY FS_EmptySet
  <2>3. Sizes
    BY <2>1, <2>2, Positive DEF Init, Sizes, SmallTasks
  <2>4. /\ LinesOf(pendingFast) = {} /\ LinesOf(pendingHeavy) = {}
        /\ LinesOf(collecting) = {} /\ LaneLines = {} /\ lineResults = {}
    BY <2>1, NoLines DEF Init, LaneLines, Coord!Init
  <2>5. FastSide = {} /\ Flight = {} /\ pc = "top"
    BY <2>4 DEF Init, FastSide, Flight
  <2>6. FastQueue * MaxBatch \in Nat /\ CleanQueue * HeavyBatch \in Nat
    BY Positive
  <2>7. 0 <= LaneBound /\ 0 <= BufferBound
    BY <2>6, Positive DEF LaneBound, BufferBound
  <2>8. Bounds
    BY <2>2, <2>5, <2>7 DEF Bounds
  <2>9. QED  BY <2>3, <2>8
<1>2. IInv /\ InOrder /\ CoordInv /\ Sizes /\ Bounds /\ [Next]_vars => (Sizes /\ Bounds)'
  BY SizesStep, BoundsStep
<1>3. QED  BY <1>1, <1>2, Invariance, CoordinatorInvariance, PTL DEF Spec

(* The reorder buffer never exceeds its limit by more than what was in      *)
(* flight when the limit was last tested, whatever fails, stops or comes    *)
(* late (run_graph_merge, runner.py:188 to 247): the tables and batches are *)
(* limited, and nothing starts while the buffer is full.                    *)
THEOREM BufferIsBounded == Spec => []ApplyBufferBounded
<1>1. IInv /\ CoordInv /\ Bounds => ApplyBufferBounded
  <2> SUFFICES ASSUME IInv, CoordInv, Bounds
               PROVE  Cardinality(lineResults) <= BufferBound
    BY DEF ApplyBufferBounded, BufferBound
  <2>1. lineResults \in SUBSET Flight /\ Flight \in SUBSET Seqs
    BY LineSets DEF Flight
  <2>2. /\ Cardinality(lineResults) <= Cardinality(Flight)
        /\ Cardinality(lineResults) \in Nat /\ Cardinality(Flight) \in Nat
    BY <2>1, NotMore
  <2>3. FastQueue * MaxBatch \in Nat /\ CleanQueue * HeavyBatch \in Nat
    BY Positive
  <2> DEFINE f == FastQueue * MaxBatch
             h == CleanQueue * HeavyBatch
  <2>4. BufferBound = MaxCompleted - 1 + f + h
    BY DEF BufferBound
  <2>5. f \in Nat /\ h \in Nat
    BY <2>3
  <2> HIDE DEF f, h
  <2>6. CASE pc = "pull"
    BY <2>2, <2>4, <2>5, <2>6, Positive DEF Bounds
  <2>7. CASE pc # "pull"
    BY <2>2, <2>4, <2>5, <2>7, Positive DEF Bounds
  <2>8. QED  BY <2>6, <2>7
<1>2. QED
  BY <1>1, Invariance, CoordinatorInvariance, BoundsInvariance, PTL

(* The same for the lanes, whose limit is tested before a pull only.        *)
THEOREM LanesAreBounded == Spec => []LanesBounded
<1>1. IInv /\ CoordInv /\ Bounds => LanesBounded
  <2> SUFFICES ASSUME IInv, CoordInv, Bounds
               PROVE  Cardinality(LaneLines) <= LaneBound
    BY DEF LanesBounded, LaneTotal, LaneBound
  <2>1. LaneLines \in SUBSET FastSide /\ FastSide \in SUBSET Seqs
    BY LineSets DEF FastSide
  <2>2. /\ Cardinality(LaneLines) <= Cardinality(FastSide)
        /\ Cardinality(LaneLines) \in Nat /\ Cardinality(FastSide) \in Nat
    BY <2>1, NotMore
  <2> DEFINE f == FastQueue * MaxBatch
  <2>3. f \in Nat
    BY Positive
  <2>4. LaneBound = SurvivorCap - 1 + f
    BY DEF LaneBound
  <2> HIDE DEF f
  <2>5. CASE pc = "pull"
    BY <2>2, <2>3, <2>4, <2>5, Positive DEF Bounds
  <2>6. CASE pc # "pull"
    BY <2>2, <2>3, <2>4, <2>6, Positive DEF Bounds
  <2>7. QED  BY <2>5, <2>6
<1>2. QED
  BY <1>1, Invariance, CoordinatorInvariance, BoundsInvariance, PTL
================================================================================
