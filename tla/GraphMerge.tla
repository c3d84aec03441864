------------------------------- MODULE GraphMerge -------------------------------
(***************************************************************************)
(* One parallel merge run: the reader thread, the pools of fast and heavy   *)
(* workers, the scheduler loop on the main thread and the apply thread      *)
(* (src/indw/schedule/graph/runner.py, dispatch/parallel.py and lanes.py;   *)
(* the apply thread is module ApplyCoordinator).                            *)
(*                                                                          *)
(*   reader --readQueue--> scheduler --pendingFast--> fast workers          *)
(*     fast results: terminal lines --> lineResults                         *)
(*                   survivors      --> lanes --pendingHeavy--> heavy pool  *)
(*     heavy results                --> lineResults --> apply --> output    *)
(*                                                                          *)
(* A line is its sequence number; what the filters would say of it is drawn *)
(* in the initial state.  The lists of a lane are kept sorted by sequence   *)
(* number by the code, so a lane is a set here and its first element the    *)
(* least.  Each pass of the scheduler loop is split where another thread    *)
(* can be noticed: at every read and write of the coordinator.              *)
(*                                                                          *)
(* A "Variant" is not part of the specification: it is the definition after *)
(* it with a mistake in it, which the property README.md names must notice. *)
(***************************************************************************)
EXTENDS Integers, Sequences, FiniteSets, FiniteSetsExt

CONSTANTS
  Total,         \* raw lines of the run
  Kinds,         \* what a line may turn out to be
  MaxBatch,      \* fast_batch: lines in a batch of the reader
  IngestQueue,   \* ingest_queue: capacity of the read queue
  FastQueue,     \* fast_queue: fast batches in flight
  CleanQueue,    \* clean_queue: heavy batches in flight
  HeavyBatch,    \* heavy_batch: survivors in a batch of the normal lane
  SurvivorCap,   \* survivor_buffer_cap
  MaxCompleted,  \* max_heavy_completed_results
  SlotLimit,     \* lane_worker_slots, by lane
  Faults         \* the things that may go wrong in this run

LaneOrder == <<"normal", "large", "huge">>       \* ALL_LANES
Lanes == {"normal", "large", "huge"}

PossibleFaults ==
  { "fast_fails", "heavy_fails",   \* a worker task ends with an exception
    "apply_raises",                \* so does the apply thread
    "reader_raises",               \* or the iteration over the sources
    "time_limit",                  \* time_limit_sec runs out
    "stop_signal",                 \* SIGINT or SIGTERM, once
    "join_expires" }               \* the apply thread outlives its join

ASSUME BoundsAssumption ==
  /\ Total \in Nat
  /\ {MaxBatch, IngestQueue, FastQueue, CleanQueue, HeavyBatch,
      SurvivorCap, MaxCompleted} \subseteq Nat \ {0}
ASSUME KindsAssumption == Kinds \subseteq {"terminal"} \cup Lanes
ASSUME SlotAssumption == SlotLimit \in [Lanes -> Nat]
ASSUME FaultsAssumption == Faults \subseteq PossibleFaults

Seqs == 0 .. Total - 1

VARIABLES
  kind,            \* kind[s]: "terminal", or the lane the survivor s goes to
  \* the apply coordinator, as in ApplyCoordinator
  lineResults, nextWriteSeq, stopSet, applyPc, written, delivered,
  \* the reader thread
  readerPc,        \* "reading", "closing" or "done"
  sent,            \* the number of lines it has put into the queue
  batchInHand,     \* the length of the batch it is trying to put
  readerFailed,    \* history: the iteration raised
  readQueue,       \* read_queue
  \* the scheduler loop
  pc,
  pendingFast,     \* pending_fast: from the ids of the batches to the tasks
  pendingHeavy,    \* pending_heavy: from the ids of the heavy tasks to them
  collecting,      \* the finished tasks this pass has still to collect
  lanes,           \* lane_buffers
  readerDone, drainMode,
  gap, head,       \* what _submit_heavy_lanes has read of the coordinator
  lane, pass,      \* its position in ALL_LANES; the first or second call
  \* the surroundings
  clock,           \* "running", "limit" or "drained"
  stopRequested,   \* stop_state.requested
  outcome,
  lost             \* history: the lines of failed heavy tasks

coordVars == <<lineResults, nextWriteSeq, stopSet, applyPc, written, delivered>>
readerVars == <<readerPc, sent, batchInHand, readerFailed>>
taskVars == <<pendingFast, pendingHeavy, collecting, lanes, lost>>
localVars == <<readerDone, drainMode, gap, head, lane, pass>>
envVars == <<clock, stopRequested, outcome>>
vars == <<kind, coordVars, readerVars, readQueue, pc, taskVars, localVars, envVars>>

Coord == INSTANCE ApplyCoordinator
           WITH ApplyMayRaise <- "apply_raises" \in Faults

\* MERGE_READ_SENTINEL, where the queue otherwise holds sets of lines.
Sentinel == {}

NoTasks == [i \in {} |-> Sentinel]

Init ==
  /\ kind \in [Seqs -> Kinds]
  /\ Coord!Init
  /\ readerPc = "reading" /\ sent = 0 /\ batchInHand = 0 /\ readerFailed = FALSE
  /\ readQueue = <<>>
  /\ pc = "top"
  /\ pendingFast = NoTasks /\ pendingHeavy = NoTasks /\ collecting = NoTasks
  /\ lanes = [l \in Lanes |-> {}]
  /\ readerDone = FALSE /\ drainMode = FALSE
  /\ gap = FALSE /\ head = 0 /\ lane = 1 /\ pass = 1
  /\ clock = "running" /\ stopRequested = FALSE /\ outcome = "running"
  /\ lost = {}

--------------------------------------------------------------------------------
\* stop_event is set by the signal handler and by _on_merge_time_limit.
StopEvent == stopRequested \/ drainMode

(***************************************************************************)
(* The reader thread.                                                       *)
(***************************************************************************)

\* A batch is complete: it has batch_target lines, or batch_flush_sec is over,
\* or the sources are exhausted.
FillBatch ==
  /\ readerPc = "reading" /\ batchInHand = 0 /\ ~StopEvent
  /\ \E n \in 1 .. MaxBatch :
       /\ sent + n <= Total
       /\ batchInHand' = n
  /\ UNCHANGED <<readerPc, sent, readerFailed>>
  /\ UNCHANGED <<kind, coordVars, readQueue, pc, taskVars, localVars, envVars>>

\* put() succeeds.  The stop event is looked at before the put, not after.
PutBatch ==
  /\ batchInHand > 0
  /\ Len(readQueue) < IngestQueue
  /\ readQueue' = Append(readQueue, sent .. sent + batchInHand - 1)
  /\ sent' = sent + batchInHand
  /\ batchInHand' = 0
  /\ UNCHANGED <<readerPc, readerFailed>>
  /\ UNCHANGED <<kind, coordVars, pc, taskVars, localVars, envVars>>

\* put() times out and the loop around it sees the stop event.
DropBatch ==
  /\ batchInHand > 0
  /\ StopEvent
  /\ batchInHand' = 0
  /\ UNCHANGED <<readerPc, sent, readerFailed>>
  /\ UNCHANGED <<kind, coordVars, readQueue, pc, taskVars, localVars, envVars>>

EndOfSources ==
  /\ readerPc = "reading" /\ batchInHand = 0
  /\ sent = Total \/ StopEvent
  /\ readerPc' = "closing"
  /\ UNCHANGED <<sent, batchInHand, readerFailed>>
  /\ UNCHANGED <<kind, coordVars, readQueue, pc, taskVars, localVars, envVars>>

\* The iteration raises; only the finally clause is left to run.
ReaderRaises ==
  /\ "reader_raises" \in Faults
  /\ readerPc = "reading" /\ batchInHand = 0 /\ sent < Total
  /\ readerPc' = "closing"
  /\ readerFailed' = TRUE
  /\ UNCHANGED <<sent, batchInHand>>
  /\ UNCHANGED <<kind, coordVars, readQueue, pc, taskVars, localVars, envVars>>

\* The sentinel is put without a timeout.
PutSentinel ==
  /\ readerPc = "closing"
  /\ Len(readQueue) < IngestQueue
  /\ readQueue' = Append(readQueue, Sentinel)
  /\ readerPc' = "done"
  /\ UNCHANGED <<sent, batchInHand, readerFailed>>
  /\ UNCHANGED <<kind, coordVars, pc, taskVars, localVars, envVars>>

ReaderStep ==
  FillBatch \/ PutBatch \/ DropBatch \/ EndOfSources \/ ReaderRaises \/ PutSentinel

(***************************************************************************)
(* The workers: a running task ends, well or with an exception.  Tasks end  *)
(* in any order.                                                            *)
(***************************************************************************)
FastEnds(status) ==
  /\ \E i \in DOMAIN pendingFast :
       /\ pendingFast[i].status = "running"
       /\ pendingFast' = [pendingFast EXCEPT ![i].status = status]
  /\ UNCHANGED <<pendingHeavy, collecting, lanes, lost>>
  /\ UNCHANGED <<kind, coordVars, readerVars, readQueue, pc, localVars, envVars>>

HeavyEnds(status) ==
  /\ \E i \in DOMAIN pendingHeavy :
       /\ pendingHeavy[i].status = "running"
       /\ pendingHeavy' = [pendingHeavy EXCEPT ![i].status = status]
  /\ UNCHANGED <<pendingFast, collecting, lanes, lost>>
  /\ UNCHANGED <<kind, coordVars, readerVars, readQueue, pc, localVars, envVars>>

FastFinishes == FastEnds("done")
FastFails == "fast_fails" \in Faults /\ FastEnds("failed")
HeavyFinishes == HeavyEnds("done")
HeavyFails == "heavy_fails" \in Faults /\ HeavyEnds("failed")

WorkerStep == FastFinishes \/ FastFails \/ HeavyFinishes \/ HeavyFails

(***************************************************************************)
(* The scheduler loop, run_graph_merge.                                     *)
(***************************************************************************)
CanSubmit == Coord!CanAccept(MaxCompleted)

LinesOf(tasks) == UNION {tasks[i].lines : i \in DOMAIN tasks}
LaneLines == UNION {lanes[l] : l \in Lanes}
LaneTotal == Cardinality(LaneLines)

Running(t) == t.status = "running"
Ended(t) == ~Running(t)

\* The tasks of a table that are running, or have ended.
Only(tasks, Test(_)) == [i \in {j \in DOMAIN tasks : Test(tasks[j])} |-> tasks[i]]

With(tasks, id, task) ==
  [i \in DOMAIN tasks \cup {id} |-> IF i = id THEN task ELSE tasks[i]]

Without(tasks, id) == [i \in DOMAIN tasks \ {id} |-> tasks[i]]

FirstOf(tasks, id) == id \in DOMAIN tasks /\ \A i \in DOMAIN tasks : id <= i

\* Variant: the lanes are forgotten in the loop's condition.
AllCollectedButLanes ==
  readerDone /\ pendingFast = NoTasks /\ pendingHeavy = NoTasks

AllCollected ==
  readerDone /\ pendingFast = NoTasks /\ pendingHeavy = NoTasks /\ LaneTotal = 0

\* Variant: the drain has no deadline.
DrainWithoutDeadline == drainMode /\ AllCollected

DrainDone ==
  drainMode /\ (AllCollected \/ (clock = "drained" /\ pendingHeavy = NoTasks))

Leaving == AllCollected \/ stopRequested \/ DrainDone

LeaveLoop ==
  /\ pc = "top"
  /\ Leaving
  /\ pc' = "left"
  /\ UNCHANGED <<kind, coordVars, readerVars, readQueue, taskVars, localVars, envVars>>

\* sorted(... if t.done()): the finished tasks leave the table, to be
\* collected one by one in the order of their ids.
BeginCollectFast ==
  /\ collecting' = Only(pendingFast, Ended)
  /\ pendingFast' = Only(pendingFast, Running)
  /\ pc' = "collectFast"

\* Variants: one of the two tests of the backpressure is left out.
StartPassAnyBuffer ==
  /\ pc = "top"
  /\ ~Leaving
  /\ drainMode' = (drainMode \/ clock # "running")
  /\ IF ~drainMode' /\ LaneTotal < SurvivorCap
     THEN pc' = "pull" /\ UNCHANGED <<pendingFast, collecting>>
     ELSE BeginCollectFast
  /\ UNCHANGED <<pendingHeavy, lanes, lost, readerDone, gap, head, lane, pass>>
  /\ UNCHANGED <<kind, coordVars, readerVars, readQueue, envVars>>

StartPassAnyLanes ==
  /\ pc = "top"
  /\ ~Leaving
  /\ drainMode' = (drainMode \/ clock # "running")
  /\ IF ~drainMode' /\ CanSubmit
     THEN pc' = "pull" /\ UNCHANGED <<pendingFast, collecting>>
     ELSE BeginCollectFast
  /\ UNCHANGED <<pendingHeavy, lanes, lost, readerDone, gap, head, lane, pass>>
  /\ UNCHANGED <<kind, coordVars, readerVars, readQueue, envVars>>

\* _enter_drain, then the test of the backpressure.
StartPass ==
  /\ pc = "top"
  /\ ~Leaving
  /\ drainMode' = (drainMode \/ clock # "running")
  /\ IF ~drainMode' /\ CanSubmit /\ LaneTotal < SurvivorCap
     THEN pc' = "pull" /\ UNCHANGED <<pendingFast, collecting>>
     ELSE BeginCollectFast
  /\ UNCHANGED <<pendingHeavy, lanes, lost, readerDone, gap, head, lane, pass>>
  /\ UNCHANGED <<kind, coordVars, readerVars, readQueue, envVars>>

MayPull ==
  ~readerDone /\ Cardinality(DOMAIN pendingFast) < FastQueue /\ readQueue # <<>>

\* The ids of batches count up with their lines: the first line is the id.
PullBatch ==
  /\ pc = "pull"
  /\ MayPull /\ Head(readQueue) # Sentinel
  /\ readQueue' = Tail(readQueue)
  /\ \E first \in Head(readQueue) :
       /\ \A s \in Head(readQueue) : first <= s
       /\ pendingFast' = With(pendingFast, first,
                              [lines |-> Head(readQueue), status |-> "running"])
  /\ UNCHANGED <<pendingHeavy, collecting, lanes, lost>>
  /\ UNCHANGED <<kind, coordVars, readerVars, pc, localVars, envVars>>

PullSentinel ==
  /\ pc = "pull"
  /\ MayPull /\ Head(readQueue) = Sentinel
  /\ readQueue' = Tail(readQueue)
  /\ readerDone' = TRUE
  /\ UNCHANGED <<taskVars, pc, drainMode, gap, head, lane, pass>>
  /\ UNCHANGED <<kind, coordVars, readerVars, envVars>>

EndPull ==
  /\ pc = "pull"
  /\ ~MayPull
  /\ BeginCollectFast
  /\ UNCHANGED <<pendingHeavy, lanes, lost>>
  /\ UNCHANGED <<kind, coordVars, readerVars, readQueue, localVars, envVars>>

\* _collect_fast: terminal lines go to the coordinator, survivors to their
\* lanes.
CollectFast ==
  /\ pc = "collectFast"
  /\ \E id \in DOMAIN collecting :
       LET batch == collecting[id].lines
           terminal == {s \in batch : kind[s] = "terminal"}
       IN /\ FirstOf(collecting, id) /\ collecting[id].status = "done"
          /\ IF terminal = {} THEN UNCHANGED coordVars ELSE Coord!Ingest(terminal)
          /\ lanes' = [l \in Lanes |-> lanes[l] \cup {s \in batch : kind[s] = l}]
          /\ collecting' = Without(collecting, id)
  /\ UNCHANGED <<pendingFast, pendingHeavy, lost>>
  /\ UNCHANGED <<kind, readerVars, readQueue, pc, localVars, envVars>>

\* Variant: the survivors go to their lanes as well.
FallBackAndRoute ==
  /\ pc = "collectFast"
  /\ \E id \in DOMAIN collecting :
       LET batch == collecting[id].lines
       IN /\ FirstOf(collecting, id) /\ collecting[id].status = "failed"
          /\ Coord!Ingest(batch)
          /\ lanes' = [l \in Lanes |-> lanes[l] \cup {s \in batch : kind[s] = l}]
          /\ collecting' = Without(collecting, id)
  /\ UNCHANGED <<pendingFast, pendingHeavy, lost>>
  /\ UNCHANGED <<kind, readerVars, readQueue, pc, localVars, envVars>>

\* ... and after a failure the whole chain is run again on the main thread.
FallBack ==
  /\ pc = "collectFast"
  /\ \E id \in DOMAIN collecting :
       /\ FirstOf(collecting, id) /\ collecting[id].status = "failed"
       /\ Coord!Ingest(collecting[id].lines)
       /\ collecting' = Without(collecting, id)
  /\ UNCHANGED <<pendingFast, pendingHeavy, lanes, lost>>
  /\ UNCHANGED <<kind, readerVars, readQueue, pc, localVars, envVars>>

\* All collected: _submit_heavy_lanes begins, with apply_buffer_depth().
ReadGap ==
  /\ gap' = Coord!OrderingGap
  /\ pc' = "head"

EndCollectFast ==
  /\ pc = "collectFast" /\ collecting = NoTasks
  /\ ReadGap
  /\ UNCHANGED <<readerDone, drainMode, head, lane, pass>>
  /\ UNCHANGED <<kind, coordVars, readerVars, readQueue, taskVars, envVars>>

ReadHead ==
  /\ pc = "head"
  /\ head' = nextWriteSeq
  /\ pc' = "submit"
  /\ UNCHANGED <<readerDone, drainMode, gap, lane, pass>>
  /\ UNCHANGED <<kind, coordVars, readerVars, readQueue, taskVars, envVars>>

PendingIn(l) == Cardinality({i \in DOMAIN pendingHeavy : pendingHeavy[i].lane = l})

HeavyTableFull == Cardinality(DOMAIN pendingHeavy) >= CleanQueue

\* The end of _submit_heavy_lanes: the first call goes on to collect the heavy
\* tasks that are done, the second one to the end of the pass.
EndSubmit ==
  /\ gap' = FALSE /\ head' = 0 /\ lane' = 1 /\ pass' = 1
  /\ pc' = IF pass = 1 THEN "collectHeavy" ELSE "top"

BeginCollectHeavy(pending) ==
  IF pass = 1
  THEN /\ collecting' = Only(pending, Ended)
       /\ pendingHeavy' = Only(pending, Running)
  ELSE collecting' = collecting /\ pendingHeavy' = pending

\* The early returns.
NothingToSubmit ==
  \/ HeavyTableFull \/ ~CanSubmit \/ LaneTotal = 0
  \/ LaneTotal > SurvivorCap /\ gap

SubmitNothing ==
  /\ pc = "submit"
  /\ NothingToSubmit
  /\ BeginCollectHeavy(pendingHeavy)
  /\ EndSubmit
  /\ UNCHANGED <<pendingFast, lanes, lost, readerDone, drainMode>>
  /\ UNCHANGED <<kind, coordVars, readerVars, readQueue, envVars>>

HeavyTask(lines, l) == [lines |-> lines, lane |-> l, status |-> "running"]

\* next_heavy_id, which counts here from the last id in the table.
NextHeavyId ==
  {id \in 1 .. Total : /\ \A i \in DOMAIN pendingHeavy : i < id
                       /\ id = 1 \/ id - 1 \in DOMAIN pendingHeavy}

\* Variant: the head is found in its lane but not taken out of it.
SubmitHeadAndKeep ==
  /\ pc = "submit"
  /\ ~NothingToSubmit
  /\ gap /\ head \in LaneLines
  /\ \E l \in Lanes :
       /\ head \in lanes[l]
       /\ \E id \in NextHeavyId :
            BeginCollectHeavy(With(pendingHeavy, id, HeavyTask({head}, l)))
  /\ EndSubmit
  /\ UNCHANGED <<pendingFast, lanes, lost, readerDone, drainMode>>
  /\ UNCHANGED <<kind, coordVars, readerVars, readQueue, envVars>>

\* The line everything waits for is in a lane: it goes first, alone, and
\* whatever the lane's limit is.
SubmitHead ==
  /\ pc = "submit"
  /\ ~NothingToSubmit
  /\ gap /\ head \in LaneLines
  /\ \E l \in Lanes :
       /\ head \in lanes[l]
       /\ lanes' = [lanes EXCEPT ![l] = @ \ {head}]
       /\ \E id \in NextHeavyId :
            BeginCollectHeavy(With(pendingHeavy, id, HeavyTask({head}, l)))
  /\ EndSubmit
  /\ UNCHANGED <<pendingFast, lost, readerDone, drainMode>>
  /\ UNCHANGED <<kind, coordVars, readerVars, readQueue, envVars>>

SubmitLanes ==
  /\ pc = "submit"
  /\ ~NothingToSubmit
  /\ ~(gap /\ head \in LaneLines)
  /\ pc' = "lanes"
  /\ UNCHANGED <<kind, coordVars, readerVars, readQueue, taskVars, localVars, envVars>>

\* pick_lane_batch: the first lines of the lane; several only from the normal
\* lane, and only while no line is missing.
PickBatch(l) ==
  LET size == IF l # "normal" \/ gap THEN 1 ELSE HeavyBatch
  IN {s \in lanes[l] : Cardinality({r \in lanes[l] : r < s}) < size}

\* Variants: the limit of the lane is off by one, or taken literally when it
\* is zero.
LaneAcceptsOneMore(l) ==
  /\ lanes[l] # {}
  /\ PendingIn(l) <= Max({1, SlotLimit[l]})
  /\ CanSubmit /\ ~HeavyTableFull

LaneAcceptsPerSlot(l) ==
  /\ lanes[l] # {}
  /\ PendingIn(l) < SlotLimit[l]
  /\ CanSubmit /\ ~HeavyTableFull

LaneAccepts(l) ==
  /\ lanes[l] # {}
  /\ PendingIn(l) < Max({1, SlotLimit[l]})
  /\ CanSubmit /\ ~HeavyTableFull

SubmitFromLane ==
  /\ pc = "lanes"
  /\ LET l == LaneOrder[lane]
     IN /\ LaneAccepts(l)
        /\ lanes' = [lanes EXCEPT ![l] = @ \ PickBatch(l)]
        /\ \E id \in NextHeavyId :
             pendingHeavy' = With(pendingHeavy, id, HeavyTask(PickBatch(l), l))
  /\ UNCHANGED <<pendingFast, collecting, lost>>
  /\ UNCHANGED <<kind, coordVars, readerVars, readQueue, pc, localVars, envVars>>

NextLane ==
  /\ pc = "lanes"
  /\ ~LaneAccepts(LaneOrder[lane])
  /\ IF lane < Len(LaneOrder)
     THEN /\ lane' = lane + 1
          /\ UNCHANGED <<pc, pendingHeavy, collecting, gap, head, pass>>
     ELSE BeginCollectHeavy(pendingHeavy) /\ EndSubmit
  /\ UNCHANGED <<pendingFast, lanes, lost, readerDone, drainMode>>
  /\ UNCHANGED <<kind, coordVars, readerVars, readQueue, envVars>>

\* _collect_heavy.
CollectHeavy ==
  /\ pc = "collectHeavy"
  /\ \E id \in DOMAIN collecting :
       /\ FirstOf(collecting, id) /\ collecting[id].status = "done"
       /\ Coord!Ingest(collecting[id].lines)
       /\ collecting' = Without(collecting, id)
  /\ UNCHANGED <<pendingFast, pendingHeavy, lanes, lost>>
  /\ UNCHANGED <<kind, readerVars, readQueue, pc, localVars, envVars>>

\* The exception is logged and counted, the batch is gone.
LoseHeavy ==
  /\ pc = "collectHeavy"
  /\ \E id \in DOMAIN collecting :
       /\ FirstOf(collecting, id) /\ collecting[id].status = "failed"
       /\ lost' = lost \cup collecting[id].lines
       /\ collecting' = Without(collecting, id)
  /\ UNCHANGED <<pendingFast, pendingHeavy, lanes>>
  /\ UNCHANGED <<kind, coordVars, readerVars, readQueue, pc, localVars, envVars>>

\* The end of a pass, or a second call of _submit_heavy_lanes when only lanes
\* are left to empty.
EndCollectHeavy ==
  /\ pc = "collectHeavy" /\ collecting = NoTasks
  /\ IF readerDone /\ pendingFast = NoTasks /\ LaneTotal > 0
     THEN pass' = 2 /\ ReadGap
     ELSE pc' = "top" /\ UNCHANGED <<pass, gap>>
  /\ UNCHANGED <<readerDone, drainMode, head, lane>>
  /\ UNCHANGED <<kind, coordVars, readerVars, readQueue, taskVars, envVars>>

\* run_graph_merge has returned: apply_coordinator.stop(), then join.
StopCoordinator ==
  /\ pc = "left"
  /\ Coord!Stop
  /\ pc' = "joining"
  /\ UNCHANGED <<kind, readerVars, readQueue, taskVars, localVars, envVars>>

Join ==
  /\ pc = "joining"
  /\ applyPc \in {"done", "dead"} \/ "join_expires" \in Faults
  /\ pc' = "ended"
  /\ outcome' = IF drainMode THEN "timed_out"
                ELSE IF stopRequested THEN "paused" ELSE "complete"
  /\ UNCHANGED <<clock, stopRequested>>
  /\ UNCHANGED <<kind, coordVars, readerVars, readQueue, taskVars, localVars>>

SchedulerStep ==
  \/ LeaveLoop \/ StartPass
  \/ PullBatch \/ PullSentinel \/ EndPull
  \/ CollectFast \/ FallBack \/ EndCollectFast
  \/ ReadHead \/ SubmitNothing \/ SubmitHead \/ SubmitLanes
  \/ SubmitFromLane \/ NextLane
  \/ CollectHeavy \/ LoseHeavy \/ EndCollectHeavy
  \/ StopCoordinator \/ Join

(***************************************************************************)
(* The apply thread, and the surroundings.                                  *)
(***************************************************************************)

\* What applying a line writes, and what it leaves out when a stop has been
\* requested, is module MergeResume.
ApplyThread ==
  /\ Coord!Pop \/ Coord!Apply \/ Coord!Raise \/ Coord!Advance \/ Coord!Exit
  /\ UNCHANGED <<kind, readerVars, readQueue, pc, taskVars, localVars, envVars>>

LimitReached ==
  /\ "time_limit" \in Faults
  /\ clock = "running"
  /\ clock' = "limit"
  /\ UNCHANGED <<stopRequested, outcome>>
  /\ UNCHANGED <<kind, coordVars, readerVars, readQueue, pc, taskVars, localVars>>

DrainExpires ==
  /\ drainMode
  /\ clock = "limit"
  /\ clock' = "drained"
  /\ UNCHANGED <<stopRequested, outcome>>
  /\ UNCHANGED <<kind, coordVars, readerVars, readQueue, pc, taskVars, localVars>>

StopSignal ==
  /\ "stop_signal" \in Faults
  /\ ~stopRequested
  /\ pc # "ended"
  /\ stopRequested' = TRUE
  /\ UNCHANGED <<clock, outcome>>
  /\ UNCHANGED <<kind, coordVars, readerVars, readQueue, pc, taskVars, localVars>>

Next ==
  \/ ReaderStep \/ WorkerStep \/ SchedulerStep \/ ApplyThread
  \/ LimitReached \/ DrainExpires \/ StopSignal

Spec == Init /\ [][Next]_vars

\* Threads run, tasks end, and a deadline passes once it has been set.
Fairness ==
  /\ WF_vars(ReaderStep)
  /\ WF_vars(WorkerStep)
  /\ WF_vars(SchedulerStep)
  /\ WF_vars(ApplyThread)
  /\ WF_vars(DrainExpires)

FairSpec == Spec /\ Fairness
--------------------------------------------------------------------------------
Task == [lines : SUBSET Seqs, status : {"running", "done", "failed"}]
HeavyTasks == [lines : SUBSET Seqs, lane : Lanes, status : {"running", "done", "failed"}]

TableOf(tasks, Ids, Tasks) ==
  DOMAIN tasks \subseteq Ids /\ tasks \in [DOMAIN tasks -> Tasks]

TypeOK ==
  /\ kind \in [Seqs -> Kinds]
  /\ Coord!TypeOK
  /\ readerPc \in {"reading", "closing", "done"}
  /\ sent \in 0 .. Total /\ batchInHand \in 0 .. MaxBatch
  /\ readerFailed \in BOOLEAN
  /\ readQueue \in Seq(SUBSET Seqs) /\ Len(readQueue) <= IngestQueue
  /\ pc \in {"top", "pull", "collectFast", "head", "submit", "lanes",
             "collectHeavy", "left", "joining", "ended"}
  /\ TableOf(pendingFast, Seqs, Task) /\ TableOf(pendingHeavy, 1 .. Total, HeavyTasks)
  /\ TableOf(collecting, 0 .. Total, Task \cup HeavyTasks)
  /\ lanes \in [Lanes -> SUBSET Seqs]
  /\ {readerDone, drainMode, gap, stopRequested} \subseteq BOOLEAN
  /\ head \in 0 .. Total /\ lane \in 1 .. 3 /\ pass \in 1 .. 2
  /\ clock \in {"running", "limit", "drained"}
  /\ outcome \in {"running", "complete", "paused", "timed_out"}
  /\ lost \in SUBSET Seqs

QueuedLines == UNION {readQueue[i] : i \in DOMAIN readQueue}

(* A line the reader has handed over is at every moment in exactly one      *)
(* place: the queue, a task, a lane, delivered to the coordinator, or lost  *)
(* with a failed heavy task.  Popping a head or a batch out of a lane and   *)
(* then finding the table full, or a fallback beside the results of the     *)
(* failed task, would lose or double it.                                    *)
EachLineInOnePlace ==
  LET places == <<QueuedLines, LinesOf(pendingFast), LinesOf(collecting),
                  LaneLines, LinesOf(pendingHeavy), delivered, lost>>
  IN /\ UNION {places[i] : i \in 1 .. 7} = 0 .. sent - 1
     /\ \A i, j \in 1 .. 7 : i < j => places[i] \cap places[j] = {}

(* The scheduler thread gives each line to the coordinator once, and        *)
(* nothing after stop(): it is an environment ApplyCoordinator allows for.  *)
UsesCoordinatorAsSpecified == Coord!Spec

(* Backpressure bounds the reorder buffer although it is only tested before *)
(* work is submitted: what was in flight then may still arrive.             *)
ApplyBufferBounded ==
  Cardinality(lineResults)
    <= MaxCompleted - 1 + FastQueue * MaxBatch + CleanQueue * HeavyBatch

(* The same for the lanes, whose limit is tested before a pull only.        *)
LanesBounded == LaneTotal <= SurvivorCap - 1 + FastQueue * MaxBatch

(* A lane exceeds its limit of heavy tasks for one task at most, and only   *)
(* while that task is the head every other line waits for: the head is      *)
(* dispatched regardless of the limit, and the next head shows only when    *)
(* that one has been applied.                                               *)
SlotsExceededByHeadOnly ==
  \A l \in Lanes :
    PendingIn(l) > Max({1, SlotLimit[l]}) =>
      /\ PendingIn(l) = Max({1, SlotLimit[l]}) + 1
      /\ \E i \in DOMAIN pendingHeavy :
           pendingHeavy[i].lane = l /\ pendingHeavy[i].lines = {nextWriteSeq}

(* What "complete" means: unless the reader or the apply thread died, the   *)
(* output has every line before the first one lost with a heavy task, and   *)
(* every line at all if none was.                                           *)
CompleteUpToFirstLoss ==
  outcome = "complete" /\ ~readerFailed /\ applyPc = "done" =>
    Len(written) = Min(lost \cup {Total})

(* Completion claims of the README and the scheduler page, without the      *)
(* proviso: a run that reports completion has applied every line it read.   *)
CompleteMeansAllWritten == outcome = "complete" => Len(written) = Total

(* A stop or an expired time limit ends the run, whatever is blocked, has   *)
(* failed or is missing at that moment.                                     *)
AskedToEnd == (stopRequested \/ drainMode) ~> (pc = "ended")

NothingWentWrong ==
  lost = {} /\ ~readerFailed /\ applyPc # "dead" /\ ~StopEvent

\* No work is in flight, the apply thread waits for a line that is not in its
\* buffer, and backpressure keeps the scheduler from fetching it: the buffer
\* is full of later lines, or the lanes are over their limit.
Clogged ==
  /\ pendingFast = NoTasks /\ pendingHeavy = NoTasks /\ collecting = NoTasks
  /\ applyPc = "waiting" /\ Coord!OrderingGap
  /\ ~CanSubmit \/ LaneTotal > SurvivorCap

AllWritten == outcome = "complete" /\ Len(written) = Total

(* A run in which nothing goes wrong ends with every line written, and      *)
(* there is one way only in which it does not: the clog above.              *)
CompletesUnlessClogged == []NothingWentWrong => <>(AllWritten \/ Clogged)

(* "Out-of-order results ... are buffered and applied when their sequence   *)
(* number is reached" (scheduler.mdx), whatever the sizes of the buffers.   *)
Completes == []NothingWentWrong => <>AllWritten
================================================================================
