-------------------------- MODULE DocumentDedupProofs --------------------------
(***************************************************************************)
(* Proofs about the document hashes of the fast workers, for any documents, *)
(* tasks, workers, shards and faults, on threads or processes.              *)
(***************************************************************************)
EXTENDS DocumentDedup, FiniteSetTheorems, TLAPS

Statuses == {"queued", "running", "failed", "done"}
Labels == {"idle", "check"} \cup InLookup \cup InRegister

Typed ==
  /\ hash \in [Docs -> Nat] /\ hash \in Texts /\ earlier \in Earlier
  /\ backend \in {"thread", "multiprocess"}
  /\ table \in [ShardIds -> SUBSET Hashes]
  /\ seen \in [Agents -> SUBSET Hashes]
  /\ cached \in [Agents -> [Hashes -> {"unknown", "absent", "present"}]]
  /\ staged \in [Agents -> [ShardIds -> Seq(Hashes)]]
  /\ cursor \in [Agents -> [ShardIds -> [hash : SUBSET Hashes, row : BOOLEAN]]]
  /\ pc \in [Agents -> Labels]
  /\ task \in [Agents -> Nat] /\ at \in [Agents -> Nat]
  /\ taken \in [Agents -> SUBSET Hashes] /\ passed \in [Agents -> SUBSET Docs]
  /\ batch \in [DOMAIN Batches -> Statuses]
  /\ admitted \subseteq Docs /\ applied \in Nat

\* A thread that has a task has it for itself, and is at one of its documents.
AtWork(w) == pc[w] # "idle"

OwnTasks ==
  /\ \A w \in Agents : AtWork(w) =>
       /\ task[w] \in DOMAIN Batches /\ batch[task[w]] = "running"
       /\ at[w] \in DOMAIN Batches[task[w]]
       /\ passed[w] \subseteq ToSet(Batches[task[w]])
  /\ \A v, w \in Agents : v # w /\ AtWork(v) /\ AtWork(w) => task[v] # task[w]

\* What is pending is in its shard, and is written by whoever took it.  A
\* process that has ended has nothing pending.
InItsShard ==
  /\ \A p \in Agents, s \in ShardIds :
       /\ \A h \in ToSet(staged[p][s]) : ShardOf(h) = s
       /\ p \notin open => staged[p][s] = <<>>
  /\ \A w \in Agents : \A h \in taken[w] :
       pc[w] = "write" /\ ShardOf(h) = Shard(w)
  /\ open \subseteq Processes
  /\ open # Processes => AllDone

\* The document is let through, or will be when its task is done.  One that is
\* registered is let through as soon as its hash is pending.
LetThrough(d) ==
  \/ d \in admitted
  \/ \E w \in Agents : AtWork(w) /\ d \in passed[w]
  \/ \E w \in Agents : pc[w] \in {"flush", "write"} /\ d = Doc(w)

\* The document has been looked up, and perhaps registered.
Examined(d) ==
  \/ \E i \in DOMAIN Batches : batch[i] = "done" /\ d \in ToSet(Batches[i])
  \/ \E w \in Agents : AtWork(w) /\ \E k \in 1 .. at[w] - 1 : d = Batches[task[w]][k]

\* The hash is that of a document that is let through, or in one of the histories.
Backed(h) ==
  \/ h \in earlier \cup abandoned \cup mixed
  \/ \E d \in Docs : LetThrough(d) /\ hash[d] = h

Known(h) ==
  \/ \E p \in Agents : h \in seen[p] \/ cached[p][h] = "present" \/ h \in taken[p]
  \/ \E s \in ShardIds : h \in table[s]
  \/ \E p \in Agents, s \in ShardIds :
       \/ h \in ToSet(staged[p][s])
       \/ h \in cursor[p][s].hash /\ cursor[p][s].row

AllBacked ==
  /\ \A h \in Hashes : Known(h) => Backed(h)
  /\ \A d \in Docs : Examined(d) => Backed(hash[d])

AppliedInOutput ==
  \A d \in Docs : d <= applied =>
    /\ batch[BatchOf(d)] = "done"
    /\ d \in admitted => hash[d] \in rows \cup earlier

\* The hash is in the database, or on its way.
Stored(h) ==
  \/ h \in table[ShardOf(h)]
  \/ \E p \in Agents : h \in ToSet(staged[p][ShardOf(h)])
  \/ \E w \in Agents : h \in taken[w]

ThroughIsStored ==
  \A d \in Docs : LetThrough(d) => hash[d] \in lost \/ Stored(hash[d])

Explained == lost \cup overlapped \cup mixed

\* w has found, or is about to find, that the hash of its document is new.
New(w) ==
  \/ pc[w] = "register"
  \/ pc[w] = "fetch" /\ cursor[Home(w)][Shard(w)] = [hash |-> {Hash(w)}, row |-> FALSE]

\* Only while a thread of the process is about to register it is a hash known to
\* be absent.
AbsentIsRegistered ==
  \A p \in Agents, h \in Hashes : cached[p][h] = "absent" =>
    \E w \in Agents : pc[w] = "register" /\ Hash(w) = h /\ Home(w) = p

Executed == {"fetch"} \cup InRegister

\* Two threads at one hash have been noticed.
AloneWithHash ==
  \A v, w \in Agents :
    v # w /\ pc[v] \in Executed /\ pc[w] \in Executed /\ Hash(v) = Hash(w)
    => Hash(w) \in Explained

\* What looks new is new.
NewIsNew ==
  \A w \in Agents : New(w) =>
    \/ Hash(w) \in Explained
    \/ ~Stored(Hash(w)) /\ \A d \in Docs : LetThrough(d) => hash[d] # Hash(w)

OnceThrough ==
  \A d, e \in Docs : d # e /\ LetThrough(d) /\ LetThrough(e) /\ hash[d] = hash[e]
    => hash[d] \in Explained

Kept == {h \in earlier : ShardOf(h) = h % OldShards}

EarlierIsKnown ==
  /\ \A h \in Kept : h \in table[ShardOf(h)]
  /\ \A p \in Agents, s \in ShardIds, h \in Kept :
       cursor[p][s].hash = {h} => cursor[p][s].row
  /\ \A w \in Agents : pc[w] \in InRegister /\ Hash(w) \in Kept => Hash(w) \in mixed
  /\ \A d \in Docs : LetThrough(d) /\ hash[d] \in Kept => hash[d] \in mixed

--------------------------------------------------------------------------------
(***************************************************************************)
(* What the assumptions say.                                                *)
(***************************************************************************)
LEMMA Ground ==
  /\ Main \in Agents
  /\ \A t \in Texts : t \in [Docs -> Nat] /\ \A d \in Docs : t[d] \in Hashes
  /\ \A e \in Earlier : e \subseteq Hashes
  /\ Hashes \subseteq Nat
  /\ \A h \in Nat : ShardOf(h) \in ShardIds
  /\ Shards \in Nat \ {0} /\ BatchSize \in Nat \ {0} /\ MaxFaults \in Nat
<1>1. Main \in Agents
  BY DEF Agents
<1>2. ASSUME NEW t \in Texts
      PROVE  t \in [Docs -> Nat] /\ \A d \in Docs : t[d] \in Hashes
  <2>1. t \in [Docs -> Nat]
    BY DedupAssumption
  <2>2. \A d \in Docs : t[d] \in ToSet(t)
    BY <2>1 DEF ToSet
  <2>3. QED  BY <2>1, <2>2 DEF Hashes
<1>3. \A e \in Earlier : e \subseteq Hashes
  BY DEF Hashes
<1>4. Hashes \subseteq Nat
  <2>1. ASSUME NEW t \in Texts PROVE ToSet(t) \subseteq Nat
    BY <1>2 DEF ToSet
  <2>2. \A e \in Earlier : e \subseteq Nat
    BY DedupAssumption
  <2>3. QED  BY <2>1, <2>2 DEF Hashes
<1>5. Shards \in Nat \ {0} /\ BatchSize \in Nat \ {0} /\ MaxFaults \in Nat
  BY DedupAssumption
<1>6. \A h \in Nat : ShardOf(h) \in ShardIds
  BY <1>5 DEF ShardOf, ShardIds
<1>7. QED  BY <1>1, <1>2, <1>3, <1>4, <1>5, <1>6

LEMMA Tasks ==
  ASSUME NEW i \in DOMAIN Batches
  PROVE  /\ Batches[i] \in Seq(Nat) /\ Len(Batches[i]) \in Nat \ {0}
         /\ DOMAIN Batches[i] = 1 .. Len(Batches[i])
         /\ ToSet(Batches[i]) \subseteq Docs
         /\ \A k \in DOMAIN Batches[i] : Batches[i][k] \in ToSet(Batches[i])
<1>1. Batches \in Seq(Seq(Nat) \ {<<>>})
  BY BatchesAssumption
<1>2. Batches[i] \in Seq(Nat) \ {<<>>}
  BY <1>1
<1>3. Len(Batches[i]) \in Nat \ {0} /\ DOMAIN Batches[i] = 1 .. Len(Batches[i])
  BY <1>2
<1>4. Batches[i] \in ToSet(Batches)
  BY DEF ToSet
<1>5. ToSet(Batches[i]) \subseteq Docs
  BY <1>4 DEF Docs
<1>6. QED  BY <1>2, <1>3, <1>5 DEF ToSet

LEMMA BatchOfDoc ==
  ASSUME NEW d \in Docs
  PROVE  /\ BatchOf(d) \in DOMAIN Batches /\ d \in ToSet(Batches[BatchOf(d)])
         /\ \A i \in DOMAIN Batches : d \in ToSet(Batches[i]) => i = BatchOf(d)
<1>1. \E i \in DOMAIN Batches : d \in ToSet(Batches[i])
  <2>1. PICK b \in ToSet(Batches) : d \in ToSet(b)
    BY DEF Docs
  <2>2. PICK i \in DOMAIN Batches : b = Batches[i]
    BY DEF ToSet
  <2>3. QED  BY <2>1, <2>2
<1>2. BatchOf(d) \in DOMAIN Batches /\ d \in ToSet(Batches[BatchOf(d)])
  BY <1>1 DEF BatchOf
<1>3. QED  BY <1>2, BatchesAssumption

\* A thread with a task is at a document, whose hash has a shard.
LEMMA AtDocument ==
  ASSUME Typed, OwnTasks, NEW w \in Agents, AtWork(w)
  PROVE  /\ Doc(w) \in Docs /\ Doc(w) \in ToSet(Batches[task[w]])
         /\ Hash(w) \in Hashes /\ Shard(w) \in ShardIds
         /\ Home(w) \in Agents
<1>1. task[w] \in DOMAIN Batches /\ at[w] \in DOMAIN Batches[task[w]]
  BY DEF OwnTasks
<1>2. Doc(w) \in ToSet(Batches[task[w]]) /\ Doc(w) \in Docs
  BY <1>1, Tasks DEF Doc
<1>3. Hash(w) \in Hashes /\ Hash(w) \in Nat
  BY <1>2, Ground DEF Typed, Hash
<1>4. Shard(w) \in ShardIds
  BY <1>3, Ground DEF Shard
<1>5. Home(w) \in Agents
  BY Ground DEF Home
<1>6. QED  BY <1>2, <1>3, <1>4, <1>5
--------------------------------------------------------------------------------
(***************************************************************************)
(* Threads and their tasks.                                                 *)
(***************************************************************************)
\* Only w has moved, from one step of its task to another.
Others(w) == \A v \in Agents \ {w} :
  pc'[v] = pc[v] /\ at'[v] = at[v] /\ task'[v] = task[v] /\ passed'[v] = passed[v]

Threads ==
  /\ pc \in [Agents -> Labels]
  /\ task \in [Agents -> Nat] /\ at \in [Agents -> Nat]
  /\ passed \in [Agents -> SUBSET Docs]
  /\ batch \in [DOMAIN Batches -> Statuses] /\ admitted \subseteq Docs

\* A document is decided: the task goes on, or its documents are collected.
LEMMA DecidedThreads ==
  ASSUME Typed, OwnTasks, NEW w \in Agents, AtWork(w), NEW through \in BOOLEAN,
         Decided(w, through)
  PROVE  Threads' /\ OwnTasks' /\ Others(w) /\ pc'[w] \in {"idle", "check"}
<1> DEFINE all == passed[w] \cup (IF through THEN {Doc(w)} ELSE {})
<1>1. /\ task[w] \in DOMAIN Batches /\ batch[task[w]] = "running"
      /\ all \subseteq ToSet(Batches[task[w]]) /\ all \subseteq Docs
  BY AtDocument, Tasks DEF OwnTasks
<1>2. /\ DOMAIN Batches[task[w]] = 1 .. Len(Batches[task[w]])
      /\ Len(Batches[task[w]]) \in Nat
      /\ at[w] \in DOMAIN Batches[task[w]] /\ at[w] \in Nat
  BY Tasks DEF OwnTasks, Typed
<1>3. passed' = [passed EXCEPT ![w] = all] /\ task' = task
  BY DEF Decided
<1> HIDE DEF all
<1>4. CASE at[w] < Len(Batches[task[w]])
  <2>1. /\ at' = [at EXCEPT ![w] = @ + 1] /\ pc' = [pc EXCEPT ![w] = "check"]
        /\ batch' = batch /\ admitted' = admitted
    BY <1>4 DEF Decided
  <2>2. at'[w] \in DOMAIN Batches[task[w]]
    BY <1>2, <1>4, <2>1 DEF Typed
  <2>3. Threads' /\ Others(w) /\ pc'[w] \in {"idle", "check"}
    BY <1>1, <1>2, <1>3, <2>1 DEF Threads, Typed, Others, Labels
  <2>4. OwnTasks'
    BY <1>1, <1>3, <2>1, <2>2 DEF OwnTasks, Typed, AtWork
  <2>5. QED  BY <2>3, <2>4
<1>5. CASE ~(at[w] < Len(Batches[task[w]]))
  <2>1. /\ at' = at /\ pc' = [pc EXCEPT ![w] = "idle"]
        /\ batch' = [batch EXCEPT ![task[w]] = "done"]
        /\ admitted' = admitted \cup all
    BY <1>5 DEF Decided, all
  <2>2. Threads' /\ Others(w) /\ pc'[w] \in {"idle", "check"}
    BY <1>1, <1>2, <1>3, <2>1 DEF Threads, Typed, Others, Labels, Statuses
  <2>3. OwnTasks'
    BY <1>1, <1>3, <2>1 DEF OwnTasks, Typed, AtWork
  <2>4. QED  BY <2>2, <2>3
<1>6. QED  BY <1>4, <1>5

LEMMA FailThreads ==
  ASSUME Typed, OwnTasks, NEW w \in Agents, AtWork(w), NEW registered,
         Fail(w, registered)
  PROVE  /\ Threads' /\ OwnTasks' /\ Others(w)
         /\ pc' = [pc EXCEPT ![w] = "idle"] /\ admitted' = admitted
         /\ task' = task /\ at' = at /\ passed' = passed
<1>1. task[w] \in DOMAIN Batches /\ batch[task[w]] = "running"
  BY DEF OwnTasks
<1>2. /\ batch' = [batch EXCEPT ![task[w]] = "failed"]
      /\ pc' = [pc EXCEPT ![w] = "idle"]
      /\ task' = task /\ at' = at /\ passed' = passed /\ admitted' = admitted
  BY DEF Fail
<1>3. Threads' /\ Others(w)
  BY <1>1, <1>2 DEF Threads, Typed, Others, Labels, Statuses
<1>4. OwnTasks'
  BY <1>1, <1>2 DEF OwnTasks, Typed, AtWork
<1>5. QED  BY <1>2, <1>3, <1>4

LEMMA TakeThreads ==
  ASSUME Typed, OwnTasks, NEW w \in Agents, TakeBatch(w)
  PROVE  Threads' /\ OwnTasks' /\ Others(w) /\ pc'[w] = "check" /\ at'[w] = 1
<1>1. PICK i \in DOMAIN Batches :
        /\ batch[i] = IF w = Main THEN "failed" ELSE "queued"
        /\ task' = [task EXCEPT ![w] = i] /\ batch' = [batch EXCEPT ![i] = "running"]
  BY DEF TakeBatch
<1>2. /\ at' = [at EXCEPT ![w] = 1] /\ pc' = [pc EXCEPT ![w] = "check"]
      /\ passed' = [passed EXCEPT ![w] = {}] /\ admitted' = admitted /\ pc[w] = "idle"
  BY DEF TakeBatch
<1>3. i \in Nat /\ 1 \in DOMAIN Batches[i] /\ batch[i] # "running"
  <2>1. i \in Nat
    BY BatchesAssumption
  <2>2. QED  BY <1>1, <2>1, Tasks
<1>4. Threads' /\ Others(w) /\ pc'[w] = "check" /\ at'[w] = 1
  BY <1>1, <1>2, <1>3 DEF Threads, Typed, Others, Labels, Statuses
<1>5. OwnTasks'
  BY <1>1, <1>2, <1>3 DEF OwnTasks, Typed, AtWork
<1>6. QED  BY <1>4, <1>5

\* A step within the decision of a document.
LEMMA MoveThreads ==
  ASSUME Typed, OwnTasks, NEW w \in Agents, AtWork(w), NEW label \in Labels \ {"idle"},
         pc' = [pc EXCEPT ![w] = label],
         UNCHANGED <<task, at, passed, batch, admitted>>
  PROVE  Threads' /\ OwnTasks' /\ Others(w) /\ pc'[w] = label
<1>1. Threads' /\ Others(w) /\ pc'[w] = label
  BY DEF Threads, Typed, Others
<1>2. OwnTasks'
  BY DEF OwnTasks, AtWork, Typed
<1>3. QED  BY <1>1, <1>2
--------------------------------------------------------------------------------
(***************************************************************************)
(* Types.                                                                   *)
(***************************************************************************)
LEMMA TypedInit == Init => Typed /\ OwnTasks
<1> SUFFICES ASSUME Init PROVE Typed /\ OwnTasks
  OBVIOUS
<1>1. /\ hash \in [Docs -> Nat] /\ hash \in Texts /\ earlier \in Earlier
      /\ earlier \subseteq Hashes /\ backend \in {"thread", "multiprocess"}
  BY Ground DEF Init
<1>2. /\ table \in [ShardIds -> SUBSET Hashes] /\ seen \in [Agents -> SUBSET Hashes]
      /\ cached \in [Agents -> [Hashes -> {"unknown", "absent", "present"}]]
      /\ taken \in [Agents -> SUBSET Hashes] /\ passed \in [Agents -> SUBSET Docs]
  BY <1>1 DEF Init
<1>3. staged \in [Agents -> [ShardIds -> Seq(Hashes)]]
  BY DEF Init
<1>4. cursor \in [Agents -> [ShardIds -> [hash : SUBSET Hashes, row : BOOLEAN]]]
  BY DEF Init, Nothing
<1>5. /\ pc \in [Agents -> Labels] /\ task \in [Agents -> Nat] /\ at \in [Agents -> Nat]
      /\ batch \in [DOMAIN Batches -> Statuses]
      /\ admitted \subseteq Docs /\ applied \in Nat
  BY DEF Init, Labels, Statuses
<1>6. OwnTasks
  BY DEF Init, OwnTasks, AtWork
<1>7. QED  BY <1>1, <1>2, <1>3, <1>4, <1>5, <1>6 DEF Typed

\* What a lookup or a registration does to the index keeps its types.
IndexTyped ==
  /\ table \in [ShardIds -> SUBSET Hashes]
  /\ seen \in [Agents -> SUBSET Hashes]
  /\ cached \in [Agents -> [Hashes -> {"unknown", "absent", "present"}]]
  /\ staged \in [Agents -> [ShardIds -> Seq(Hashes)]]
  /\ cursor \in [Agents -> [ShardIds -> [hash : SUBSET Hashes, row : BOOLEAN]]]
  /\ taken \in [Agents -> SUBSET Hashes]

LEMMA TypedFrom ==
  ASSUME Typed, IndexTyped', Threads', UNCHANGED <<hash, backend, earlier, applied>>
  PROVE  Typed'
BY DEF Typed, IndexTyped, Threads

LEMMA TypedIndex ==
  ASSUME Typed, OwnTasks, NEW w \in Agents,
         \/ CheckKnown(w) \/ CheckUnknown(w) \/ Execute(w) \/ Fetch(w)
         \/ Register(w) \/ Flush(w) \/ Write(w) \/ WriteFails(w)
  PROVE  IndexTyped'
<1>1. AtWork(w)
  BY DEF AtWork, CheckKnown, CheckUnknown, Execute, Fetch, Register, Flush, Write,
         WriteFails
<1>2. /\ Hash(w) \in Hashes /\ Shard(w) \in ShardIds /\ Home(w) \in Agents
  BY <1>1, AtDocument
<1> USE <1>2 DEF Typed, IndexTyped
<1> DEFINE more == [seen EXCEPT ![Home(w)] = @ \cup {Hash(w)}]
<1>12. more \in [Agents -> SUBSET Hashes] /\ seen \in [Agents -> SUBSET Hashes]
  OBVIOUS
<1> HIDE DEF more
<1>3. CASE CheckKnown(w)
  BY <1>3 DEF CheckKnown, AddSeen
<1>4. CASE CheckUnknown(w)
  BY <1>4 DEF CheckUnknown, indexVars
<1>5. CASE Execute(w)
  <2>1. cursor' = [cursor EXCEPT ![Home(w)][Shard(w)] =
          [hash |-> {Hash(w)}, row |-> Hash(w) \in table[Shard(w)]]]
    BY <1>5 DEF Execute
  <2>2. [hash |-> {Hash(w)}, row |-> Hash(w) \in table[Shard(w)]]
          \in [hash : SUBSET Hashes, row : BOOLEAN]
    OBVIOUS
  <2>3. cursor' \in [Agents -> [ShardIds -> [hash : SUBSET Hashes, row : BOOLEAN]]]
    BY <2>1, <2>2
  <2>4. QED  BY <1>5, <2>3 DEF Execute
<1>6. CASE Fetch(w)
  <2>1. /\ cursor' = [cursor EXCEPT ![Home(w)][Shard(w)] = Nothing]
        /\ Nothing \in [hash : SUBSET Hashes, row : BOOLEAN]
    BY <1>6 DEF Fetch, Nothing
  <2>2. cursor' \in [Agents -> [ShardIds -> [hash : SUBSET Hashes, row : BOOLEAN]]]
    BY <2>1
  <2>3. \E v \in {"absent", "present"} : cached' = [cached EXCEPT ![Home(w)][Hash(w)] = v]
    BY <1>6 DEF Fetch
  <2>4. cached' \in [Agents -> [Hashes -> {"unknown", "absent", "present"}]]
    BY <2>3
  <2>5. seen' \in {seen, more}
    BY <1>6 DEF Fetch, AddSeen, more
  <2>6. seen' \in [Agents -> SUBSET Hashes]
    BY <1>12, <2>5
  <2>7. table' = table /\ staged' = staged /\ taken' = taken
    BY <1>6 DEF Fetch
  <2>8. QED  BY <2>2, <2>4, <2>6, <2>7
<1>7. CASE Register(w)
  <2>1. staged' = [staged EXCEPT ![Home(w)][Shard(w)] =
                     Append(staged[Home(w)][Shard(w)], Hash(w))]
    BY <1>7 DEF Register
  <2>2. Append(staged[Home(w)][Shard(w)], Hash(w)) \in Seq(Hashes)
    OBVIOUS
  <2>3. staged' \in [Agents -> [ShardIds -> Seq(Hashes)]]
    BY <2>1, <2>2
  <2>4. cached' = [cached EXCEPT ![Home(w)][Hash(w)] = "present"]
    BY <1>7 DEF Register
  <2>5. cached' \in [Agents -> [Hashes -> {"unknown", "absent", "present"}]]
    BY <2>4
  <2>6. seen' \in {seen, more}
    BY <1>7 DEF Register, AddSeen, more
  <2>7. seen' \in [Agents -> SUBSET Hashes]
    BY <1>12, <2>6
  <2>8. table' = table /\ cursor' = cursor /\ taken' = taken
    BY <1>7 DEF Register
  <2>9. QED  BY <2>3, <2>5, <2>7, <2>8
<1>8. CASE Flush(w)
  <2>1. ToSet(staged[Home(w)][Shard(w)]) \subseteq Hashes
    BY DEF ToSet
  <2>2. taken' \in [Agents -> SUBSET Hashes]
    BY <1>8, <2>1 DEF Flush
  <2>3. staged' = [staged EXCEPT ![Home(w)][Shard(w)] = <<>>] /\ <<>> \in Seq(Hashes)
    BY <1>8 DEF Flush
  <2>4. staged' \in [Agents -> [ShardIds -> Seq(Hashes)]]
    BY <2>3
  <2>5. QED  BY <1>8, <2>2, <2>4 DEF Flush
<1>9. CASE Write(w)
  BY <1>9 DEF Write, AddSeen
<1>10. CASE WriteFails(w)
  BY <1>10 DEF WriteFails, indexVars
<1>11. QED  BY <1>3, <1>4, <1>5, <1>6, <1>7, <1>8, <1>9, <1>10

\* Threads, whatever w does.
LEMMA StepThreads ==
  ASSUME Typed, OwnTasks, NEW w \in Agents, Step(w)
  PROVE  Threads' /\ OwnTasks' /\ Others(w)
<1>1. CASE TakeBatch(w)
  BY <1>1, TakeThreads
<1>2. CASE Raise(w)
  BY <1>2, FailThreads DEF Raise, AtWork
<1>3. CASE CheckKnown(w)
  BY <1>3, DecidedThreads DEF CheckKnown, AtWork
<1>4. CASE CheckUnknown(w)
  <2>1. \E label \in {"execute", "register"} : pc' = [pc EXCEPT ![w] = label]
    BY <1>4 DEF CheckUnknown
  <2>2. AtWork(w) /\ UNCHANGED <<task, at, passed, batch, admitted>>
    BY <1>4 DEF CheckUnknown, AtWork, mergeVars
  <2>3. QED  BY <2>1, <2>2, MoveThreads DEF Labels, InLookup, InRegister
<1>5. CASE Execute(w)
  BY <1>5, MoveThreads DEF Execute, AtWork, mergeVars, Labels, InLookup
<1>6. CASE Fetch(w)
  <2>1. AtWork(w)
    BY <1>6 DEF Fetch, AtWork
  <2>2. CASE Decided(w, FALSE)
    BY <2>1, <2>2, DecidedThreads
  <2>3. CASE pc' = [pc EXCEPT ![w] = "register"]
             /\ UNCHANGED <<task, at, passed, batch, admitted>>
    BY <2>1, <2>3, MoveThreads DEF Labels, InRegister
  <2>4. QED  BY <1>6, <2>2, <2>3 DEF Fetch
<1>7. CASE Register(w)
  <2>1. AtWork(w)
    BY <1>7 DEF Register, AtWork
  <2>2. CASE Decided(w, TRUE)
    BY <2>1, <2>2, DecidedThreads
  <2>3. CASE pc' = [pc EXCEPT ![w] = "flush"]
             /\ UNCHANGED <<task, at, passed, batch, admitted>>
    BY <2>1, <2>3, MoveThreads DEF Labels, InRegister
  <2>4. QED  BY <1>7, <2>2, <2>3 DEF Register
<1>8. CASE Flush(w)
  BY <1>8, MoveThreads DEF Flush, AtWork, mergeVars, Labels, InRegister
<1>9. CASE Write(w)
  BY <1>9, DecidedThreads DEF Write, AtWork
<1>10. CASE WriteFails(w)
  BY <1>10, FailThreads DEF WriteFails, AtWork
<1>11. QED
  BY <1>1, <1>2, <1>3, <1>4, <1>5, <1>6, <1>7, <1>8, <1>9, <1>10 DEF Step

LEMMA TypedStep == Typed /\ OwnTasks /\ [Next]_vars => Typed' /\ OwnTasks'
<1> SUFFICES ASSUME Typed, OwnTasks, [Next]_vars PROVE Typed' /\ OwnTasks'
  OBVIOUS
<1>1. ASSUME NEW w \in Agents, Step(w) PROVE Typed' /\ OwnTasks'
  <2>1. Threads' /\ OwnTasks'
    BY <1>1, StepThreads
  <2>2. IndexTyped'
    <3>1. CASE TakeBatch(w) \/ Raise(w)
      BY <3>1 DEF TakeBatch, Raise, indexVars, Typed, IndexTyped
    <3>2. QED  BY <1>1, <3>1, TypedIndex DEF Step
  <2>3. UNCHANGED <<hash, backend, earlier, applied>>
    BY <1>1 DEF Step, TakeBatch, Raise, CheckKnown, CheckUnknown, Execute, Fetch,
                Register, Flush, Write, WriteFails, mergeVars
  <2>4. QED  BY <2>1, <2>2, <2>3, TypedFrom
<1>2. ASSUME ApplyDoc PROVE Typed' /\ OwnTasks'
  BY <1>2 DEF ApplyDoc, indexVars, threadVars, Typed, OwnTasks, AtWork
<1>3. ASSUME NEW p \in Processes, Shutdown(p) PROVE Typed' /\ OwnTasks'
  <2>1. p \in Agents
    BY Ground DEF Processes, Home
  <2>2. PICK n \in 0 .. Shards :
          table' = [s \in ShardIds |-> IF s < n THEN table[s] \cup ToSet(staged[p][s])
                                       ELSE table[s]]
    BY <1>3 DEF Shutdown
  <2>3. \A s \in ShardIds : ToSet(staged[p][s]) \subseteq Hashes
    BY <2>1 DEF Typed, ToSet
  <2>4. table' \in [ShardIds -> SUBSET Hashes]
    BY <2>2, <2>3 DEF Typed
  <2>5. staged' = [staged EXCEPT ![p] = [s \in ShardIds |-> <<>>]]
    BY <1>3 DEF Shutdown
  <2>6. [s \in ShardIds |-> <<>>] \in [ShardIds -> Seq(Hashes)]
    OBVIOUS
  <2>7. staged' \in [Agents -> [ShardIds -> Seq(Hashes)]]
    BY <2>5, <2>6 DEF Typed
  <2>8. UNCHANGED <<hash, backend, earlier, seen, cached, cursor, threadVars, batch,
                    admitted, applied>>
    BY <1>3 DEF Shutdown
  <2>9. QED  BY <2>4, <2>7, <2>8 DEF Typed, OwnTasks, AtWork, threadVars
<1>4. CASE UNCHANGED vars
  BY <1>4 DEF vars, indexVars, threadVars, mergeVars, Typed, OwnTasks, AtWork
<1>5. QED  BY <1>1, <1>2, <1>3, <1>4 DEF Next
--------------------------------------------------------------------------------
(***************************************************************************)
(* Which documents a step lets through.                                     *)
(***************************************************************************)
LEMMA OthersSame ==
  ASSUME NEW w, Others(w), hash' = hash, NEW v \in Agents, v # w
  PROVE  /\ pc'[v] = pc[v] /\ passed'[v] = passed[v] /\ (AtWork(v))' = AtWork(v)
         /\ (Doc(v))' = Doc(v) /\ (Hash(v))' = Hash(v) /\ (Shard(v))' = Shard(v)
         /\ at'[v] = at[v] /\ task'[v] = task[v]
BY DEF Others, AtWork, Doc, Hash, Shard, ShardOf

LEMMA DecidedEffect ==
  ASSUME Typed, OwnTasks, NEW w \in Agents, AtWork(w), NEW through \in BOOLEAN,
         Decided(w, through), hash' = hash,
         pc[w] \in {"flush", "write"} => through, NEW d \in Docs
  PROVE  /\ (LetThrough(d))' <=> LetThrough(d) \/ (through /\ d = Doc(w))
         /\ (Examined(d))' => Examined(d) \/ d = Doc(w)
<1> DEFINE all == passed[w] \cup (IF through THEN {Doc(w)} ELSE {})
<1>1. /\ Others(w) /\ pc'[w] \in {"idle", "check"}
      /\ task' = task /\ passed' = [passed EXCEPT ![w] = all]
      /\ passed'[w] = all
  BY DecidedThreads DEF Decided, Typed
<1>2. \A v \in Agents \ {w} :
        /\ pc'[v] = pc[v] /\ passed'[v] = passed[v] /\ (AtWork(v))' = AtWork(v)
        /\ (Doc(v))' = Doc(v) /\ at'[v] = at[v]
  BY <1>1, OthersSame
<1>3. d \in all <=> d \in passed[w] \/ (through /\ d = Doc(w))
  OBVIOUS
<1>4. /\ task[w] \in DOMAIN Batches
      /\ DOMAIN Batches[task[w]] = 1 .. Len(Batches[task[w]])
      /\ at[w] \in DOMAIN Batches[task[w]] /\ at[w] \in Nat
      /\ Len(Batches[task[w]]) \in Nat
  BY Tasks DEF OwnTasks, Typed
<1> HIDE DEF all
<1>5. CASE at[w] < Len(Batches[task[w]])
  <2>1. /\ at'[w] = at[w] + 1 /\ pc'[w] = "check"
        /\ batch' = batch /\ admitted' = admitted
    BY <1>5 DEF Decided, Typed
  <2>2. (LetThrough(d))' <=> LetThrough(d) \/ (through /\ d = Doc(w))
    BY <1>1, <1>2, <1>3, <2>1 DEF LetThrough, AtWork
  <2>3. \A k \in 1 .. at'[w] - 1 : k \in 1 .. at[w] - 1 \/ k = at[w]
    BY <1>4, <2>1
  <2>4. ASSUME (Examined(d))' PROVE Examined(d) \/ d = Doc(w)
    <3>1. CASE \E i \in DOMAIN Batches : batch'[i] = "done" /\ d \in ToSet(Batches[i])
      BY <2>1, <3>1 DEF Examined
    <3>2. ASSUME NEW v \in Agents, (AtWork(v))', NEW k \in 1 .. at'[v] - 1,
                 d = Batches[task'[v]][k]
          PROVE  Examined(d) \/ d = Doc(w)
      <4>1. CASE v = w
        BY <1>1, <2>3, <3>2, <4>1 DEF Examined, Doc
      <4>2. CASE v # w
        BY <1>1, <1>2, <3>2, <4>2 DEF Examined
      <4>3. QED  BY <4>1, <4>2
    <3>3. QED  BY <2>4, <3>1, <3>2 DEF Examined
  <2>5. QED  BY <2>2, <2>4
<1>6. CASE ~(at[w] < Len(Batches[task[w]]))
  <2>1. /\ pc'[w] = "idle" /\ batch' = [batch EXCEPT ![task[w]] = "done"]
        /\ admitted' = admitted \cup all /\ at[w] = Len(Batches[task[w]])
    BY <1>4, <1>6 DEF Decided, Typed, all
  <2>2. (LetThrough(d))' <=> LetThrough(d) \/ (through /\ d = Doc(w))
    BY <1>1, <1>2, <1>3, <2>1 DEF LetThrough, AtWork
  <2>3. ASSUME (Examined(d))' PROVE Examined(d) \/ d = Doc(w)
    <3>1. ASSUME NEW i \in DOMAIN Batches, batch'[i] = "done", d \in ToSet(Batches[i])
          PROVE  Examined(d) \/ d = Doc(w)
      <4>1. CASE i # task[w]
        BY <2>1, <3>1, <4>1 DEF Examined, Typed
      <4>2. CASE i = task[w]
        <5>1. PICK k \in DOMAIN Batches[i] : d = Batches[i][k]
          BY <3>1 DEF ToSet
        <5>2. k \in 1 .. at[w] - 1 \/ k = at[w]
          BY <1>4, <2>1, <4>2, <5>1
        <5>3. QED  BY <4>2, <5>1, <5>2 DEF Examined, Doc
      <4>3. QED  BY <4>1, <4>2
    <3>2. ASSUME NEW v \in Agents, (AtWork(v))', NEW k \in 1 .. at'[v] - 1,
                 d = Batches[task'[v]][k]
          PROVE  Examined(d)
      <4>1. v # w
        BY <2>1, <3>2 DEF AtWork
      <4>2. QED  BY <1>1, <1>2, <3>2, <4>1 DEF Examined
    <3>3. QED  BY <2>3, <3>1, <3>2 DEF Examined
  <2>4. QED  BY <2>2, <2>3
<1>7. QED  BY <1>5, <1>6

LEMMA FailEffect ==
  ASSUME Typed, OwnTasks, NEW w \in Agents, AtWork(w), NEW registered,
         Fail(w, registered), hash' = hash, NEW d \in Docs
  PROVE  /\ (LetThrough(d))' => LetThrough(d)
         /\ LetThrough(d) => \/ (LetThrough(d))' \/ d \in passed[w]
                             \/ pc[w] \in {"flush", "write"} /\ d = Doc(w)
         /\ (Examined(d))' => Examined(d)
<1>1. /\ Others(w) /\ pc' = [pc EXCEPT ![w] = "idle"] /\ pc'[w] = "idle"
      /\ admitted' = admitted /\ task' = task /\ at' = at /\ passed' = passed
      /\ batch' = [batch EXCEPT ![task[w]] = "failed"]
  BY FailThreads DEF Fail, Typed
<1>2. \A v \in Agents \ {w} :
        pc'[v] = pc[v] /\ (AtWork(v))' = AtWork(v) /\ (Doc(v))' = Doc(v)
  BY <1>1, OthersSame
<1>3. /\ (LetThrough(d))' => LetThrough(d)
      /\ LetThrough(d) => \/ (LetThrough(d))' \/ d \in passed[w]
                          \/ pc[w] \in {"flush", "write"} /\ d = Doc(w)
  BY <1>1, <1>2 DEF LetThrough, AtWork
<1>4. ASSUME (Examined(d))' PROVE Examined(d)
  <2>1. \A i \in DOMAIN Batches : batch'[i] = "done" => batch[i] = "done"
    BY <1>1 DEF Typed
  <2>2. \A v \in Agents : (AtWork(v))' => AtWork(v)
    BY <1>1, <1>2
  <2>3. QED  BY <1>1, <1>4, <2>1, <2>2 DEF Examined
<1>5. QED  BY <1>3, <1>4

LEMMA TakeEffect ==
  ASSUME Typed, OwnTasks, NEW w \in Agents, TakeBatch(w), NEW d \in Docs
  PROVE  /\ (LetThrough(d))' <=> LetThrough(d)
         /\ (Examined(d))' => Examined(d)
<1>1. Others(w) /\ pc'[w] = "check" /\ at'[w] = 1 /\ hash' = hash
  BY TakeThreads DEF TakeBatch
<1>2. pc[w] = "idle" /\ passed'[w] = {} /\ admitted' = admitted
  BY DEF TakeBatch, Typed
<1>3. \A v \in Agents \ {w} :
        /\ pc'[v] = pc[v] /\ (AtWork(v))' = AtWork(v) /\ (Doc(v))' = Doc(v)
        /\ passed'[v] = passed[v] /\ at'[v] = at[v] /\ task'[v] = task[v]
  BY <1>1, OthersSame
<1>4. (LetThrough(d))' <=> LetThrough(d)
  BY <1>1, <1>2, <1>3 DEF LetThrough, AtWork
<1>5. ASSUME (Examined(d))' PROVE Examined(d)
  <2>1. \A i \in DOMAIN Batches : batch'[i] = "done" => batch[i] = "done"
    BY DEF TakeBatch, Typed
  <2>2. ~ \E k \in 1 .. at'[w] - 1 : TRUE
    BY <1>1
  <2>3. QED  BY <1>3, <1>5, <2>1, <2>2 DEF Examined
<1>6. QED  BY <1>4, <1>5

LEMMA MoveEffect ==
  ASSUME Typed, OwnTasks, NEW w \in Agents, AtWork(w), NEW label \in Labels \ {"idle"},
         pc' = [pc EXCEPT ![w] = label], hash' = hash,
         UNCHANGED <<task, at, passed, batch, admitted>>,
         pc[w] \in {"flush", "write"} => label \in {"flush", "write"}, NEW d \in Docs
  PROVE  /\ (LetThrough(d))' <=>
              LetThrough(d) \/ (label \in {"flush", "write"} /\ d = Doc(w))
         /\ (Examined(d))' <=> Examined(d)
<1>1. pc'[w] = label /\ \A v \in Agents \ {w} : pc'[v] = pc[v]
  BY DEF Typed
<1>2. \A v \in Agents : (Doc(v))' = Doc(v) /\ (AtWork(v))' = AtWork(v)
  BY <1>1 DEF Doc, AtWork
<1>3. QED  BY <1>1, <1>2 DEF LetThrough, Examined

\* Registering is what lets a document through, and only failure takes it back.
LEMMA StepEffect ==
  ASSUME Typed, OwnTasks, NEW w \in Agents, Step(w), NEW d \in Docs
  PROVE  /\ (LetThrough(d))' => LetThrough(d) \/ (Register(w) /\ d = Doc(w))
         /\ LetThrough(d) => (LetThrough(d))' \/ hash[d] \in abandoned'
         /\ Register(w) /\ d = Doc(w) => (LetThrough(d))'
         /\ (Examined(d))' => \/ Examined(d)
                              \/ d = Doc(w) /\ \/ CheckKnown(w) \/ Write(w)
                                               \/ Fetch(w) /\ Decided(w, FALSE)
                                               \/ Register(w)
<1>0. hash' = hash
  BY DEF Step, TakeBatch, Raise, CheckKnown, CheckUnknown, Execute, Fetch, Register,
         Flush, Write, WriteFails
<1>1. CASE TakeBatch(w)
  BY <1>1, TakeEffect DEF TakeBatch, Register
<1>2. CASE Raise(w)
  <2>1. AtWork(w) /\ Fail(w, {}) /\ pc[w] = "check"
    BY <1>2 DEF Raise, AtWork
  <2>2. d \in passed[w] => hash[d] \in abandoned'
    BY <2>1 DEF Fail
  <2>3. QED  BY <1>0, <2>1, <2>2, FailEffect DEF Register
<1>3. CASE CheckKnown(w)
  BY <1>0, <1>3, DecidedEffect DEF CheckKnown, AtWork, Register
<1>4. CASE CheckUnknown(w)
  <2>1. \E label \in {"execute", "register"} : pc' = [pc EXCEPT ![w] = label]
    BY <1>4 DEF CheckUnknown
  <2>2. AtWork(w) /\ UNCHANGED <<task, at, passed, batch, admitted>> /\ pc[w] = "check"
    BY <1>4 DEF CheckUnknown, AtWork, mergeVars
  <2>3. QED
    BY <1>0, <2>1, <2>2, MoveEffect DEF Labels, InLookup, InRegister, Register
<1>5. CASE Execute(w)
  BY <1>0, <1>5, MoveEffect
     DEF Execute, AtWork, mergeVars, Labels, InLookup, Register
<1>6. CASE Fetch(w)
  <2>1. AtWork(w) /\ pc[w] = "fetch"
    BY <1>6 DEF Fetch, AtWork
  <2>2. CASE Decided(w, FALSE)
    BY <1>0, <1>6, <2>1, <2>2, DecidedEffect DEF Register
  <2>3. CASE pc' = [pc EXCEPT ![w] = "register"]
             /\ UNCHANGED <<task, at, passed, batch, admitted>>
    BY <1>0, <2>1, <2>3, MoveEffect DEF Labels, InRegister, Register
  <2>4. QED  BY <1>6, <2>2, <2>3 DEF Fetch
<1>7. CASE Register(w)
  <2>1. AtWork(w) /\ pc[w] = "register"
    BY <1>7 DEF Register, AtWork
  <2>2. CASE Decided(w, TRUE)
    BY <1>0, <1>7, <2>1, <2>2, DecidedEffect
  <2>3. CASE pc' = [pc EXCEPT ![w] = "flush"]
             /\ UNCHANGED <<task, at, passed, batch, admitted>>
    BY <1>0, <1>7, <2>1, <2>3, MoveEffect DEF Labels, InRegister
  <2>4. QED  BY <1>7, <2>2, <2>3 DEF Register
<1>8. CASE Flush(w)
  <2>1. pc[w] = "flush" => (d = Doc(w) => LetThrough(d))
    BY DEF LetThrough
  <2>2. QED
    BY <1>0, <1>8, <2>1, MoveEffect
       DEF Flush, AtWork, mergeVars, Labels, InRegister, Register
<1>9. CASE Write(w)
  <2>1. pc[w] = "write" => (d = Doc(w) => LetThrough(d))
    BY DEF LetThrough
  <2>2. QED  BY <1>0, <1>9, <2>1, DecidedEffect DEF Write, AtWork, Register
<1>10. CASE WriteFails(w)
  <2>1. AtWork(w) /\ Fail(w, {Hash(w)}) /\ pc[w] = "write"
    BY <1>10 DEF WriteFails, AtWork
  <2>2. d \in passed[w] \/ d = Doc(w) => hash[d] \in abandoned'
    BY <2>1 DEF Fail, Hash
  <2>3. QED  BY <1>0, <2>1, <2>2, FailEffect DEF Register
<1>11. QED
  BY <1>1, <1>2, <1>3, <1>4, <1>5, <1>6, <1>7, <1>8, <1>9, <1>10 DEF Step
--------------------------------------------------------------------------------
(***************************************************************************)
(* What is pending.                                                         *)
(***************************************************************************)
\* As long as a thread moves, there is a task that is not done.
LEMMA StillOpen ==
  ASSUME Typed, OwnTasks, NEW w \in Agents, Step(w)
  PROVE  ~AllDone
<1>1. CASE TakeBatch(w)
  BY <1>1 DEF TakeBatch, AllDone
<1>2. CASE AtWork(w)
  BY <1>2 DEF OwnTasks, AllDone
<1>3. QED
  BY <1>1, <1>2 DEF Step, Raise, CheckKnown, CheckUnknown, Execute, Fetch, Register,
     Flush, Write, WriteFails, AtWork

LEMMA EmptySequence == ToSet(<<>>) = {}
BY DEF ToSet

LEMMA AppendToSet ==
  ASSUME NEW S, NEW s \in Seq(S), NEW e \in S
  PROVE  ToSet(Append(s, e)) = ToSet(s) \cup {e}
<1>1. /\ Len(s) \in Nat /\ DOMAIN s = 1 .. Len(s)
      /\ DOMAIN Append(s, e) = 1 .. Len(s) + 1
      /\ \A i \in 1 .. Len(s) : Append(s, e)[i] = s[i]
      /\ Append(s, e)[Len(s) + 1] = e
  OBVIOUS
<1>2. \A i \in 1 .. Len(s) + 1 : i \in 1 .. Len(s) \/ i = Len(s) + 1
  BY <1>1
<1>3. 1 .. Len(s) \subseteq 1 .. Len(s) + 1 /\ Len(s) + 1 \in 1 .. Len(s) + 1
  BY <1>1
<1>4. QED  BY <1>1, <1>2, <1>3 DEF ToSet

\* What is pending in process p and shard s after a step of w.
LEMMA StagedStep ==
  ASSUME Typed, OwnTasks, NEW w \in Agents, Step(w), NEW p \in Agents, NEW s \in ShardIds
  PROVE  \/ ToSet(staged'[p][s]) = ToSet(staged[p][s]) /\ staged'[p][s] = staged[p][s]
         \/ /\ Register(w) /\ p = Home(w) /\ s = Shard(w)
            /\ ToSet(staged'[p][s]) = ToSet(staged[p][s]) \cup {Hash(w)}
         \/ Flush(w) /\ p = Home(w) /\ s = Shard(w) /\ staged'[p][s] = <<>>
<1>1. CASE Register(w)
  <2>1. AtWork(w)
    BY <1>1 DEF Register, AtWork
  <2>2. /\ Home(w) \in Agents /\ Shard(w) \in ShardIds /\ Hash(w) \in Hashes
    BY <2>1, AtDocument
  <2>3. staged' = [staged EXCEPT ![Home(w)][Shard(w)] =
                     Append(staged[Home(w)][Shard(w)], Hash(w))]
    BY <1>1 DEF Register
  <2>4. ToSet(Append(staged[Home(w)][Shard(w)], Hash(w)))
          = ToSet(staged[Home(w)][Shard(w)]) \cup {Hash(w)}
    BY <2>2, AppendToSet DEF Typed
  <2>5. QED  BY <1>1, <2>2, <2>3, <2>4 DEF Typed
<1>2. CASE Flush(w)
  BY <1>2 DEF Flush, Typed
<1>3. CASE ~Register(w) /\ ~Flush(w)
  <2>1. staged' = staged
    BY <1>3 DEF Step, TakeBatch, Raise, CheckKnown, CheckUnknown, Execute, Fetch, Write,
           WriteFails, indexVars
  <2>2. QED  BY <2>1
<1>4. QED  BY <1>1, <1>2, <1>3

\* What a thread is about to write after a step of w.
LEMMA TakenStep ==
  ASSUME Typed, OwnTasks, InItsShard, NEW w \in Agents, Step(w), NEW v \in Agents
  PROVE  \/ v # w /\ taken'[v] = taken[v]
         \/ v = w /\ Flush(w) /\ taken'[w] = ToSet(staged[Home(w)][Shard(w)])
         \/ v = w /\ ~Flush(w) /\ taken'[w] = {}
<1>1. CASE Flush(w)
  BY <1>1 DEF Flush, Typed
<1>2. CASE Write(w) \/ WriteFails(w)
  BY <1>2 DEF Write, WriteFails, Flush, Typed
<1>3. CASE ~Flush(w) /\ ~Write(w) /\ ~WriteFails(w)
  <2>1. taken' = taken /\ pc[w] # "write"
    BY <1>3 DEF Step, TakeBatch, Raise, CheckKnown, CheckUnknown, Execute, Fetch,
           Register, indexVars
  <2>2. taken[w] = {}
    BY <2>1 DEF InItsShard
  <2>3. QED  BY <1>3, <2>1, <2>2
<1>4. QED  BY <1>1, <1>2, <1>3

LEMMA InItsShardInit == Init => InItsShard
BY EmptySequence DEF Init, InItsShard

LEMMA InItsShardStep ==
  Typed /\ OwnTasks /\ InItsShard /\ [Next]_vars => InItsShard'
<1> SUFFICES ASSUME Typed, OwnTasks, InItsShard, [Next]_vars PROVE InItsShard'
  OBVIOUS
<1>1. ASSUME NEW w \in Agents, Step(w) PROVE InItsShard'
  <2>1. /\ hash' = hash /\ backend' = backend /\ open' = open
    BY <1>1 DEF Step, TakeBatch, Raise, CheckKnown, CheckUnknown, Execute, Fetch,
           Register, Flush, Write, WriteFails, mergeVars
  <2>2. Processes' = Processes /\ open = Processes
    BY <1>1, <2>1, StillOpen DEF Processes, Home, InItsShard
  <2>3. Others(w)
    BY <1>1, StepThreads
  <2>4. ASSUME NEW p \in Agents, NEW s \in ShardIds
        PROVE  /\ \A h \in ToSet(staged'[p][s]) : ShardOf(h) = s
               /\ p \notin open' => staged'[p][s] = <<>>
    <3>1. CASE /\ Register(w) /\ p = Home(w) /\ s = Shard(w)
               /\ ToSet(staged'[p][s]) = ToSet(staged[p][s]) \cup {Hash(w)}
      <4>1. p \in open'
        BY <2>1, <2>2, <3>1 DEF Processes
      <4>2. QED  BY <3>1, <4>1 DEF InItsShard, Shard
    <3>2. CASE ToSet(staged'[p][s]) = ToSet(staged[p][s]) /\ staged'[p][s] = staged[p][s]
      BY <2>1, <3>2 DEF InItsShard
    <3>3. CASE staged'[p][s] = <<>>
      BY <3>3, EmptySequence
    <3>4. QED  BY <1>1, <3>1, <3>2, <3>3, StagedStep
  <2>5. ASSUME NEW v \in Agents, NEW h \in taken'[v]
        PROVE  pc'[v] = "write" /\ ShardOf(h) = (Shard(v))'
    <3>1. CASE v # w /\ taken'[v] = taken[v]
      BY <2>1, <2>3, <2>5, <3>1, OthersSame DEF InItsShard
    <3>2. CASE v = w /\ Flush(w) /\ taken'[w] = ToSet(staged[Home(w)][Shard(w)])
      <4>1. pc'[w] = "write" /\ task' = task /\ at' = at /\ AtWork(w)
        BY <3>2 DEF Flush, Typed, AtWork
      <4>2. (Shard(w))' = Shard(w)
        BY <2>1, <4>1 DEF Shard, Hash, Doc, ShardOf
      <4>3. Home(w) \in Agents /\ Shard(w) \in ShardIds
        BY <4>1, AtDocument
      <4>4. QED  BY <2>5, <3>2, <4>1, <4>2, <4>3 DEF InItsShard
    <3>3. QED  BY <1>1, <2>5, <3>1, <3>2, TakenStep
  <2>6. (\A h \in Nat : ShardOf(h)' = ShardOf(h)) /\ ShardIds' = ShardIds
    BY DEF ShardOf, ShardIds
  <2>7. QED  BY <2>1, <2>2, <2>4, <2>5 DEF InItsShard, ShardOf
<1>2. ASSUME ApplyDoc PROVE InItsShard'
  BY <1>2 DEF ApplyDoc, indexVars, threadVars, InItsShard, Processes, Home, AllDone,
              Shard, Hash, Doc
<1>3. ASSUME NEW p \in Processes, Shutdown(p) PROVE InItsShard'
  <2>1. /\ AllDone /\ open' = open \ {p} /\ batch' = batch /\ backend' = backend
        /\ staged' = [staged EXCEPT ![p] = [s \in ShardIds |-> <<>>]]
        /\ UNCHANGED <<hash, pc, task, at, taken>>
    BY <1>3 DEF Shutdown, threadVars
  <2>2. AllDone' /\ Processes' = Processes /\ p \in Agents
    BY <2>1, Ground DEF AllDone, Processes, Home
  <2>3. \A q \in Agents, s \in ShardIds :
          staged'[q][s] = IF q = p THEN <<>> ELSE staged[q][s]
    BY <2>1, <2>2 DEF Typed
  <2>4. \A q \in Agents, s \in ShardIds :
          /\ \A h \in ToSet(staged'[q][s]) : ShardOf(h) = s
          /\ q \notin open' => staged'[q][s] = <<>>
    BY <2>1, <2>3, EmptySequence DEF InItsShard
  <2>5. \A w \in Agents : \A h \in taken'[w] :
          pc'[w] = "write" /\ ShardOf(h) = (Shard(w))'
    BY <2>1 DEF InItsShard, Shard, Hash, Doc, ShardOf
  <2>6. QED  BY <2>1, <2>2, <2>4, <2>5 DEF InItsShard, ShardOf
<1>4. CASE UNCHANGED vars
  BY <1>4 DEF vars, indexVars, threadVars, mergeVars, InItsShard, Processes, Home,
              AllDone, Shard, Hash, Doc
<1>5. QED  BY <1>1, <1>2, <1>3, <1>4 DEF Next
--------------------------------------------------------------------------------
(***************************************************************************)
(* Whatever is known is backed.                                             *)
(***************************************************************************)
LEMMA BackedStep ==
  ASSUME Typed, OwnTasks, NEW w \in Agents, Step(w), NEW h, Backed(h)
  PROVE  (Backed(h))'
<1>1. /\ hash' = hash /\ earlier' = earlier
      /\ abandoned \subseteq abandoned' /\ mixed \subseteq mixed'
  BY DEF Step, TakeBatch, Raise, Fail, CheckKnown, CheckUnknown, Execute, Fetch,
         Register, Flush, Write, WriteFails, histVars
<1>2. CASE h \in earlier \cup abandoned \cup mixed
  BY <1>1, <1>2 DEF Backed
<1>3. ASSUME NEW d \in Docs, LetThrough(d), hash[d] = h PROVE (Backed(h))'
  BY <1>1, <1>3, StepEffect DEF Backed
<1>4. QED  BY <1>2, <1>3 DEF Backed

\* What becomes known is the hash of the document in hand.
SeenStep(w, p, h) ==
  h \in seen'[p] => \/ h \in seen[p]
                    \/ h = Hash(w) /\ \/ CheckKnown(w) \/ Register(w) \/ Write(w)
                                      \/ Fetch(w) /\ Decided(w, FALSE)

LEMMA SeenSteps ==
  ASSUME Typed, OwnTasks, NEW w \in Agents, Step(w), NEW p \in Agents, NEW h
  PROVE  SeenStep(w, p, h)
<1>1. CASE AddSeen(w)
  <2>1. h \in seen'[p] => h \in seen[p] \/ h = Hash(w)
    BY <1>1 DEF AddSeen, Typed
  <2>2. CASE ~ \/ CheckKnown(w) \/ Register(w) \/ Write(w)
               \/ Fetch(w) /\ Decided(w, FALSE)
    BY <2>2 DEF SeenStep, Step, TakeBatch, Raise, CheckUnknown, Execute, Fetch, Flush,
                WriteFails, indexVars
  <2>3. QED  BY <2>1, <2>2 DEF SeenStep
<1>2. CASE seen' = seen
  BY <1>2 DEF SeenStep
<1>3. AddSeen(w) \/ seen' = seen
  BY DEF Step, TakeBatch, Raise, CheckKnown, CheckUnknown, Execute, Fetch, Register,
         Flush, Write, WriteFails, indexVars
<1>4. QED  BY <1>1, <1>2, <1>3

\* The row that a lookup fetched.
Result(w) == cursor[Home(w)][Shard(w)]

LEMMA FetchStep ==
  ASSUME Typed, OwnTasks, NEW w \in Agents, Fetch(w)
  PROVE  /\ Decided(w, FALSE) => Result(w).row
         /\ Result(w).hash # {Hash(w)} => Hash(w) \in mixed'
         /\ Home(w) \in Agents /\ Shard(w) \in ShardIds /\ Hash(w) \in Hashes
<1>1. AtWork(w)
  BY DEF Fetch, AtWork
<1>2. Home(w) \in Agents /\ Shard(w) \in ShardIds /\ Hash(w) \in Hashes
  BY <1>1, AtDocument
<1>3. Decided(w, FALSE) => pc'[w] # "register"
  BY <1>1, DecidedThreads
<1>4. ~Result(w).row => pc' = [pc EXCEPT ![w] = "register"]
  BY DEF Fetch, Result
<1>5. Decided(w, FALSE) => Result(w).row
  BY <1>3, <1>4 DEF Typed
<1>6. QED  BY <1>2, <1>5 DEF Fetch, Result

LEMMA KnownStep ==
  ASSUME Typed, OwnTasks, InItsShard, NEW w \in Agents, Step(w), NEW h \in Hashes,
         (Known(h))'
  PROVE  \/ Known(h)
         \/ h = Hash(w) /\ (Register(w) \/ Write(w) \/ (Fetch(w) /\ h \in mixed'))
<1> DEFINE Goal ==
      \/ Known(h)
      \/ h = Hash(w) /\ (Register(w) \/ Write(w) \/ (Fetch(w) /\ h \in mixed'))
<1>0. /\ AtWork(w) => Home(w) \in Agents /\ Shard(w) \in ShardIds /\ Hash(w) \in Hashes
      /\ Fetch(w) \/ Flush(w) \/ Write(w) \/ Execute(w) \/ CheckKnown(w) => AtWork(w)
  BY AtDocument DEF Fetch, Flush, Write, Execute, CheckKnown, AtWork
<1>1. ASSUME Fetch(w), Result(w).row PROVE Known(Hash(w)) \/ Hash(w) \in mixed'
  BY <1>1, FetchStep DEF Known, Result
<1>2. ASSUME CheckKnown(w) PROVE Known(Hash(w))
  BY <1>0, <1>2 DEF CheckKnown, Known
<1>3. ASSUME NEW p \in Agents, h \in seen'[p] PROVE Goal
  <2>1. SeenStep(w, p, h)
    BY SeenSteps
  <2>2. CASE h \in seen[p]
    BY <2>2 DEF Known
  <2>3. CASE h = Hash(w) /\ CheckKnown(w)
    BY <1>2, <2>3
  <2>4. CASE h = Hash(w) /\ Fetch(w) /\ Decided(w, FALSE)
    BY <1>1, <2>4, FetchStep
  <2>5. QED  BY <1>3, <2>1, <2>2, <2>3, <2>4 DEF SeenStep
<1>4. ASSUME NEW p \in Agents, cached'[p][h] = "present" PROVE Goal
  <2>1. CASE cached[p][h] = "present"
    BY <2>1 DEF Known
  <2>2. CASE Fetch(w)
    <3>1. cached' = [cached EXCEPT ![Home(w)][Hash(w)] =
                       IF Result(w).row THEN "present" ELSE "absent"]
      BY <2>2 DEF Fetch, Result
    <3>2. cached[p][h] = "present" \/ (h = Hash(w) /\ Result(w).row)
      BY <1>0, <1>4, <2>2, <3>1 DEF Typed
    <3>3. QED  BY <1>1, <2>1, <2>2, <3>2
  <2>3. CASE Register(w)
    <3>1. cached' = [cached EXCEPT ![Home(w)][Hash(w)] = "present"] /\ AtWork(w)
      BY <2>3 DEF Register, AtWork
    <3>2. cached[p][h] = "present" \/ h = Hash(w)
      BY <1>0, <1>4, <3>1 DEF Typed
    <3>3. QED  BY <2>1, <2>3, <3>2
  <2>4. CASE ~Fetch(w) /\ ~Register(w)
    <3>1. cached' = cached
      BY <2>4 DEF Step, TakeBatch, Raise, CheckKnown, CheckUnknown, Execute, Flush,
                  Write, WriteFails, indexVars
    <3>2. QED  BY <1>4, <2>1, <3>1
  <2>5. QED  BY <2>2, <2>3, <2>4
<1>5. ASSUME NEW v \in Agents, h \in taken'[v] PROVE Goal
  <2>1. CASE h \in taken[v]
    BY <2>1 DEF Known
  <2>2. CASE Flush(w) /\ h \in ToSet(staged[Home(w)][Shard(w)])
    BY <1>0, <2>2 DEF Known
  <2>3. QED  BY <1>5, <2>1, <2>2, TakenStep
<1>6. ASSUME NEW s \in ShardIds, h \in table'[s] PROVE Goal
  <2>1. CASE Write(w)
    <3>1. table' = [table EXCEPT ![Shard(w)] = @ \cup taken[w]]
      BY <2>1 DEF Write
    <3>2. h \in table[s] \/ h \in taken[w]
      BY <1>0, <1>6, <2>1, <3>1 DEF Typed
    <3>3. QED  BY <3>2 DEF Known
  <2>2. CASE ~Write(w)
    <3>1. table' = table
      BY <2>2 DEF Step, TakeBatch, Raise, CheckKnown, CheckUnknown, Execute, Fetch,
                  Register, Flush, WriteFails, indexVars
    <3>2. QED  BY <1>6, <3>1 DEF Known
  <2>3. QED  BY <2>1, <2>2
<1>7. ASSUME NEW p \in Agents, NEW s \in ShardIds, h \in ToSet(staged'[p][s]) PROVE Goal
  <2>1. CASE h \in ToSet(staged[p][s])
    BY <2>1 DEF Known
  <2>2. CASE Register(w) /\ h = Hash(w)
    BY <2>2
  <2>3. QED  BY <1>7, <2>1, <2>2, StagedStep, EmptySequence
<1>8. ASSUME NEW p \in Agents, NEW s \in ShardIds, h \in cursor'[p][s].hash,
             cursor'[p][s].row
      PROVE  Goal
  <2>1. CASE h \in cursor[p][s].hash /\ cursor[p][s].row
    BY <2>1 DEF Known
  <2>2. CASE Execute(w)
    <3>1. cursor' = [cursor EXCEPT ![Home(w)][Shard(w)] =
            [hash |-> {Hash(w)}, row |-> Hash(w) \in table[Shard(w)]]]
      BY <2>2 DEF Execute
    <3>2. \/ h \in cursor[p][s].hash /\ cursor[p][s].row
          \/ h = Hash(w) /\ Hash(w) \in table[Shard(w)]
      <4>1. CASE p = Home(w) /\ s = Shard(w)
        BY <1>0, <1>8, <2>2, <3>1, <4>1 DEF Typed
      <4>2. CASE ~(p = Home(w) /\ s = Shard(w))
        <5>1. cursor'[p][s] = cursor[p][s]
          BY <1>0, <2>2, <3>1, <4>2 DEF Typed
        <5>2. QED  BY <1>8, <5>1
      <4>3. QED  BY <4>1, <4>2
    <3>3. QED  BY <1>0, <2>1, <2>2, <3>2 DEF Known
  <2>3. CASE Fetch(w)
    <3>1. cursor' = [cursor EXCEPT ![Home(w)][Shard(w)] = Nothing]
      BY <2>3 DEF Fetch
    <3>2. cursor'[p][s] \in {Nothing, cursor[p][s]}
      BY <1>0, <2>3, <3>1 DEF Typed
    <3>3. QED  BY <1>8, <2>1, <3>2 DEF Nothing
  <2>4. CASE ~Execute(w) /\ ~Fetch(w)
    <3>1. cursor' = cursor
      BY <2>4 DEF Step, TakeBatch, Raise, CheckKnown, CheckUnknown, Register, Flush,
                  Write, WriteFails, indexVars
    <3>2. QED  BY <1>8, <2>1, <3>1
  <2>5. QED  BY <2>2, <2>3, <2>4
<1>9. QED
  BY <1>3, <1>4, <1>5, <1>6, <1>7, <1>8 DEF Known

LEMMA AllBackedInit == Init => AllBacked
<1> SUFFICES ASSUME Init PROVE AllBacked
  OBVIOUS
<1>1. Typed
  BY TypedInit
<1>2. ASSUME NEW h \in Hashes, Known(h) PROVE Backed(h)
  <2>1. \A p \in Agents, s \in ShardIds :
          ToSet(staged[p][s]) = {} /\ cursor[p][s].hash = {}
    BY EmptySequence DEF Init, Nothing
  <2>2. \A p \in Agents : seen[p] = {} /\ taken[p] = {} /\ cached[p][h] = "unknown"
    BY DEF Init
  <2>3. \A s \in ShardIds : table[s] \subseteq earlier
    BY DEF Init
  <2>4. QED  BY <1>2, <2>1, <2>2, <2>3 DEF Known, Backed
<1>3. \A d \in Docs : ~Examined(d)
  BY DEF Init, Examined, AtWork
<1>4. QED  BY <1>2, <1>3 DEF AllBacked

\* The document in hand is decided.
LEMMA DecidedIsBacked ==
  ASSUME Typed, OwnTasks, InItsShard, AllBacked, NEW w \in Agents, Step(w),
         NEW h, h = Hash(w),
         CheckKnown(w) \/ Register(w) \/ Write(w) \/ (Fetch(w) /\ Decided(w, FALSE))
  PROVE  (Backed(h))'
<1>1. hash' = hash
  BY DEF CheckKnown, Fetch, Register, Write
<1>2. AtWork(w)
  BY DEF CheckKnown, Register, Write, Fetch, AtWork
<1>3. PICK d \in Docs : d = Doc(w)
  BY <1>2, AtDocument
<1>4. hash[d] = h /\ h \in Hashes /\ Home(w) \in Agents /\ Shard(w) \in ShardIds
  BY <1>2, <1>3, AtDocument DEF Hash
<1>5. CASE Register(w)
  <2>1. (LetThrough(d))'
    BY <1>3, <1>5, StepEffect
  <2>2. QED  BY <1>1, <1>4, <2>1 DEF Backed
<1>6. CASE Write(w)
  <2>1. LetThrough(d)
    BY <1>3, <1>6 DEF Write, LetThrough
  <2>2. Backed(h)
    BY <1>4, <2>1 DEF Backed
  <2>3. QED  BY <2>2, BackedStep
<1>7. CASE CheckKnown(w)
  <2>1. Known(h)
    BY <1>4, <1>7 DEF CheckKnown, Known
  <2>2. QED  BY <1>4, <2>1, BackedStep DEF AllBacked
<1>8. CASE Fetch(w) /\ Decided(w, FALSE)
  <2>1. CASE Result(w).hash # {h}
    BY <1>8, <2>1, FetchStep DEF Backed
  <2>2. CASE Result(w).hash = {h}
    <3>1. Known(h)
      BY <1>4, <1>8, <2>2, FetchStep DEF Result, Known
    <3>2. QED  BY <1>4, <3>1, BackedStep DEF AllBacked
  <2>3. QED  BY <2>1, <2>2
<1>9. QED  BY <1>5, <1>6, <1>7, <1>8

LEMMA AllBackedStep ==
  Typed /\ OwnTasks /\ InItsShard /\ AllBacked /\ [Next]_vars => AllBacked'
<1> SUFFICES ASSUME Typed, OwnTasks, InItsShard, AllBacked, [Next]_vars PROVE AllBacked'
  OBVIOUS
<1>1. ASSUME NEW w \in Agents, Step(w) PROVE AllBacked'
  <2>0. hash' = hash
    BY <1>1 DEF Step, TakeBatch, Raise, CheckKnown, CheckUnknown, Execute, Fetch,
           Register, Flush, Write, WriteFails
  <2>1. ASSUME NEW h \in Hashes, (Known(h))' PROVE (Backed(h))'
    <3>1. CASE Known(h)
      BY <1>1, <3>1, BackedStep DEF AllBacked
    <3>2. CASE h = Hash(w) /\ (Register(w) \/ Write(w))
      BY <1>1, <3>2, DecidedIsBacked
    <3>3. CASE h \in mixed'
      BY <3>3 DEF Backed
    <3>4. QED  BY <1>1, <2>1, <3>1, <3>2, <3>3, KnownStep
  <2>2. ASSUME NEW d \in Docs, (Examined(d))' PROVE (Backed(hash[d]))'
    <3>1. PICK h : h = hash[d]
      OBVIOUS
    <3>2. CASE Examined(d)
      <4>1. (Backed(h))'
        BY <1>1, <3>1, <3>2, BackedStep DEF AllBacked
      <4>2. QED  BY <2>0, <3>1, <4>1 DEF Backed
    <3>3. CASE d = Doc(w) /\ \/ CheckKnown(w) \/ Register(w) \/ Write(w)
                             \/ Fetch(w) /\ Decided(w, FALSE)
      <4>1. h = Hash(w)
        BY <3>1, <3>3 DEF Hash
      <4>2. (Backed(h))'
        BY <1>1, <3>3, <4>1, DecidedIsBacked
      <4>3. QED  BY <2>0, <3>1, <4>2 DEF Backed
    <3>4. QED  BY <1>1, <2>2, <3>2, <3>3, StepEffect
  <2>3. QED  BY <2>0, <2>1, <2>2 DEF AllBacked, Backed
<1>2. ASSUME ApplyDoc PROVE AllBacked'
  BY <1>2 DEF ApplyDoc, indexVars, threadVars, histVars, AllBacked, Known, Backed,
              LetThrough, Examined, AtWork, Doc
<1>3. ASSUME NEW p \in Processes, Shutdown(p) PROVE AllBacked'
  <2>1. p \in Agents
    BY Ground DEF Processes, Home
  <2>2. PICK n \in 0 .. Shards :
          table' = [s \in ShardIds |-> IF s < n THEN table[s] \cup ToSet(staged[p][s])
                                       ELSE table[s]]
    BY <1>3 DEF Shutdown
  <2>3. \A q \in Agents, s \in ShardIds :
          ToSet(staged'[q][s]) \in {ToSet(staged[q][s]), {}}
    BY <1>3, <2>1, EmptySequence DEF Shutdown, Typed
  <2>4. /\ UNCHANGED <<hash, earlier, seen, cached, cursor, abandoned, mixed, batch,
                       admitted, pc, task, at, taken, passed>>
    BY <1>3 DEF Shutdown, threadVars
  <2>5. \A d : /\ (LetThrough(d))' <=> LetThrough(d)
               /\ (Examined(d))' <=> Examined(d)
    BY <2>4 DEF LetThrough, Examined, AtWork, Doc
  <2>6. \A h : Backed(h) => (Backed(h))'
    BY <2>4, <2>5 DEF Backed
  <2>7. ASSUME NEW h \in Hashes, (Known(h))' PROVE Known(h)
    BY <2>1, <2>2, <2>3, <2>4, <2>7 DEF Known
  <2>8. QED  BY <2>4, <2>5, <2>6, <2>7 DEF AllBacked
<1>4. CASE UNCHANGED vars
  BY <1>4 DEF vars, indexVars, threadVars, mergeVars, histVars, AllBacked, Known,
              Backed, LetThrough, Examined, AtWork, Doc
<1>5. QED  BY <1>1, <1>2, <1>3, <1>4 DEF Next
--------------------------------------------------------------------------------
(***************************************************************************)
(* Every text arrives.                                                      *)
(***************************************************************************)
\* The hash index of the merge is not the fast workers' own.
OwnIndex == Registry => Shards # 1

\* What is done stays done, and documents are collected from running tasks.
LEMMA CollectStep ==
  ASSUME Typed, OwnTasks, NEW w \in Agents, Step(w), NEW d \in Docs
  PROVE  /\ batch[BatchOf(d)] = "done" => batch'[BatchOf(d)] = "done"
         /\ d \in admitted' => d \in admitted \/ batch[BatchOf(d)] = "running"
<1>1. BatchOf(d) \in DOMAIN Batches
  BY BatchOfDoc
<1>2. CASE TakeBatch(w)
  BY <1>1, <1>2 DEF TakeBatch, Typed
<1>3. CASE AtWork(w)
  <2>1. /\ task[w] \in DOMAIN Batches /\ batch[task[w]] = "running"
        /\ passed[w] \subseteq ToSet(Batches[task[w]])
    BY <1>3 DEF OwnTasks
  <2>2. Doc(w) \in ToSet(Batches[task[w]])
    BY <1>3, AtDocument
  <2>3. CASE \E through \in BOOLEAN : Decided(w, through)
    <3>1. /\ batch' = batch \/ batch' = [batch EXCEPT ![task[w]] = "done"]
          /\ admitted' \subseteq admitted \cup passed[w] \cup {Doc(w)}
      BY <2>3 DEF Decided
    <3>2. d \in passed[w] \cup {Doc(w)} => BatchOf(d) = task[w]
      BY <2>1, <2>2, BatchOfDoc
    <3>3. QED  BY <1>1, <2>1, <3>1, <3>2 DEF Typed
  <2>4. CASE \E r : Fail(w, r)
    BY <1>1, <2>1, <2>4 DEF Fail, Typed
  <2>5. CASE batch' = batch /\ admitted' = admitted
    BY <2>5
  <2>6. QED
    BY <1>2, <2>3, <2>4, <2>5
       DEF Step, Raise, CheckKnown, CheckUnknown, Execute, Fetch, Register, Flush, Write,
           WriteFails, mergeVars
<1>4. QED
  BY <1>2, <1>3 DEF Step, Raise, CheckKnown, CheckUnknown, Execute, Fetch, Register,
     Flush, Write, WriteFails, AtWork

LEMMA AppliedInit == Init => AppliedInOutput
<1> SUFFICES ASSUME Init, NEW d \in Docs PROVE ~(d <= applied)
  BY DEF AppliedInOutput
<1>1. Cardinality(Docs) \in Nat
  BY BatchesAssumption, FS_CardinalityType
<1>2. d \in 1 .. Cardinality(Docs)
  BY BatchesAssumption
<1>3. QED  BY <1>1, <1>2 DEF Init

LEMMA AppliedStep ==
  ASSUME OwnIndex
  PROVE  Typed /\ OwnTasks /\ AppliedInOutput /\ [Next]_vars => AppliedInOutput'
<1> SUFFICES ASSUME Typed, OwnTasks, AppliedInOutput, [Next]_vars, NEW d \in Docs,
                    d <= applied'
             PROVE  /\ batch'[BatchOf(d)] = "done"
                    /\ d \in admitted' => hash'[d] \in rows' \cup earlier'
  BY DEF AppliedInOutput, BatchOf
<1>0. Docs \subseteq Nat /\ applied \in Nat
  BY BatchesAssumption, FS_CardinalityType DEF Typed
<1>1. ASSUME NEW w \in Agents, Step(w)
      PROVE  /\ batch'[BatchOf(d)] = "done"
             /\ d \in admitted' => hash'[d] \in rows' \cup earlier'
  <2>1. UNCHANGED <<hash, earlier, applied, rows>>
    BY <1>1 DEF Step, TakeBatch, Raise, CheckKnown, CheckUnknown, Execute, Fetch,
           Register, Flush, Write, WriteFails, mergeVars
  <2>2. QED  BY <1>1, <2>1, CollectStep DEF AppliedInOutput
<1>2. ASSUME ApplyDoc
      PROVE  /\ batch'[BatchOf(d)] = "done"
             /\ d \in admitted' => hash'[d] \in rows' \cup earlier'
  <2>1. UNCHANGED <<hash, earlier, batch, admitted>> /\ rows \subseteq rows'
    BY <1>2 DEF ApplyDoc
  <2>2. CASE d <= applied
    BY <2>1, <2>2 DEF AppliedInOutput
  <2>3. CASE d = applied + 1
    <3>1. batch[BatchOf(d)] = "done"
      BY <1>2, <2>3 DEF ApplyDoc
    <3>2. ASSUME d \in admitted PROVE hash[d] \in rows' \cup earlier
      <4>1. CASE InMergeIndex(hash[d])
        <5>1. hash[d] \in rows \cup earlier
          BY <4>1 DEF InMergeIndex, OwnIndex
        <5>2. QED  BY <2>1, <5>1
      <4>2. CASE ~InMergeIndex(hash[d])
        BY <1>2, <2>3, <3>2, <4>2 DEF ApplyDoc
      <4>3. QED  BY <4>1, <4>2
    <3>3. QED  BY <2>1, <3>1, <3>2
  <2>4. applied' = applied + 1
    BY <1>2 DEF ApplyDoc
  <2>5. d <= applied \/ d = applied + 1
    BY <1>0, <2>4
  <2>6. QED  BY <2>2, <2>3, <2>5
<1>3. ASSUME NEW p \in Processes, Shutdown(p)
      PROVE  /\ batch'[BatchOf(d)] = "done"
             /\ d \in admitted' => hash'[d] \in rows' \cup earlier'
  BY <1>3 DEF Shutdown, AppliedInOutput
<1>4. CASE UNCHANGED vars
  BY <1>4 DEF vars, mergeVars, AppliedInOutput
<1>5. QED  BY <1>1, <1>2, <1>3, <1>4 DEF Next

\* When all is applied, no thread has a task, and what was let through is rows.
LEMMA ArrivesWhenApplied ==
  Typed /\ OwnTasks /\ AllBacked /\ AppliedInOutput => EveryTextArrives
<1> SUFFICES ASSUME Typed, OwnTasks, AllBacked, AppliedInOutput,
                    applied = Cardinality(Docs), NEW d \in Docs
             PROVE  hash[d] \in rows \cup earlier \cup abandoned \cup mixed
  BY DEF EveryTextArrives
<1>1. \A e \in Docs : e <= applied
  <2>1. Cardinality(Docs) \in Nat /\ Docs = 1 .. Cardinality(Docs)
    BY BatchesAssumption, FS_CardinalityType
  <2>2. QED  BY <2>1
<1>2. \A e \in Docs : batch[BatchOf(e)] = "done"
  BY <1>1 DEF AppliedInOutput
<1>3. \A w \in Agents : ~AtWork(w)
  <2> SUFFICES ASSUME NEW w \in Agents, AtWork(w) PROVE FALSE
    OBVIOUS
  <2>1. /\ task[w] \in DOMAIN Batches /\ batch[task[w]] = "running"
        /\ Doc(w) \in Docs /\ Doc(w) \in ToSet(Batches[task[w]])
    BY AtDocument DEF OwnTasks
  <2>2. BatchOf(Doc(w)) = task[w]
    BY <2>1, BatchOfDoc
  <2>3. QED  BY <1>2, <2>1, <2>2
<1>4. Examined(d)
  BY <1>2, BatchOfDoc DEF Examined
<1>5. Backed(hash[d])
  BY <1>4 DEF AllBacked
<1>6. ASSUME NEW e \in Docs, LetThrough(e), hash[e] = hash[d]
      PROVE  hash[d] \in rows \cup earlier
  <2>1. e \in admitted
    BY <1>3, <1>6 DEF LetThrough, AtWork
  <2>2. QED  BY <1>1, <1>6, <2>1 DEF AppliedInOutput
<1>7. QED  BY <1>5, <1>6 DEF Backed

LEMMA IndexInvariance == Spec => [](Typed /\ OwnTasks /\ InItsShard)
<1>1. Init => Typed /\ OwnTasks /\ InItsShard
  BY TypedInit, InItsShardInit
<1>2. (Typed /\ OwnTasks /\ InItsShard) /\ [Next]_vars
        => (Typed /\ OwnTasks /\ InItsShard)'
  BY TypedStep, InItsShardStep
<1>3. QED  BY <1>1, <1>2, PTL DEF Spec

\* Every text is in the output once all documents are applied, whatever the
\* interleaving, unless a task that failed had registered it or a lookup fetched
\* another one's row (stage0.py, exact.py): for merges whose own index is not the
\* fast workers'.
THEOREM Arrival == ASSUME OwnIndex PROVE Spec => []EveryTextArrives
<1>1. Init => AllBacked /\ AppliedInOutput
  BY AllBackedInit, AppliedInit
<1>2. /\ Typed /\ OwnTasks /\ InItsShard /\ AllBacked /\ AppliedInOutput
      /\ [Next]_vars
      => (AllBacked /\ AppliedInOutput)'
  BY AllBackedStep, AppliedStep
<1>3. Typed /\ OwnTasks /\ InItsShard /\ AllBacked /\ AppliedInOutput => EveryTextArrives
  BY ArrivesWhenApplied
<1>4. QED  BY <1>1, <1>2, <1>3, IndexInvariance, PTL DEF Spec
--------------------------------------------------------------------------------
(***************************************************************************)
(* Every text is let through once.                                          *)
(***************************************************************************)
LEMMA HistoryGrows ==
  ASSUME NEW w, Step(w)
  PROVE  /\ lost \subseteq lost' /\ mixed \subseteq mixed'
         /\ overlapped \subseteq overlapped' /\ Explained \subseteq Explained'
         /\ hash' = hash /\ backend' = backend /\ earlier' = earlier
<1>1. /\ lost \subseteq lost' /\ mixed \subseteq mixed'
      /\ overlapped \subseteq overlapped'
      /\ hash' = hash /\ backend' = backend /\ earlier' = earlier
  BY DEF Step, TakeBatch, Raise, Fail, CheckKnown, CheckUnknown, Execute, Fetch,
         Register, Flush, Write, WriteFails, histVars, Note
<1>2. QED  BY <1>1 DEF Explained

\* A hash is stored by registering it, and only a failed write takes it back.
LEMMA StoredStep ==
  ASSUME Typed, OwnTasks, InItsShard, NEW w \in Agents, Step(w), NEW h \in Hashes
  PROVE  /\ Stored(h) => (Stored(h))' \/ h \in lost'
         /\ (Stored(h))' => Stored(h) \/ (Register(w) /\ h = Hash(w))
         /\ Register(w) /\ h = Hash(w) => (Stored(h))'
         /\ h \in table[ShardOf(h)] => h \in table'[ShardOf(h)]
<1>1. ShardOf(h) \in ShardIds /\ (ShardOf(h))' = ShardOf(h)
  BY Ground DEF ShardOf
<1>2. /\ AtWork(w) => Home(w) \in Agents /\ Shard(w) \in ShardIds /\ Hash(w) \in Hashes
      /\ Register(w) \/ Flush(w) \/ Write(w) => AtWork(w)
  BY AtDocument DEF Flush, Write, Register, AtWork
<1>3. /\ h \in table[ShardOf(h)] => h \in table'[ShardOf(h)]
      /\ h \in table'[ShardOf(h)] => h \in table[ShardOf(h)] \/ h \in taken[w]
      /\ Write(w) /\ h \in taken[w] => h \in table'[ShardOf(h)]
  <2>1. CASE Write(w)
    <3>1. table' = [table EXCEPT ![Shard(w)] = @ \cup taken[w]]
      BY <2>1 DEF Write
    <3>2. h \in taken[w] => ShardOf(h) = Shard(w)
      BY DEF InItsShard
    <3>3. QED  BY <1>1, <1>2, <2>1, <3>1, <3>2 DEF Typed
  <2>2. CASE ~Write(w)
    <3>1. table' = table
      BY <2>2 DEF Step, TakeBatch, Raise, CheckKnown, CheckUnknown, Execute, Fetch,
                  Register, Flush, WriteFails, indexVars
    <3>2. QED  BY <2>2, <3>1
  <2>3. QED  BY <2>1, <2>2
<1>4. ASSUME Stored(h) PROVE (Stored(h))' \/ h \in lost'
  <2>1. CASE h \in table[ShardOf(h)]
    BY <1>1, <1>3, <2>1 DEF Stored
  <2>2. ASSUME NEW p \in Agents, h \in ToSet(staged[p][ShardOf(h)])
        PROVE  (Stored(h))'
    <3>1. CASE h \in ToSet(staged'[p][ShardOf(h)])
      BY <1>1, <3>1 DEF Stored
    <3>2. CASE Flush(w) /\ p = Home(w) /\ ShardOf(h) = Shard(w)
      <4>1. h \in taken'[w]
        BY <2>2, <3>2 DEF Flush, Typed
      <4>2. QED  BY <4>1 DEF Stored
    <3>3. QED  BY <1>1, <2>2, <3>1, <3>2, StagedStep
  <2>3. ASSUME NEW v \in Agents, h \in taken[v] PROVE (Stored(h))' \/ h \in lost'
    <3>1. CASE v # w
      <4>1. taken'[v] = taken[v]
        BY <3>1, TakenStep
      <4>2. QED  BY <2>3, <4>1 DEF Stored
    <3>2. CASE v = w
      <4>1. pc[w] = "write"
        BY <2>3, <3>2 DEF InItsShard
      <4>2. Write(w) \/ WriteFails(w)
        BY <4>1 DEF Step, TakeBatch, Raise, CheckKnown, CheckUnknown, Execute, Fetch,
                    Register, Flush
      <4>3. QED  BY <1>1, <1>3, <2>3, <3>2, <4>2 DEF Stored, WriteFails
    <3>3. QED  BY <3>1, <3>2
  <2>4. QED  BY <1>4, <2>1, <2>2, <2>3 DEF Stored
<1>5. ASSUME (Stored(h))' PROVE Stored(h) \/ (Register(w) /\ h = Hash(w))
  <2>1. CASE h \in table'[ShardOf(h)]
    BY <1>3, <2>1 DEF Stored
  <2>2. ASSUME NEW p \in Agents, h \in ToSet(staged'[p][ShardOf(h)])
        PROVE  Stored(h) \/ (Register(w) /\ h = Hash(w))
    <3>1. CASE h \in ToSet(staged[p][ShardOf(h)])
      BY <3>1 DEF Stored
    <3>2. QED  BY <1>1, <2>2, <3>1, StagedStep, EmptySequence
  <2>3. ASSUME NEW v \in Agents, h \in taken'[v] PROVE Stored(h)
    <3>1. CASE v = w /\ Flush(w) /\ taken'[w] = ToSet(staged[Home(w)][Shard(w)])
      <4>1. ShardOf(h) = Shard(w)
        BY <1>2, <2>3, <3>1 DEF InItsShard
      <4>2. QED  BY <1>2, <2>3, <3>1, <4>1 DEF Stored
    <3>2. QED  BY <2>3, <3>1, TakenStep DEF Stored
  <2>4. QED  BY <1>1, <1>5, <2>1, <2>2, <2>3 DEF Stored
<1>6. ASSUME Register(w), h = Hash(w) PROVE (Stored(h))'
  <2>1. /\ staged' = [staged EXCEPT ![Home(w)][Shard(w)] =
                        Append(staged[Home(w)][Shard(w)], Hash(w))]
        /\ staged[Home(w)][Shard(w)] \in Seq(Hashes)
    BY <1>2, <1>6 DEF Register, Typed
  <2>2. h \in ToSet(Append(staged[Home(w)][Shard(w)], Hash(w)))
    BY <1>6, <2>1, AppendToSet
  <2>3. h \in ToSet(staged'[Home(w)][Shard(w)]) /\ Shard(w) = ShardOf(h)
    BY <1>2, <1>6, <2>1, <2>2 DEF Typed, Shard
  <2>4. QED  BY <1>1, <1>2, <1>6, <2>3 DEF Stored
<1>7. QED  BY <1>3, <1>4, <1>5, <1>6

\* What the end of a process does to what is stored.
LEMMA StoredShutdown ==
  ASSUME Typed, NEW p \in Processes, Shutdown(p), NEW h \in Hashes
  PROVE  /\ Stored(h) => (Stored(h))' \/ h \in lost'
         /\ (Stored(h))' => Stored(h)
         /\ h \in table[ShardOf(h)] => h \in table'[ShardOf(h)]
<1>1. ShardOf(h) \in ShardIds /\ ShardOf(h) \in Nat /\ (ShardOf(h))' = ShardOf(h)
      /\ p \in Agents
  BY Ground DEF ShardOf, ShardIds, Processes, Home
<1>2. PICK n \in 0 .. Shards :
        /\ table' = [s \in ShardIds |-> IF s < n THEN table[s] \cup ToSet(staged[p][s])
                                        ELSE table[s]]
        /\ lost' = lost \cup UNION {ToSet(staged[p][s]) : s \in n .. Shards - 1}
  BY DEF Shutdown
<1>3. \A q \in Agents : ToSet(staged'[q][ShardOf(h)]) =
        IF q = p THEN {} ELSE ToSet(staged[q][ShardOf(h)])
  BY <1>1, EmptySequence DEF Shutdown, Typed
<1>4. taken' = taken
  BY DEF Shutdown, threadVars
<1>5. h \in ToSet(staged[p][ShardOf(h)]) => h \in table'[ShardOf(h)] \/ h \in lost'
  <2>1. CASE ShardOf(h) < n
    BY <1>1, <1>2, <2>1
  <2>2. CASE ~(ShardOf(h) < n)
    <3>1. ShardOf(h) \in n .. Shards - 1
      BY <1>1, <2>2, Ground DEF ShardIds
    <3>2. QED  BY <1>2, <3>1
  <2>3. QED  BY <2>1, <2>2
<1>6. /\ h \in table[ShardOf(h)] => h \in table'[ShardOf(h)]
      /\ h \in table'[ShardOf(h)] =>
           h \in table[ShardOf(h)] \/ h \in ToSet(staged[p][ShardOf(h)])
  BY <1>1, <1>2
<1>7. QED  BY <1>1, <1>3, <1>4, <1>5, <1>6 DEF Stored

LEMMA ThroughIsStoredStep ==
  Typed /\ OwnTasks /\ InItsShard /\ ThroughIsStored /\ [Next]_vars => ThroughIsStored'
<1> SUFFICES ASSUME Typed, OwnTasks, InItsShard, ThroughIsStored, [Next]_vars,
                    NEW d \in Docs, (LetThrough(d))', NEW h, h = hash[d]
             PROVE  hash' = hash /\ (h \in lost' \/ (Stored(h))')
  BY DEF ThroughIsStored, Stored, ShardOf
<1>0. h \in Hashes
  BY Ground DEF Typed
<1>1. ASSUME NEW w \in Agents, Step(w) PROVE hash' = hash /\ (h \in lost' \/ (Stored(h))')
  <2>1. hash' = hash /\ lost \subseteq lost'
    BY <1>1, HistoryGrows
  <2>2. CASE LetThrough(d)
    BY <1>0, <1>1, <2>1, <2>2, StoredStep DEF ThroughIsStored
  <2>3. CASE Register(w) /\ d = Doc(w)
    <3>1. h = Hash(w)
      BY <2>3 DEF Hash
    <3>2. QED  BY <1>0, <1>1, <2>1, <2>3, <3>1, StoredStep
  <2>4. QED  BY <1>1, <2>2, <2>3, StepEffect
<1>2. ASSUME ApplyDoc PROVE hash' = hash /\ (h \in lost' \/ (Stored(h))')
  <2>1. LetThrough(d)
    BY <1>2 DEF ApplyDoc, LetThrough, AtWork, Doc, threadVars
  <2>2. QED
    BY <1>2, <2>1 DEF ApplyDoc, ThroughIsStored, Stored, ShardOf, indexVars, threadVars,
       histVars
<1>3. ASSUME NEW p \in Processes, Shutdown(p)
      PROVE  hash' = hash /\ (h \in lost' \/ (Stored(h))')
  <2>1. LetThrough(d) /\ hash' = hash /\ lost \subseteq lost'
    BY <1>3 DEF Shutdown, LetThrough, AtWork, Doc, threadVars
  <2>2. QED  BY <1>0, <1>3, <2>1, StoredShutdown DEF ThroughIsStored
<1>4. CASE UNCHANGED vars
  BY <1>4 DEF vars, indexVars, threadVars, mergeVars, histVars, ThroughIsStored, Stored,
              ShardOf, LetThrough, AtWork, Doc
<1>5. QED  BY <1>1, <1>2, <1>3, <1>4 DEF Next

\* How w comes to be past its lookup.
LEMMA ExecutedStep ==
  ASSUME Typed, OwnTasks, NEW w \in Agents, Step(w), pc'[w] \in Executed
  PROVE  /\ (Hash(w))' = Hash(w) /\ AtWork(w) /\ Hash(w) \in Hashes
         /\ pc[w] \in Executed \/ ((Execute(w) \/ CheckUnknown(w)) /\ Note(w))
<1>1. AtWork(w) /\ task' = task /\ at' = at /\ hash' = hash
      /\ (pc[w] \in Executed \/ ((Execute(w) \/ CheckUnknown(w)) /\ Note(w)))
  <2>1. CASE TakeBatch(w)
    BY <2>1, TakeThreads DEF Executed, InRegister
  <2>2. CASE Raise(w) \/ WriteFails(w)
    BY <2>2 DEF Raise, WriteFails, Fail, Executed, InRegister, Typed
  <2>3. CASE CheckKnown(w) \/ Write(w)
    BY <2>3, DecidedThreads DEF CheckKnown, Write, Executed, InRegister, AtWork
  <2>4. CASE CheckUnknown(w)
    BY <2>4 DEF CheckUnknown, Executed, InRegister, AtWork, Typed
  <2>5. CASE Execute(w)
    BY <2>5 DEF Execute, AtWork
  <2>6. CASE Fetch(w)
    <3>1. AtWork(w) /\ pc[w] \in Executed /\ hash' = hash
      BY <2>6 DEF Fetch, AtWork, Executed
    <3>2. ~Decided(w, FALSE)
      BY <3>1, DecidedThreads DEF Executed, InRegister
    <3>3. QED  BY <2>6, <3>1, <3>2 DEF Fetch
  <2>7. CASE Register(w)
    <3>1. AtWork(w) /\ pc[w] \in Executed /\ hash' = hash
      BY <2>7 DEF Register, AtWork, Executed, InRegister
    <3>2. ~Decided(w, TRUE)
      BY <3>1, DecidedThreads DEF Executed, InRegister
    <3>3. QED  BY <2>7, <3>1, <3>2 DEF Register
  <2>8. CASE Flush(w)
    BY <2>8 DEF Flush, AtWork, Executed, InRegister
  <2>9. QED
    BY <2>1, <2>2, <2>3, <2>4, <2>5, <2>6, <2>7, <2>8 DEF Step
<1>2. (Hash(w))' = Hash(w)
  BY <1>1 DEF Hash, Doc
<1>3. QED  BY <1>1, <1>2, AtDocument

\* Whoever looks up what another one is at has been noticed.
LEMMA NoticedWith ==
  ASSUME NEW w \in Agents, NEW v \in Agents, v # w, pc[v] \in Executed \cup InLookup,
         Hash(v) = Hash(w), Note(w)
  PROVE  Hash(w) \in overlapped'
BY DEF Note, Unwritten, Executed, InLookup, InRegister

LEMMA AloneWithHashStep ==
  ASSUME Typed, OwnTasks, AloneWithHash, NEW w \in Agents, Step(w)
  PROVE  AloneWithHash'
<1>1. Explained \subseteq Explained' /\ overlapped' \subseteq Explained' /\ hash' = hash
  BY HistoryGrows DEF Explained
<1>2. Others(w)
  BY StepThreads
<1>3. ASSUME NEW v \in Agents, v # w, pc[v] \in Executed, pc'[w] \in Executed,
             Hash(v) = Hash(w)
      PROVE  Hash(w) \in Explained'
  <2>1. CASE pc[w] \in Executed
    BY <1>1, <1>3, <2>1 DEF AloneWithHash
  <2>2. CASE Note(w)
    BY <1>1, <1>3, <2>2, NoticedWith
  <2>3. QED  BY <1>3, <2>1, <2>2, ExecutedStep
<1>4. ASSUME NEW u \in Agents, NEW v \in Agents, u # v, pc'[u] \in Executed,
             pc'[v] \in Executed, (Hash(u))' = (Hash(v))'
      PROVE  (Hash(v))' \in Explained'
  <2>1. CASE u # w /\ v # w
    BY <1>1, <1>2, <1>4, <2>1, OthersSame DEF AloneWithHash
  <2>2. CASE u = w
    <3>1. pc'[v] = pc[v] /\ (Hash(v))' = Hash(v)
      BY <1>1, <1>2, <1>4, <2>2, OthersSame
    <3>2. (Hash(w))' = Hash(w)
      BY <1>4, <2>2, ExecutedStep
    <3>3. QED  BY <1>3, <1>4, <2>2, <3>1, <3>2
  <2>3. CASE v = w
    <3>1. pc'[u] = pc[u] /\ (Hash(u))' = Hash(u)
      BY <1>1, <1>2, <1>4, <2>3, OthersSame
    <3>2. (Hash(w))' = Hash(w)
      BY <1>4, <2>3, ExecutedStep
    <3>3. QED  BY <1>3, <1>4, <2>3, <3>1, <3>2
  <2>4. QED  BY <2>1, <2>2, <2>3
<1>5. QED  BY <1>4 DEF AloneWithHash, Executed, InRegister

LEMMA AbsentStep ==
  ASSUME Typed, OwnTasks, AbsentIsRegistered, NEW w \in Agents, Step(w)
  PROVE  AbsentIsRegistered'
<1> SUFFICES ASSUME NEW p \in Agents, NEW h \in Hashes, cached'[p][h] = "absent"
             PROVE  \E v \in Agents : /\ pc'[v] = "register" /\ (Hash(v))' = h
                                      /\ (Home(v))' = p
  BY DEF AbsentIsRegistered, Hashes, ToSet
<1>1. hash' = hash /\ \A v : (Home(v))' = Home(v)
  BY HistoryGrows DEF Home
<1>2. Others(w)
  BY StepThreads
<1>3. CASE Fetch(w)
  <2>1. Home(w) \in Agents /\ Hash(w) \in Hashes
    BY <1>3, FetchStep
  <2>2. cached' = [cached EXCEPT ![Home(w)][Hash(w)] =
                     IF Result(w).row THEN "present" ELSE "absent"]
    BY <1>3 DEF Fetch, Result
  <2>3. CASE p = Home(w) /\ h = Hash(w)
    <3>1. ~Result(w).row
      BY <2>1, <2>2, <2>3 DEF Typed
    <3>2. pc'[w] = "register" /\ task' = task /\ at' = at
      BY <1>3, <3>1 DEF Fetch, Result, Typed
    <3>3. (Hash(w))' = Hash(w)
      BY <1>1, <3>2 DEF Hash, Doc
    <3>4. QED  BY <1>1, <2>3, <3>2, <3>3
  <2>4. CASE ~(p = Home(w) /\ h = Hash(w))
    <3>1. cached[p][h] = "absent"
      BY <2>1, <2>2, <2>4 DEF Typed
    <3>2. PICK v \in Agents : pc[v] = "register" /\ Hash(v) = h /\ Home(v) = p
      BY <3>1 DEF AbsentIsRegistered
    <3>3. v # w
      BY <1>3, <3>2 DEF Fetch
    <3>4. QED  BY <1>1, <1>2, <3>2, <3>3, OthersSame
  <2>5. QED  BY <2>3, <2>4
<1>4. CASE Register(w)
  <2>1. AtWork(w)
    BY <1>4 DEF Register, AtWork
  <2>2. Home(w) \in Agents /\ Hash(w) \in Hashes
    BY <2>1, AtDocument
  <2>3. cached' = [cached EXCEPT ![Home(w)][Hash(w)] = "present"]
    BY <1>4 DEF Register
  <2>4. cached[p][h] = "absent" /\ ~(p = Home(w) /\ h = Hash(w))
    BY <2>2, <2>3 DEF Typed
  <2>5. PICK v \in Agents : pc[v] = "register" /\ Hash(v) = h /\ Home(v) = p
    BY <2>4 DEF AbsentIsRegistered
  <2>6. v # w
    BY <2>4, <2>5
  <2>7. QED  BY <1>1, <1>2, <2>5, <2>6, OthersSame
<1>5. CASE ~Fetch(w) /\ ~Register(w)
  <2>1. cached' = cached /\ pc[w] # "register"
    BY <1>5 DEF Step, TakeBatch, Raise, CheckKnown, CheckUnknown, Execute, Flush,
                Write, WriteFails, indexVars
  <2>2. PICK v \in Agents : pc[v] = "register" /\ Hash(v) = h /\ Home(v) = p
    BY <2>1 DEF AbsentIsRegistered
  <2>3. v # w
    BY <2>1, <2>2
  <2>4. QED  BY <1>1, <1>2, <2>2, <2>3, OthersSame
<1>6. QED  BY <1>3, <1>4, <1>5

\* Nothing that others do makes the hash of v known, unless it is noticed.
LEMMA StaysNew ==
  ASSUME Typed, OwnTasks, InItsShard, AloneWithHash, NEW w \in Agents, Step(w),
         NEW v \in Agents, NEW h \in Hashes, h = Hash(v),
         pc[v] \in Executed, v # w \/ ~Register(w),
         ~Stored(h), \A d \in Docs : LetThrough(d) => hash[d] # h
  PROVE  \/ h \in Explained'
         \/ ~(Stored(h))' /\ \A d \in Docs : (LetThrough(d))' => hash[d] # h
<1>1. Explained \subseteq Explained'
  BY HistoryGrows
<1>2. CASE Register(w) /\ h = Hash(w)
  <2>1. pc[w] \in Executed
    BY <1>2 DEF Register, Executed, InRegister
  <2>2. h \in Explained
    BY <1>2, <2>1 DEF AloneWithHash
  <2>3. QED  BY <1>1, <2>2
<1>3. CASE ~(Register(w) /\ h = Hash(w))
  <2>1. ~(Stored(h))'
    BY <1>3, StoredStep
  <2>2. ASSUME NEW d \in Docs, (LetThrough(d))' PROVE hash[d] # h
    <3>1. LetThrough(d) \/ (Register(w) /\ d = Doc(w))
      BY <2>2, StepEffect
    <3>2. QED  BY <1>3, <3>1 DEF Hash
  <2>3. QED  BY <2>1, <2>2
<1>4. QED  BY <1>2, <1>3

\* A lookup that finds nothing, with nobody else at the hash.
LEMMA ExecuteFindsNew ==
  ASSUME Typed, OwnTasks, InItsShard, ThroughIsStored, NEW w \in Agents, Execute(w),
         NEW h \in Hashes, h = Hash(w), h \notin table[Shard(w)], ~Unwritten(w, h)
  PROVE  h \in Explained \/ (~Stored(h) /\ \A d \in Docs : LetThrough(d) => hash[d] # h)
<1>1. ~Stored(h)
  <2>1. h \notin table[ShardOf(h)]
    BY DEF Shard
  <2>2. \A p \in Agents : h \notin ToSet(staged[p][ShardOf(h)])
    BY DEF Unwritten
  <2>3. ASSUME NEW v \in Agents, h \in taken[v] PROVE FALSE
    <3>1. pc[v] = "write"
      BY <2>3 DEF InItsShard
    <3>2. v # w
      BY <3>1 DEF Execute
    <3>3. QED  BY <2>3, <3>1, <3>2 DEF Unwritten, InRegister
  <2>4. QED  BY <2>1, <2>2, <2>3 DEF Stored
<1>2. ASSUME NEW d \in Docs, LetThrough(d), hash[d] = h PROVE h \in Explained
  BY <1>1, <1>2 DEF ThroughIsStored, Explained
<1>3. QED  BY <1>1, <1>2

LEMMA NewIsNewStep ==
  ASSUME Typed, OwnTasks, InItsShard, ThroughIsStored, AloneWithHash,
         AbsentIsRegistered, NewIsNew, NEW w \in Agents, Step(w)
  PROVE  NewIsNew'
<1> SUFFICES ASSUME NEW v \in Agents, (New(v))', NEW h, h = (Hash(v))'
             PROVE  \/ h \in Explained'
                    \/ ~(Stored(h))' /\ \A d \in Docs : (LetThrough(d))' => hash'[d] # h
  BY DEF NewIsNew, Stored, ShardOf
<1>1. /\ hash' = hash /\ backend' = backend /\ Explained \subseteq Explained'
      /\ overlapped' \subseteq Explained' /\ mixed' \subseteq Explained'
      /\ \A u : (Home(u))' = Home(u)
  BY HistoryGrows DEF Explained, Home
<1>2. Others(w)
  BY StepThreads
<1>3. pc'[v] \in {"register", "fetch"} /\ pc'[v] \in Executed
  BY DEF New, Executed, InRegister
<1>4. CASE v # w
  <2>1. /\ pc'[v] = pc[v] /\ h = Hash(v) /\ (Shard(v))' = Shard(v) /\ AtWork(v)
        /\ pc[v] \in Executed
    BY <1>1, <1>2, <1>3, <1>4, OthersSame DEF AtWork
  <2>2. h \in Hashes /\ Home(v) \in Agents /\ Shard(v) \in ShardIds
    BY <2>1, AtDocument
  <2>3. CASE New(v)
    <3>1. h \in Explained \/ (~Stored(h) /\ \A d \in Docs : LetThrough(d) => hash[d] # h)
      BY <2>1, <2>3 DEF NewIsNew
    <3>2. QED  BY <1>1, <1>4, <2>1, <2>2, <3>1, StaysNew
  <2>4. CASE ~New(v)
    <3>1. /\ pc[v] = "fetch" /\ cursor'[Home(v)][Shard(v)] # cursor[Home(v)][Shard(v)]
          /\ cursor'[Home(v)][Shard(v)] = [hash |-> {h}, row |-> FALSE]
      BY <1>1, <2>1, <2>4 DEF New
    <3>2. CASE Execute(w)
      <4>1. AtWork(w) /\ Home(w) \in Agents /\ Shard(w) \in ShardIds
        BY <3>2, AtDocument DEF Execute, AtWork
      <4>2. cursor' = [cursor EXCEPT ![Home(w)][Shard(w)] =
              [hash |-> {Hash(w)}, row |-> Hash(w) \in table[Shard(w)]]]
        BY <3>2 DEF Execute
      <4>3. Home(v) = Home(w) /\ Shard(v) = Shard(w)
        BY <2>2, <3>1, <4>1, <4>2 DEF Typed
      <4>4. cursor'[Home(v)][Shard(v)].hash = {Hash(w)}
        BY <4>1, <4>2, <4>3 DEF Typed
      <4>5. h = Hash(w)
        BY <3>1, <4>4
      <4>6. h \in overlapped'
        BY <1>4, <2>1, <3>2, <4>5, NoticedWith DEF Execute
      <4>7. QED  BY <1>1, <4>6
    <3>3. CASE Fetch(w)
      <4>1. cursor' = [cursor EXCEPT ![Home(w)][Shard(w)] = Nothing]
        BY <3>3 DEF Fetch
      <4>2. cursor'[Home(v)][Shard(v)] = Nothing
        BY <2>2, <3>1, <3>3, <4>1, FetchStep DEF Typed
      <4>3. Nothing.hash = {}
        BY DEF Nothing
      <4>4. QED  BY <3>1, <4>2, <4>3
    <3>4. CASE cursor' = cursor
      BY <3>1, <3>4
    <3>5. QED
      BY <3>2, <3>3, <3>4
         DEF Step, TakeBatch, Raise, CheckKnown, CheckUnknown, Register, Flush, Write,
             WriteFails, indexVars
  <2>5. QED  BY <2>3, <2>4
<1>5. CASE v = w
  <2>1. /\ h = Hash(w) /\ h \in Hashes /\ AtWork(w)
        /\ pc[w] \in Executed \/ Execute(w) \/ CheckUnknown(w)
    BY <1>3, <1>5, ExecutedStep
  <2>2. Home(w) \in Agents /\ Shard(w) \in ShardIds
    BY <2>1, AtDocument
  <2>3. CASE Fetch(w)
    <3>1. CASE Result(w).hash # {h}
      BY <1>1, <2>1, <2>3, <3>1, FetchStep
    <3>2. CASE Result(w).hash = {h}
      <4>1. ~Result(w).row
        <5>1. ~Decided(w, FALSE)
          BY <1>3, <1>5, <2>1, DecidedThreads
        <5>2. QED  BY <2>3, <5>1 DEF Fetch, Result
      <4>2. Result(w) \in [hash : SUBSET Hashes, row : BOOLEAN]
        BY <2>2 DEF Result, Typed
      <4>3. Result(w) = [hash |-> {h}, row |-> FALSE]
        BY <3>2, <4>1, <4>2
      <4>4. New(w)
        BY <2>1, <2>3, <4>3 DEF New, Result, Fetch
      <4>5. \/ h \in Explained
            \/ ~Stored(h) /\ \A d \in Docs : LetThrough(d) => hash[d] # h
        BY <2>1, <4>4 DEF NewIsNew
      <4>6. ~Register(w) /\ pc[w] \in Executed
        BY <2>3 DEF Fetch, Register, Executed
      <4>7. QED  BY <1>1, <2>1, <4>5, <4>6, StaysNew
    <3>3. QED  BY <3>1, <3>2
  <2>4. CASE CheckUnknown(w)
    <3>1. pc' = [pc EXCEPT ![w] = "register"] /\ Note(w)
          /\ cached[Home(w)][Hash(w)] = "absent"
      BY <1>3, <1>5, <2>4 DEF CheckUnknown, Typed
    <3>2. PICK u \in Agents : pc[u] = "register" /\ Hash(u) = Hash(w)
      BY <2>1, <2>2, <3>1 DEF AbsentIsRegistered
    <3>3. u # w
      BY <2>4, <3>2 DEF CheckUnknown
    <3>4. h \in overlapped'
      BY <2>1, <3>1, <3>2, <3>3, NoticedWith DEF Executed, InRegister
    <3>5. QED  BY <1>1, <3>4
  <2>5. CASE Execute(w)
    <3>1. cursor' = [cursor EXCEPT ![Home(w)][Shard(w)] =
            [hash |-> {Hash(w)}, row |-> Hash(w) \in table[Shard(w)]]]
      BY <2>5 DEF Execute
    <3>2. cursor'[Home(w)][Shard(w)].row = (Hash(w) \in table[Shard(w)])
      BY <2>2, <3>1 DEF Typed
    <3>3. pc'[w] = "fetch" /\ task' = task /\ at' = at
      BY <2>5 DEF Execute, Typed
    <3>4. (Shard(w))' = Shard(w)
      BY <1>1, <3>3 DEF Shard, Hash, Doc, ShardOf
    <3>5. cursor'[Home(w)][Shard(w)] = [hash |-> {h}, row |-> FALSE]
      BY <1>1, <1>5, <3>3, <3>4 DEF New
    <3>6. h \notin table[Shard(w)]
      <4>1. ~cursor'[Home(w)][Shard(w)].row
        BY <3>5
      <4>2. QED  BY <2>1, <3>2, <4>1
    <3>7. CASE Unwritten(w, h)
      BY <1>1, <2>1, <2>5, <3>7 DEF Execute, Note
    <3>8. CASE ~Unwritten(w, h)
      <4>1. \/ h \in Explained
            \/ ~Stored(h) /\ \A d \in Docs : LetThrough(d) => hash[d] # h
        BY <2>1, <2>5, <3>6, <3>8, ExecuteFindsNew
      <4>2. ~Register(w)
        BY <2>5 DEF Execute, Register
      <4>3. (Stored(h))' => Stored(h)
        BY <2>1, <4>2, StoredStep
      <4>4. \A d \in Docs : (LetThrough(d))' => LetThrough(d)
        BY <4>2, StepEffect
      <4>5. QED  BY <1>1, <4>1, <4>3, <4>4
    <3>9. QED  BY <3>7, <3>8
  <2>6. CASE Register(w)
    <3>1. Decided(w, TRUE) \/ pc' = [pc EXCEPT ![w] = "flush"]
      BY <2>6 DEF Register
    <3>2. pc'[w] \in {"idle", "check", "flush"}
      BY <2>1, <3>1, DecidedThreads DEF Typed
    <3>3. QED  BY <1>3, <1>5, <3>2
  <2>7. CASE Flush(w) \/ Write(w) \/ WriteFails(w)
    <3>1. pc'[w] \in {"idle", "check", "write"}
      BY <2>1, <2>7, DecidedThreads DEF Flush, Write, WriteFails, Fail, Typed
    <3>2. QED  BY <1>3, <1>5, <3>1
  <2>8. QED
    BY <2>1, <2>3, <2>4, <2>5, <2>6, <2>7
       DEF Step, TakeBatch, Raise, CheckKnown, Executed, InRegister
<1>6. QED  BY <1>4, <1>5

LEMMA OnceThroughStep ==
  ASSUME Typed, OwnTasks, NewIsNew, OnceThrough, NEW w \in Agents, Step(w)
  PROVE  OnceThrough'
<1> SUFFICES ASSUME NEW d \in Docs, NEW e \in Docs, d # e, (LetThrough(d))',
                    (LetThrough(e))', hash'[d] = hash'[e]
             PROVE  hash'[d] \in Explained'
  BY DEF OnceThrough
<1>1. hash' = hash /\ Explained \subseteq Explained'
  BY HistoryGrows
<1>2. ASSUME NEW a \in Docs, NEW b \in Docs, Register(w), a = Doc(w), LetThrough(b),
             hash[a] = hash[b]
      PROVE  hash[a] \in Explained
  BY <1>2 DEF NewIsNew, New, Register, Hash
<1>3. CASE LetThrough(d) /\ LetThrough(e)
  BY <1>1, <1>3 DEF OnceThrough
<1>4. LetThrough(d) \/ (Register(w) /\ d = Doc(w))
  BY StepEffect
<1>5. LetThrough(e) \/ (Register(w) /\ e = Doc(w))
  BY StepEffect
<1>6. QED  BY <1>1, <1>2, <1>3, <1>4, <1>5

\* Steps that only read what the last three invariants are about.
LEMMA QuietStep ==
  ASSUME Typed,
         UNCHANGED <<hash, backend, earlier, cached, cursor, threadVars, admitted, mixed,
                     overlapped>>,
         lost \subseteq lost', \A h \in Hashes : (Stored(h))' => Stored(h)
  PROVE  /\ AloneWithHash => AloneWithHash'
         /\ AbsentIsRegistered => AbsentIsRegistered'
         /\ OwnTasks /\ NewIsNew => NewIsNew'
         /\ OnceThrough => OnceThrough'
<1>1. Explained \subseteq Explained'
  BY DEF Explained
<1>2. \A w : /\ (Hash(w))' = Hash(w) /\ (Home(w))' = Home(w) /\ (Shard(w))' = Shard(w)
             /\ (New(w))' = New(w) /\ (AtWork(w))' = AtWork(w)
  BY DEF Hash, Doc, Home, Shard, ShardOf, New, AtWork, threadVars
<1>3. \A d : (LetThrough(d))' <=> LetThrough(d)
  BY DEF LetThrough, AtWork, Doc, threadVars
<1>4. AloneWithHash => AloneWithHash'
  BY <1>1, <1>2 DEF AloneWithHash, threadVars, Executed, InRegister
<1>5. AbsentIsRegistered => AbsentIsRegistered'
  BY <1>2 DEF AbsentIsRegistered, threadVars, Hashes, ToSet
<1>6. OnceThrough => OnceThrough'
  BY <1>1, <1>3 DEF OnceThrough
<1>7. ASSUME OwnTasks, NewIsNew, NEW w \in Agents, (New(w))', NEW h, h = (Hash(w))'
      PROVE  \/ h \in Explained'
             \/ ~(Stored(h))' /\ \A d \in Docs : (LetThrough(d))' => hash'[d] # h
  <2>1. New(w) /\ h = Hash(w) /\ AtWork(w)
    BY <1>2, <1>7 DEF New, AtWork
  <2>2. h \in Hashes
    BY <1>7, <2>1, AtDocument
  <2>3. h \in Explained \/ (~Stored(h) /\ \A d \in Docs : LetThrough(d) => hash[d] # h)
    BY <1>7, <2>1 DEF NewIsNew
  <2>4. QED  BY <1>1, <1>3, <2>2, <2>3
<1>8. OwnTasks /\ NewIsNew => NewIsNew'
  BY <1>7 DEF NewIsNew, Stored, ShardOf
<1>9. QED  BY <1>4, <1>5, <1>6, <1>8

Lookups == AloneWithHash /\ AbsentIsRegistered /\ NewIsNew /\ OnceThrough

LEMMA LookupsStep ==
  Typed /\ OwnTasks /\ InItsShard /\ ThroughIsStored /\ Lookups /\ [Next]_vars => Lookups'
<1> SUFFICES ASSUME Typed, OwnTasks, InItsShard, ThroughIsStored, Lookups, [Next]_vars
             PROVE  Lookups'
  OBVIOUS
<1>1. ASSUME NEW w \in Agents, Step(w) PROVE Lookups'
  BY <1>1, AloneWithHashStep, AbsentStep, NewIsNewStep, OnceThroughStep DEF Lookups
<1>2. ASSUME ApplyDoc PROVE Lookups'
  <2>1. \A h \in Hashes : (Stored(h))' => Stored(h)
    BY <1>2 DEF ApplyDoc, Stored, ShardOf, indexVars, threadVars
  <2>2. QED  BY <1>2, <2>1, QuietStep DEF ApplyDoc, Lookups, indexVars, histVars
<1>3. ASSUME NEW p \in Processes, Shutdown(p) PROVE Lookups'
  <2>1. \A h \in Hashes : (Stored(h))' => Stored(h)
    BY <1>3, StoredShutdown
  <2>2. /\ UNCHANGED <<hash, backend, earlier, cached, cursor, threadVars, admitted,
                       mixed, overlapped>>
        /\ lost \subseteq lost'
    BY <1>3 DEF Shutdown
  <2>3. QED  BY <2>1, <2>2, QuietStep DEF Lookups
<1>4. CASE UNCHANGED vars
  <2>1. \A h \in Hashes : (Stored(h))' => Stored(h)
    BY <1>4 DEF vars, Stored, ShardOf, indexVars, threadVars
  <2>2. QED
    BY <1>4, <2>1, QuietStep DEF vars, Lookups, indexVars, mergeVars, histVars
<1>5. QED  BY <1>1, <1>2, <1>3, <1>4 DEF Next

LEMMA LookupsInit ==
  Init => ThroughIsStored /\ Lookups /\ EarlierIsKnown
<1> SUFFICES ASSUME Init PROVE ThroughIsStored /\ Lookups /\ EarlierIsKnown
  OBVIOUS
<1>1. \A w \in Agents : pc[w] = "idle"
  BY DEF Init
<1>2. \A d : ~LetThrough(d)
  BY <1>1 DEF Init, LetThrough, AtWork
<1>3. \A p \in Agents, h \in Hashes : cached[p][h] = "unknown"
  BY DEF Init
<1>4. \A p \in Agents, s \in ShardIds : cursor[p][s].hash = {}
  BY DEF Init, Nothing
<1>5. \A h \in Kept : h \in table[ShardOf(h)]
  <2>1. Kept \subseteq Nat
    BY Ground DEF Kept, Init
  <2>2. QED  BY <2>1, Ground DEF Kept, Init
<1>6. Lookups
  BY <1>1, <1>2, <1>3
     DEF Lookups, AloneWithHash, AbsentIsRegistered, NewIsNew, OnceThrough, New,
         Executed, InRegister
<1>7. EarlierIsKnown
  BY <1>1, <1>2, <1>4, <1>5 DEF EarlierIsKnown, InRegister
<1>8. QED  BY <1>2, <1>6, <1>7 DEF ThroughIsStored
--------------------------------------------------------------------------------
(***************************************************************************)
(* What the merge before this one has written.                              *)
(***************************************************************************)
LEMMA EarlierIsKnownStep ==
  /\ Typed /\ OwnTasks /\ InItsShard /\ AbsentIsRegistered /\ EarlierIsKnown
  /\ [Next]_vars
  => EarlierIsKnown'
<1> SUFFICES ASSUME Typed, OwnTasks, InItsShard, AbsentIsRegistered, EarlierIsKnown,
                    [Next]_vars
             PROVE  EarlierIsKnown'
  OBVIOUS
<1>0. Kept \subseteq Hashes
  BY Ground DEF Kept, Typed
<1>1. ASSUME NEW w \in Agents, Step(w) PROVE EarlierIsKnown'
  <2>1. /\ hash' = hash /\ mixed \subseteq mixed' /\ Kept' = Kept
    BY <1>1, HistoryGrows DEF Kept, ShardOf
  <2>2. ASSUME NEW h \in Kept PROVE h \in table'[ShardOf(h)]
    BY <1>0, <1>1, StoredStep DEF EarlierIsKnown
  <2>3. ASSUME NEW p \in Agents, NEW s \in ShardIds, NEW h \in Kept,
               cursor'[p][s].hash = {h}
        PROVE  cursor'[p][s].row
    <3>1. CASE Execute(w)
      <4>1. AtWork(w)
        BY <3>1 DEF Execute, AtWork
      <4>2. Home(w) \in Agents /\ Shard(w) \in ShardIds
        BY <4>1, AtDocument
      <4>3. cursor' = [cursor EXCEPT ![Home(w)][Shard(w)] =
              [hash |-> {Hash(w)}, row |-> Hash(w) \in table[Shard(w)]]]
        BY <3>1 DEF Execute
      <4>4. CASE p = Home(w) /\ s = Shard(w)
        <5>1. /\ cursor'[p][s].hash = {Hash(w)}
              /\ cursor'[p][s].row = (Hash(w) \in table[Shard(w)])
          BY <4>2, <4>3, <4>4 DEF Typed
        <5>2. h = Hash(w)
          BY <2>3, <5>1
        <5>3. h \in table[Shard(w)]
          BY <5>2 DEF EarlierIsKnown, Shard
        <5>4. QED  BY <5>1, <5>2, <5>3
      <4>5. CASE ~(p = Home(w) /\ s = Shard(w))
        <5>1. cursor'[p][s] = cursor[p][s]
          BY <4>2, <4>3, <4>5 DEF Typed
        <5>2. QED  BY <2>3, <5>1 DEF EarlierIsKnown
      <4>6. QED  BY <4>4, <4>5
    <3>2. CASE Fetch(w)
      <4>1. cursor' = [cursor EXCEPT ![Home(w)][Shard(w)] = Nothing]
        BY <3>2 DEF Fetch
      <4>2. cursor'[p][s] \in {Nothing, cursor[p][s]}
        BY <3>2, <4>1, FetchStep DEF Typed
      <4>3. Nothing.hash = {}
        BY DEF Nothing
      <4>4. cursor'[p][s] = cursor[p][s]
        BY <2>3, <4>2, <4>3
      <4>5. QED  BY <2>3, <4>4 DEF EarlierIsKnown
    <3>3. CASE cursor' = cursor
      BY <2>3, <3>3 DEF EarlierIsKnown
    <3>4. QED
      BY <1>1, <3>1, <3>2, <3>3
         DEF Step, TakeBatch, Raise, CheckKnown, CheckUnknown, Register, Flush, Write,
             WriteFails, indexVars
  <2>4. ASSUME NEW v \in Agents, pc'[v] \in InRegister, NEW h \in Kept, (Hash(v))' = h
        PROVE  h \in mixed'
    <3>1. CASE v # w
      <4>1. pc'[v] = pc[v] /\ (Hash(v))' = Hash(v)
        BY <1>1, <2>1, <3>1, StepThreads, OthersSame
      <4>2. QED  BY <2>1, <2>4, <4>1 DEF EarlierIsKnown
    <3>2. CASE v = w
      <4>1. /\ (Hash(w))' = Hash(w) /\ AtWork(w)
            /\ pc[w] \in Executed \/ Execute(w) \/ CheckUnknown(w)
        BY <1>1, <2>4, <3>2, ExecutedStep DEF Executed
      <4>2. CASE pc[w] \in InRegister
        BY <2>1, <2>4, <3>2, <4>1, <4>2 DEF EarlierIsKnown
      <4>3. CASE Execute(w)
        BY <2>4, <3>2, <4>3 DEF Execute, Typed, InRegister
      <4>4. CASE CheckUnknown(w)
        <5>1. cached[Home(w)][Hash(w)] = "absent"
          BY <2>4, <3>2, <4>4 DEF CheckUnknown, Typed, InRegister
        <5>2. PICK u \in Agents : pc[u] = "register" /\ Hash(u) = Hash(w)
          BY <4>1, <5>1, AtDocument DEF AbsentIsRegistered
        <5>3. QED  BY <2>1, <2>4, <3>2, <4>1, <5>2 DEF EarlierIsKnown, InRegister
      <4>5. CASE pc[w] = "fetch"
        <5>1. Fetch(w)
          BY <1>1, <4>5 DEF Step, TakeBatch, Raise, CheckKnown, CheckUnknown, Execute,
             Register, Flush, Write, WriteFails
        <5>2. ~Result(w).row
          <6>1. ~Decided(w, FALSE)
            BY <2>4, <3>2, <4>1, DecidedThreads DEF InRegister
          <6>2. QED  BY <5>1, <6>1 DEF Fetch, Result
        <5>3. Result(w).hash # {h}
          BY <5>1, <5>2, FetchStep DEF EarlierIsKnown, Result
        <5>4. QED  BY <2>4, <3>2, <4>1, <5>1, <5>3, FetchStep
      <4>6. QED  BY <4>1, <4>2, <4>3, <4>4, <4>5 DEF Executed
    <3>3. QED  BY <3>1, <3>2
  <2>5. ASSUME NEW d \in Docs, (LetThrough(d))', hash[d] \in Kept
        PROVE  hash[d] \in mixed'
    <3>1. CASE LetThrough(d)
      BY <2>1, <2>5, <3>1 DEF EarlierIsKnown
    <3>2. CASE Register(w) /\ d = Doc(w)
      <4>1. pc[w] \in InRegister /\ Hash(w) = hash[d]
        BY <3>2 DEF Register, InRegister, Hash
      <4>2. QED  BY <2>1, <2>5, <4>1 DEF EarlierIsKnown
    <3>3. QED  BY <1>1, <2>5, <3>1, <3>2, StepEffect
  <2>6. QED
    BY <2>1, <2>2, <2>3, <2>4, <2>5 DEF EarlierIsKnown, ShardOf, InRegister, ShardIds
<1>2. ASSUME UNCHANGED <<hash, earlier, cursor, threadVars, admitted, mixed>>,
             \A h \in Hashes : h \in table[ShardOf(h)] => h \in table'[ShardOf(h)]
      PROVE  EarlierIsKnown'
  <2>1. Kept' = Kept /\ \A w : (Hash(w))' = Hash(w)
    BY <1>2 DEF Kept, ShardOf, Hash, Doc, threadVars
  <2>2. \A d : (LetThrough(d))' <=> LetThrough(d)
    BY <1>2 DEF LetThrough, AtWork, Doc, threadVars
  <2>3. QED
    BY <1>0, <1>2, <2>1, <2>2
       DEF EarlierIsKnown, ShardOf, threadVars, InRegister, ShardIds
<1>3. ASSUME ApplyDoc PROVE EarlierIsKnown'
  BY <1>2, <1>3 DEF ApplyDoc, indexVars, histVars
<1>4. ASSUME NEW p \in Processes, Shutdown(p) PROVE EarlierIsKnown'
  <2>1. UNCHANGED <<hash, earlier, cursor, threadVars, admitted, mixed>>
    BY <1>4 DEF Shutdown
  <2>2. QED  BY <1>2, <1>4, <2>1, StoredShutdown
<1>5. CASE UNCHANGED vars
  BY <1>2, <1>5 DEF vars, indexVars, mergeVars, histVars
<1>6. QED  BY <1>1, <1>3, <1>4, <1>5 DEF Next

LEMMA OnceFromInvariants ==
  /\ Typed /\ OwnTasks /\ InItsShard /\ ThroughIsStored /\ Lookups /\ EarlierIsKnown
  => LetThroughOnce
<1> SUFFICES ASSUME Typed, OwnTasks, InItsShard, ThroughIsStored, Lookups, EarlierIsKnown
             PROVE  LetThroughOnce
  OBVIOUS
<1>1. admitted \subseteq Docs /\ \A d \in admitted : LetThrough(d)
  BY DEF Typed, LetThrough
<1>2. ASSUME NEW d \in admitted, NEW e \in admitted, d # e, hash[d] = hash[e]
      PROVE  hash[d] \in lost \cup overlapped \cup mixed
  BY <1>1, <1>2 DEF Lookups, OnceThrough, Explained
<1>3. ASSUME NEW d \in admitted, hash[d] \in earlier
      PROVE  hash[d] \in mixed \cup {h \in earlier : ShardOf(h) # h % OldShards}
  BY <1>1, <1>3 DEF EarlierIsKnown, Kept
<1>4. ASSUME open = {}, NEW d \in admitted
      PROVE  hash[d] \in lost \cup table[ShardOf(hash[d])]
  <2>1. Processes # {} /\ AllDone
    <3>1. Home(Main) \in Processes
      BY Ground DEF Processes
    <3>2. QED  BY <1>4, <3>1 DEF InItsShard
  <2>2. hash[d] \in Hashes /\ ShardOf(hash[d]) \in ShardIds
    BY <1>1, Ground DEF Typed
  <2>3. \A p \in Agents : ToSet(staged[p][ShardOf(hash[d])]) = {}
    BY <1>4, <2>2, EmptySequence DEF InItsShard
  <2>4. ASSUME NEW w \in Agents, hash[d] \in taken[w] PROVE FALSE
    <3>1. AtWork(w)
      BY <2>4 DEF InItsShard, AtWork
    <3>2. QED  BY <2>1, <3>1 DEF OwnTasks, AllDone
  <2>5. hash[d] \in lost \/ Stored(hash[d])
    BY <1>1 DEF ThroughIsStored
  <2>6. QED  BY <2>3, <2>4, <2>5 DEF Stored
<1>5. QED  BY <1>2, <1>3, <1>4 DEF LetThroughOnce

\* A text is let through once, in this merge and in the one after it, for any
\* interleaving of workers (exact.py, exact_shard.py), except for the reasons that
\* the property names.
THEOREM Once == Spec => []LetThroughOnce
<1>1. Init => ThroughIsStored /\ Lookups /\ EarlierIsKnown
  BY LookupsInit
<1>2. /\ Typed /\ OwnTasks /\ InItsShard
      /\ ThroughIsStored /\ Lookups /\ EarlierIsKnown /\ [Next]_vars
      => (ThroughIsStored /\ Lookups /\ EarlierIsKnown)'
  BY ThroughIsStoredStep, LookupsStep, EarlierIsKnownStep DEF Lookups
<1>3. /\ Typed /\ OwnTasks /\ InItsShard
      /\ ThroughIsStored /\ Lookups /\ EarlierIsKnown
      => LetThroughOnce
  BY OnceFromInvariants
<1>4. QED  BY <1>1, <1>2, <1>3, IndexInvariance, PTL DEF Spec

================================================================================
