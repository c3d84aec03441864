------------------------------ MODULE StoreProofs ------------------------------
(***************************************************************************)
(* Proofs about the two modules of src/indw/store.                          *)
(*                                                                          *)
(* First the publication of a corpus by one run at a time, for any sources, *)
(* caps and numbers of starts, crashes and rollbacks (CorpusRun).  Then the *)
(* packing of training rows, for any sizes of rows, documents and chunks    *)
(* and any shards (PackedStream).                                           *)
(***************************************************************************)
EXTENDS CorpusRun, PackedStream, SequenceTheorems, TLAPS

(***************************************************************************)
(* CorpusRun.                                                               *)
(***************************************************************************)

\* Two runs on one work directory break all that follows.
OneRun == \A p, q \in Runs : p = q

Labels == {"down", "download", "fetch", "merge", "save", "copy", "copying",
           "describe", "open", "write", "publish", "publishing"}

Tables ==
  /\ pc \in [Runs -> Labels]
  /\ job = [p \in Runs |-> job[p]]
  /\ complete \in BOOLEAN /\ interrupted \in BOOLEAN
  /\ raw \in [Sources -> Int]
  /\ merged \in [Sources -> Nat] /\ lost \in [Sources -> Nat]

\* Versions are given in a row, up to Base.
InRow == \E k \in 0..Base : Versions = 1..k

\* What the text of a manifest says of sources that were not downloaded late.
Describes(text) ==
  \A s \in Sources \ text.late :
    text.filtered[s] + text.lost[s] >= text.raw[s]

CompleteIsMerged ==
  complete => \A s \in Sources \ late : merged[s] + lost[s] >= raw[s]

\* What a run that saves a manifest can rely on, and what it has done.
JobInOrder(p) ==
  /\ Saving(p) => complete
  /\ pc[p] \in {"copy", "copying", "describe", "open"}
     => job[p].version = next_version
  /\ pc[p] \in {"describe", "open", "write", "publish", "publishing"}
     => pool = [rows |-> merged]
  /\ pc[p] \in {"open", "write", "publish", "publishing"}
     => /\ job[p].text # Torn
        /\ job[p].text.filtered = merged /\ Describes(job[p].text)
  /\ pc[p] = "write"
     => job[p].version \in Versions /\ manifests[job[p].version] = Torn
  /\ pc[p] \in {"publish", "publishing"}
     => job[p].version \in Versions /\ manifests[job[p].version] = job[p].text
  /\ pc[p] \in {"write", "publish", "publishing"} /\ Base \notin Versions
     => job[p].version = LastName

\* The inductive invariant.
IInv ==
  /\ Tables /\ InRow /\ CompleteIsMerged
  /\ \A p \in Runs : JobInOrder(p)
  /\ PublishedIsMerged /\ PublishedTogether
--------------------------------------------------------------------------------
(***************************************************************************)
(* The order of the file names.                                             *)
(***************************************************************************)
LEMMA DigitsBelowBase == ASSUME NEW n \in 0..Base, n < Base
                         PROVE  Digits[n] = <<n>>
BY DigitsAssumption

LEMMA DigitsOfBase ==
  /\ Len(Digits[Base]) = 2 /\ DOMAIN Digits[Base] = 1..2
  /\ Digits[Base][1] = 1
<1>1. Base \div Base = 1 /\ Base % Base = 0
  BY BaseAssumption
<1>2. Digits[1] = <<1>>
  BY DigitsBelowBase, BaseAssumption
<1>3. Digits[Base] = Append(Digits[Base \div Base], Base % Base)
  <2>1. Base \in 0..Base /\ ~(Base < Base)
    BY BaseAssumption
  <2>2. QED  BY <2>1, DigitsAssumption
<1>4. Digits[Base] = Append(<<1>>, 0)
  BY <1>1, <1>2, <1>3
<1>5. QED  BY <1>4

\* Below Base, the names are in the order of the numbers.
LEMMA NamesBelowBase ==
  ASSUME NEW m \in 1..(Base - 1), NEW n \in 1..(Base - 1)
  PROVE  NameBefore(m, n) <=> m < n
<1>1. Digits[m] = <<m>> /\ Digits[n] = <<n>>
  BY DigitsBelowBase, BaseAssumption
<1>2. /\ Len(<<m>>) = 1 /\ Len(<<n>>) = 1
      /\ DOMAIN <<m>> = {1} /\ DOMAIN <<n>> = {1}
      /\ <<m>>[1] = m /\ <<n>>[1] = n
  OBVIOUS
<1>3. ASSUME m < n PROVE NameBefore(m, n)
  <2>1. \A j \in 1..(1 - 1) : <<m>>[j] = <<n>>[j]
    OBVIOUS
  <2>2. 1 \in DOMAIN <<m>> \cap DOMAIN <<n>> /\ <<m>>[1] < <<n>>[1]
    BY <1>2, <1>3
  <2>3. QED  BY <1>1, <2>1, <2>2 DEF NameBefore
<1>4. ASSUME NameBefore(m, n) PROVE m < n
  BY <1>1, <1>2, <1>4 DEF NameBefore
<1>5. QED  BY <1>3, <1>4

\* Base itself comes between 1 and 2.
LEMMA NameOfBase ==
  ASSUME NEW n \in 2..(Base - 1)
  PROVE  NameBefore(Base, n) /\ ~NameBefore(n, Base) /\ NameBefore(1, Base)
<1>1. Digits[n] = <<n>> /\ Digits[1] = <<1>>
  BY DigitsBelowBase, BaseAssumption
<1>2. /\ DOMAIN <<n>> = {1} /\ Len(<<n>>) = 1 /\ <<n>>[1] = n
      /\ DOMAIN <<1>> = {1} /\ Len(<<1>>) = 1 /\ <<1>>[1] = 1
  OBVIOUS
<1>3. /\ DOMAIN Digits[Base] = 1..2 /\ Len(Digits[Base]) = 2
      /\ Digits[Base][1] = 1
  BY DigitsOfBase
<1>4. NameBefore(Base, n)
  <2>1. \A j \in 1..(1 - 1) : Digits[Base][j] = Digits[n][j]
    OBVIOUS
  <2>2. 1 \in DOMAIN Digits[Base] \cap DOMAIN Digits[n] /\ 1 < n
    BY <1>1, <1>2, <1>3
  <2>3. QED  BY <1>1, <1>2, <1>3, <2>1, <2>2 DEF NameBefore
<1>5. ~NameBefore(n, Base)
  BY <1>1, <1>2, <1>3 DEF NameBefore
<1>6. NameBefore(1, Base)
  BY <1>1, <1>2, <1>3 DEF NameBefore
<1>7. QED  BY <1>4, <1>5, <1>6

\* The last name is the last version's, unless it has two digits.
LEMMA LastOfRow ==
  ASSUME NEW k \in 1..Base, NEW V, V = 1..k
  PROVE  LastOf(V) = IF k < Base THEN k ELSE Base - 1
<1> DEFINE Top(v) == v \in V /\ \A w \in V \ {v} : NameBefore(w, v)
<1>1. CASE k < Base
  <2>1. Top(k)
    BY <1>1, NamesBelowBase, BaseAssumption
  <2>2. ASSUME NEW v \in V, v # k PROVE ~Top(v)
    BY <1>1, <2>2, NamesBelowBase, BaseAssumption
  <2>3. QED  BY <1>1, <2>1, <2>2 DEF LastOf
<1>2. CASE k = Base
  <2>1. Top(Base - 1)
    <3>1. Base - 1 \in V
      BY <1>2, BaseAssumption
    <3>2. ASSUME NEW w \in V \ {Base - 1} PROVE NameBefore(w, Base - 1)
      <4>1. CASE w = Base
        BY <4>1, NameOfBase, BaseAssumption
      <4>2. CASE w < Base
        BY <1>2, <3>2, <4>2, NamesBelowBase, BaseAssumption
      <4>3. QED  BY <1>2, <4>1, <4>2, BaseAssumption
    <3>3. QED  BY <3>1, <3>2
  <2>2. ASSUME NEW v \in V, v # Base - 1 PROVE ~Top(v)
    <3>1. CASE v = Base
      BY <2>1, <2>2, <3>1, NameOfBase, BaseAssumption
    <3>2. CASE v < Base
      BY <1>2, <2>1, <2>2, <3>2, NamesBelowBase, BaseAssumption
    <3>3. QED  BY <1>2, <3>1, <3>2, BaseAssumption
  <2>3. QED  BY <1>2, <2>1, <2>2, BaseAssumption DEF LastOf
<1>3. QED  BY <1>1, <1>2, BaseAssumption

LEMMA LastNameInRow ==
  ASSUME NEW k \in 1..Base, Versions = 1..k
  PROVE  LastName = IF k < Base THEN k ELSE Base - 1
BY LastOfRow DEF LastName

LEMMA LastNameInRowNext ==
  ASSUME NEW k \in 1..Base, Versions' = 1..k
  PROVE  LastName' = IF k < Base THEN k ELSE Base - 1
BY LastOfRow DEF LastName

\* The number a save takes is new, or Base.
LEMMA NextVersionIsNew ==
  ASSUME InRow
  PROVE  /\ next_version \in 1..Base
         /\ next_version # Base => next_version \notin Versions
         /\ Base \notin Versions =>
              Versions \cup {next_version} = 1..next_version
         /\ Base \in Versions => next_version = Base
         /\ \E k \in 1..Base : Versions \cup {next_version} = 1..k
<1>1. PICK k \in 0..Base : Versions = 1..k
  BY DEF InRow
<1>2. CASE k = 0
  BY <1>1, <1>2, BaseAssumption DEF next_version
<1>3. CASE k > 0
  <2>1. LastName = IF k < Base THEN k ELSE Base - 1
    BY <1>1, <1>3, LastNameInRow, BaseAssumption
  <2>2. next_version = IF k < Base THEN k + 1 ELSE Base
    BY <1>1, <1>3, <2>1, BaseAssumption DEF next_version
  <2>3. Base \in Versions <=> k = Base
    BY <1>1, BaseAssumption
  <2>4. CASE k < Base
    BY <1>1, <1>3, <2>2, <2>3, <2>4, BaseAssumption
  <2>5. CASE k = Base
    BY <1>1, <1>3, <2>2, <2>3, <2>5, BaseAssumption
  <2>6. QED  BY <2>4, <2>5, BaseAssumption
<1>4. QED  BY <1>2, <1>3, BaseAssumption
--------------------------------------------------------------------------------
(***************************************************************************)
(* Every step preserves the invariant.                                      *)
(***************************************************************************)
LEMMA InitIInv == Init => IInv
<1> SUFFICES ASSUME Init PROVE IInv
  OBVIOUS
<1>1. Versions = {} /\ Whole = {}
  BY DEF Init, Versions, Whole
<1>2. Tables
  <2>1. raw \in [Sources -> Int]
    <3>1. Missing \in Int
      BY DEF Missing
    <3>2. QED  BY <3>1 DEF Init
  <2>2. /\ pc \in [Runs -> Labels] /\ job = [p \in Runs |-> job[p]]
        /\ merged \in [Sources -> Nat] /\ lost \in [Sources -> Nat]
        /\ complete \in BOOLEAN /\ interrupted \in BOOLEAN
    BY DEF Init, Labels
  <2>3. QED  BY <2>1, <2>2 DEF Tables
<1>3. InRow
  <2>1. 0 \in 0..Base /\ 1..0 = {}
    BY BaseAssumption
  <2>2. QED  BY <1>1, <2>1 DEF InRow
<1>4. CompleteIsMerged /\ \A p \in Runs : JobInOrder(p)
  BY DEF Init, CompleteIsMerged, JobInOrder, Saving
<1>5. PublishedIsMerged /\ PublishedTogether
  BY <1>1 DEF PublishedIsMerged, PublishedTogether
<1>6. QED  BY <1>2, <1>3, <1>4, <1>5 DEF IInv

\* What depends on the manifests only.
LEMMA SameManifests ==
  ASSUME manifests' = manifests
  PROVE  /\ Versions' = Versions /\ Whole' = Whole /\ LastName' = LastName
         /\ next_version' = next_version /\ (InRow => InRow')
BY DEF Versions, Whole, LastName, next_version, InRow

\* A step of the first phase, or into the second.
LEMMA DownloadStep ==
  ASSUME IInv, OneRun, NEW p \in Runs, pc[p] \in {"down", "download", "fetch"},
         NEW l \in {"down", "download", "fetch", "merge"},
         pc' = [pc EXCEPT ![p] = l],
         UNCHANGED <<mergeVars, corpusVars, job>>,
         raw' \in [Sources -> Int], CompleteIsMerged'
  PROVE  IInv'
<1>1. /\ Versions' = Versions /\ Whole' = Whole /\ LastName' = LastName
      /\ InRow'
  BY SameManifests DEF corpusVars, IInv
<1>2. Tables'
  BY DEF IInv, Tables, Labels, corpusVars, mergeVars
<1>3. ~Saving(p) /\ pc[p] # "merge" /\ pc'[p] = l /\ ~Saving(p)'
  BY DEF IInv, Tables, Saving
<1>4. \A q \in Runs : JobInOrder(q)'
  BY <1>3 DEF OneRun, JobInOrder, Saving
<1>5. PublishedIsMerged'
  BY <1>1 DEF IInv, PublishedIsMerged, corpusVars
<1>6. PublishedTogether'
  BY <1>1, <1>3 DEF IInv, OneRun, PublishedTogether, corpusVars, mergeVars
<1>7. QED  BY <1>1, <1>2, <1>4, <1>5, <1>6 DEF IInv

LEMMA OneFile ==
  ASSUME NEW f \in [Sources -> Int], NEW s, NEW n, s \in Sources => n \in Int
  PROVE  /\ [f EXCEPT ![s] = n] \in [Sources -> Int]
         /\ \A t \in Sources \ {s} : [f EXCEPT ![s] = n][t] = f[t]
         /\ s \in Sources => [f EXCEPT ![s] = n][s] = n
OBVIOUS

\* A row that is written when the merge is complete makes its source late.
LEMMA WrittenLate ==
  ASSUME NEW s, \A t \in Sources \ {s} : raw'[t] = raw[t], Written(s),
         CompleteIsMerged, UNCHANGED mergeVars
  PROVE  CompleteIsMerged'
<1>1. complete => late' = late \cup {s}
  BY DEF Written, mergeVars
<1>2. QED  BY <1>1 DEF CompleteIsMerged, mergeVars

LEMMA StillEnough ==
  ASSUME NEW m \in Int, NEW r \in Int, NEW less \in Int, m >= r, less <= r
  PROVE  m >= less
OBVIOUS

LEMMA FirstPhase ==
  ASSUME IInv, OneRun, NEW p \in Runs,
         \/ Start(p) \/ SkipSource(p) \/ OpenSource(p) \/ LoadFails(p)
         \/ FetchRow(p) \/ FetchEnds(p) \/ FetchFails(p)
         \/ MergeRefused(p) \/ BeginResumed(p)
  PROVE  IInv'
<1>1. CompleteIsMerged
  BY DEF IInv
<1>2. /\ raw \in [Sources -> Int] /\ merged \in [Sources -> Nat]
      /\ pc = [pc EXCEPT ![p] = pc[p]]
  BY DEF IInv, Tables
<1>3. CASE Start(p)
  <2>1. CompleteIsMerged' /\ raw' \in [Sources -> Int]
    BY <1>1, <1>2, <1>3 DEF Start, CompleteIsMerged, rawVars, mergeVars
  <2>2. QED
    BY <1>3, <2>1, DownloadStep DEF Start, Goto, mergeVars
<1>4. CASE SkipSource(p)
  <2>1. /\ CompleteIsMerged' /\ raw' \in [Sources -> Int]
       /\ pc' = [pc EXCEPT ![p] = "download"]
    BY <1>1, <1>2, <1>4 DEF SkipSource, CompleteIsMerged, rawVars, mergeVars
  <2>2. QED
    BY <1>2, <1>4, <2>1, DownloadStep DEF SkipSource, mergeVars, bounds
<1>5. CASE OpenSource(p)
  <2>1. CompleteIsMerged' /\ raw' \in [Sources -> Int]
    <3>1. PICK s : raw' = [raw EXCEPT ![s] = 0] /\ Written(s)
      BY <1>5 DEF OpenSource
    <3>2. /\ raw' \in [Sources -> Int]
          /\ \A t \in Sources \ {s} : raw'[t] = raw[t]
      BY <1>2, <3>1, OneFile
    <3>3. UNCHANGED mergeVars
      BY <1>5 DEF OpenSource, mergeVars
    <3>4. QED  BY <1>1, <3>1, <3>2, <3>3, WrittenLate
  <2>2. QED
    BY <1>2, <1>5, <2>1, DownloadStep DEF OpenSource, Goto, mergeVars, bounds
<1>6. CASE LoadFails(p)
  <2>1. CompleteIsMerged' /\ raw' \in [Sources -> Int]
    <3>1. PICK s : raw' = [raw EXCEPT ![s] = IF raw[s] = 0 THEN Missing ELSE raw[s]]
      BY <1>6 DEF LoadFails, WithoutEmpty
    <3>2. raw' \in [Sources -> Int] /\ \A t \in Sources : raw'[t] <= raw[t]
      <4>1. Missing \in Int /\ Missing <= 0
        BY DEF Missing
      <4>2. s \in Sources => (IF raw[s] = 0 THEN Missing ELSE raw[s]) \in Int
        BY <1>2, <4>1
      <4>3. \A t \in Sources : raw'[t] <= raw[t]
        BY <1>2, <3>1, <4>1, <4>2, OneFile
      <4>4. QED  BY <1>2, <3>1, <4>2, <4>3, OneFile
    <3>3. UNCHANGED mergeVars /\ late' = late
      BY <1>6 DEF LoadFails, mergeVars
    <3>4. QED
      <4>1. ASSUME complete', NEW t \in Sources \ late'
            PROVE  merged'[t] + lost'[t] >= raw'[t]
        <5>1. /\ merged'[t] = merged[t] /\ lost'[t] = lost[t]
              /\ raw'[t] <= raw[t] /\ merged[t] + lost[t] >= raw[t]
          BY <1>1, <3>2, <3>3, <4>1 DEF CompleteIsMerged, mergeVars
        <5>2. /\ merged[t] \in Nat /\ lost[t] \in Nat
              /\ raw[t] \in Int /\ raw'[t] \in Int
          BY <3>2, <4>1 DEF IInv, Tables
        <5>5. merged[t] + lost[t] \in Int
          BY ONLY <5>2
        <5>3. merged'[t] + lost'[t] = merged[t] + lost[t]
          BY ONLY <5>1, <5>2
        <5>4. merged[t] + lost[t] >= raw'[t]
          <6>1. raw[t] \in Int /\ raw'[t] \in Int
            BY <5>2
          <6>2. merged[t] + lost[t] >= raw[t] /\ raw'[t] <= raw[t]
            BY <5>1
          <6>3. QED  BY <5>5, <6>1, <6>2, StillEnough
        <5>6. QED  BY <5>3, <5>4, Zenon
      <4>2. QED  BY <3>2, <4>1 DEF CompleteIsMerged
  <2>2. \/ pc' = [pc EXCEPT ![p] = "down"] \/ pc' = [pc EXCEPT ![p] = "download"]
    BY <1>2, <1>6 DEF LoadFails, Ends, Goto
  <2>3. QED
    BY <1>2, <1>6, <2>1, <2>2, DownloadStep DEF LoadFails, mergeVars, bounds
<1>7. CASE FetchRow(p)
  <2>1. /\ CompleteIsMerged' /\ raw' \in [Sources -> Int]
        /\ pc' = [pc EXCEPT ![p] = "fetch"]
    <3>1. PICK s : raw' = [raw EXCEPT ![s] = raw[s] + 1] /\ Written(s)
      BY <1>7 DEF FetchRow
    <3>2. pc' = [pc EXCEPT ![p] = "fetch"]
      BY <1>2, <1>7 DEF FetchRow
    <3>3. /\ raw' \in [Sources -> Int]
          /\ \A t \in Sources \ {s} : raw'[t] = raw[t]
      <4>1. s \in Sources => raw[s] + 1 \in Int
        BY <1>2
      <4>2. QED  BY <1>2, <3>1, <4>1, OneFile
    <3>4. UNCHANGED mergeVars
      BY <1>7 DEF FetchRow, mergeVars
    <3>5. QED  BY <1>1, <3>1, <3>2, <3>3, <3>4, WrittenLate
  <2>2. QED
    BY <1>2, <1>7, <2>1, DownloadStep DEF FetchRow, mergeVars, bounds
<1>8. CASE FetchEnds(p)
  <2>1. CompleteIsMerged' /\ raw' \in [Sources -> Int]
    BY <1>1, <1>2, <1>8 DEF FetchEnds, CompleteIsMerged, rawVars, mergeVars
  <2>2. QED
    BY <1>2, <1>8, <2>1, DownloadStep DEF FetchEnds, Goto, mergeVars, bounds
<1>9. CASE FetchFails(p)
  <2>1. CompleteIsMerged' /\ raw' \in [Sources -> Int]
    BY <1>1, <1>2, <1>9 DEF FetchFails, CompleteIsMerged, rawVars, mergeVars
  <2>2. \/ pc' = [pc EXCEPT ![p] = "down"] \/ pc' = [pc EXCEPT ![p] = "download"]
    BY <1>9 DEF FetchFails, Ends, Goto
  <2>3. QED
    BY <1>2, <1>9, <2>1, <2>2, DownloadStep DEF FetchFails, mergeVars, bounds
<1>10. CASE MergeRefused(p)
  <2>1. CompleteIsMerged' /\ raw' \in [Sources -> Int]
    BY <1>1, <1>2, <1>10 DEF MergeRefused, CompleteIsMerged, rawVars, mergeVars
  <2>2. QED
    BY <1>2, <1>10, <2>1, DownloadStep
    DEF MergeRefused, Ends, Goto, mergeVars, bounds
<1>11. CASE BeginResumed(p)
  <2>1. CompleteIsMerged' /\ raw' \in [Sources -> Int]
    BY <1>1, <1>2, <1>11 DEF BeginResumed, CompleteIsMerged, rawVars, mergeVars
  <2>2. QED
    BY <1>2, <1>11, <2>1, DownloadStep
    DEF BeginResumed, MayMerge, Goto, mergeVars, bounds
<1>12. QED
  BY <1>3, <1>4, <1>5, <1>6, <1>7, <1>8, <1>9, <1>10, <1>11

\* A step that leaves the manifests and what they describe alone.
LEMMA BesideManifests ==
  ASSUME IInv, OneRun, NEW p \in Runs, NEW l \in Labels,
         pc' = [pc EXCEPT ![p] = l], manifests' = manifests
  PROVE  /\ Versions' = Versions /\ Whole' = Whole /\ LastName' = LastName
         /\ next_version' = next_version /\ InRow'
         /\ pc' \in [Runs -> Labels] /\ pc'[p] = l
         /\ PublishedIsMerged'
         /\ JobInOrder(p)' => \A q \in Runs : JobInOrder(q)'
<1>1. /\ Versions' = Versions /\ Whole' = Whole /\ LastName' = LastName
      /\ next_version' = next_version /\ InRow'
  BY SameManifests DEF IInv
<1>2. pc' \in [Runs -> Labels] /\ pc'[p] = l
  BY DEF IInv, Tables
<1>3. PublishedIsMerged'
  BY <1>1 DEF IInv, PublishedIsMerged
<1>4. JobInOrder(p)' => \A q \in Runs : JobInOrder(q)'
  BY DEF OneRun
<1>5. QED  BY <1>1, <1>2, <1>3, <1>4

\* Nothing is promised while a run merges or saves.
LEMMA NotYetTogether ==
  ASSUME NEW p \in Runs, pc'[p] = "merge" \/ Saving(p)'
  PROVE  PublishedTogether'
BY DEF PublishedTogether

LEMMA MergePhase ==
  ASSUME IInv, OneRun, NEW p \in Runs,
         BeginFresh(p) \/ MergeRow(p) \/ EndMerge(p) \/ EndMergeShort(p)
  PROVE  IInv'
<1>1. CASE BeginFresh(p)
  <2>1. /\ pc' = [pc EXCEPT ![p] = "merge"] /\ manifests' = manifests
        /\ raw' = raw /\ merged' = [s \in Sources |-> 0] /\ complete' = FALSE
        /\ lost' = [s \in Sources |-> 0] /\ job' = job /\ interrupted' = interrupted
    BY <1>1 DEF BeginFresh, Goto, corpusVars
  <2>2. "merge" \in Labels
    BY DEF Labels
  <2>3. Tables'
    BY <2>1, <2>2, BesideManifests DEF IInv, Tables
  <2>4. CompleteIsMerged'
    BY <2>1 DEF CompleteIsMerged
  <2>5. JobInOrder(p)'
    BY <2>1, <2>2, BesideManifests DEF JobInOrder, Saving
  <2>6. PublishedTogether'
    BY <2>1, <2>2, BesideManifests, NotYetTogether
  <2>7. QED  BY <2>1, <2>2, <2>3, <2>4, <2>5, <2>6, BesideManifests DEF IInv
<1>2. CASE MergeRow(p)
  <2>1. /\ pc[p] = "merge" /\ pc' = [pc EXCEPT ![p] = "merge"]
        /\ manifests' = manifests /\ raw' = raw /\ complete = FALSE
        /\ lost' = lost /\ complete' = FALSE /\ job' = job /\ interrupted' = interrupted
    BY <1>2 DEF MergeRow, corpusVars, rawVars, IInv, Tables
  <2>2. "merge" \in Labels
    BY DEF Labels
  <2>3. merged' \in [Sources -> Nat]
    BY <1>2 DEF MergeRow, IInv, Tables
  <2>4. Tables'
    BY <2>1, <2>2, <2>3, BesideManifests DEF IInv, Tables
  <2>5. CompleteIsMerged'
    BY <2>1 DEF CompleteIsMerged
  <2>6. JobInOrder(p)'
    BY <2>1, <2>2, BesideManifests DEF JobInOrder, Saving
  <2>7. PublishedTogether'
    BY <2>1, <2>2, BesideManifests, NotYetTogether
  <2>8. QED  BY <2>1, <2>2, <2>4, <2>5, <2>6, <2>7, BesideManifests DEF IInv
<1>3. CASE EndMerge(p)
  <2>1. /\ pc' = [pc EXCEPT ![p] = "save"] /\ complete' = TRUE
        /\ manifests' = manifests /\ raw' = raw /\ late' = late
        /\ merged' = merged /\ lost' = lost /\ job' = job
        /\ interrupted' = interrupted
    BY <1>3 DEF EndMerge, Goto, corpusVars, rawVars
  <2>2. "save" \in Labels
    BY DEF Labels
  <2>3. Tables'
    BY <2>1, <2>2, BesideManifests DEF IInv, Tables
  <2>4. CompleteIsMerged'
    <3>1. CASE complete
      BY <2>1, <3>1 DEF CompleteIsMerged, IInv
    <3>2. ASSUME AllMerged, NEW s \in Sources PROVE merged[s] + lost[s] >= raw[s]
      <4>1. raw[s] \in Int /\ merged[s] \in Nat /\ lost[s] \in Nat
        BY DEF IInv, Tables
      <4>2. QED  BY <3>2, <4>1 DEF AllMerged, Unmerged
    <3>3. QED  BY <1>3, <2>1, <3>1, <3>2 DEF EndMerge, CompleteIsMerged
  <2>5. JobInOrder(p)'
    BY <2>1, <2>2, BesideManifests DEF JobInOrder
  <2>6. Saving(p)'
    BY <2>1, <2>2, BesideManifests DEF Saving
  <2>7. PublishedTogether'
    BY <2>6, NotYetTogether
  <2>8. QED  BY <2>1, <2>2, <2>3, <2>4, <2>5, <2>7, BesideManifests DEF IInv
<1>4. CASE EndMergeShort(p)
  <2>1. /\ pc' = [pc EXCEPT ![p] = "save"] /\ complete' = TRUE
        /\ manifests' = manifests /\ raw' = raw /\ late' = late
        /\ merged' = merged /\ lost' = [s \in Sources |-> Unmerged(s)] /\ job' = job
        /\ interrupted' = interrupted
    BY <1>4 DEF EndMergeShort, Goto, corpusVars, rawVars
  <2>2. "save" \in Labels
    BY DEF Labels
  <2>4. ASSUME NEW s \in Sources PROVE Unmerged(s) \in Nat /\ merged[s] + Unmerged(s) >= raw[s]
    <3>1. raw[s] \in Int /\ merged[s] \in Nat
      BY DEF IInv, Tables
    <3>2. QED  BY <3>1 DEF Unmerged
  <2>3. Tables'
    BY <2>1, <2>2, <2>4, BesideManifests DEF IInv, Tables
  <2>9. CompleteIsMerged'
    BY <2>1, <2>4 DEF CompleteIsMerged
  <2>5. JobInOrder(p)'
    BY <2>1, <2>2, BesideManifests DEF JobInOrder
  <2>6. Saving(p)'
    BY <2>1, <2>2, BesideManifests DEF Saving
  <2>7. PublishedTogether'
    BY <2>6, NotYetTogether
  <2>8. QED  BY <2>1, <2>2, <2>3, <2>5, <2>7, <2>9, BesideManifests DEF IInv
<1>5. QED  BY <1>1, <1>2, <1>3, <1>4

\* The steps of a save that write no manifest.
LEMMA SaveStep ==
  ASSUME IInv, OneRun, NEW p \in Runs, Saving(p),
         NEW l \in {"copy", "copying", "describe", "open", "publishing"},
         pc' = [pc EXCEPT ![p] = l], UNCHANGED <<rawVars, mergeVars>>,
         manifests' = manifests, interrupted' = interrupted,
         job' = [q \in Runs |-> job'[q]], JobInOrder(p)'
  PROVE  IInv'
<1>1. l \in Labels /\ pc'[p] = l
  BY DEF Labels, IInv, Tables
<1>2. Tables'
  BY <1>1, BesideManifests DEF IInv, Tables, rawVars, mergeVars
<1>3. CompleteIsMerged'
  BY DEF IInv, CompleteIsMerged, rawVars, mergeVars
<1>4. PublishedTogether'
  BY <1>1, NotYetTogether DEF Saving
<1>5. QED  BY <1>1, <1>2, <1>3, <1>4, BesideManifests DEF IInv

LEMMA SavePhase ==
  ASSUME IInv, OneRun, NEW p \in Runs,
         \/ SaveBegins(p) \/ CopyPool(p) \/ PoolCopied(p) \/ Describe(p)
         \/ OpenPointer(p)
  PROVE  IInv'
<1>1. JobInOrder(p) /\ CompleteIsMerged
  BY DEF IInv
<1>2. /\ pc \in [Runs -> Labels] /\ job = [q \in Runs |-> job[q]]
  BY DEF IInv, Tables
<1>3. CASE SaveBegins(p)
  <2>1. /\ pc[p] = "save" /\ pc' = [pc EXCEPT ![p] = "copy"]
        /\ job' = [job EXCEPT ![p] = [version |-> next_version,
                                      parent |-> latest_manifest]]
        /\ manifests' = manifests /\ UNCHANGED <<rawVars, mergeVars>>
        /\ interrupted' = interrupted
    BY <1>3 DEF SaveBegins, Goto, corpusVars
  <2>2. /\ job' = [q \in Runs |-> job'[q]] /\ job'[p].version = next_version
        /\ next_version' = next_version /\ pc'[p] = "copy"
    BY <1>2, <2>1, SameManifests
  <2>3. JobInOrder(p)'
    BY <1>1, <2>1, <2>2 DEF JobInOrder, Saving, mergeVars
  <2>4. QED  BY <2>1, <2>2, <2>3, SaveStep DEF Saving
<1>4. CASE CopyPool(p)
  <2>1. /\ pc[p] = "copy" /\ pc' = [pc EXCEPT ![p] = "copying"] /\ job' = job
        /\ manifests' = manifests /\ UNCHANGED <<rawVars, mergeVars>>
        /\ interrupted' = interrupted
    BY <1>4 DEF CopyPool, Goto
  <2>2. next_version' = next_version /\ pc'[p] = "copying"
    BY <1>2, <2>1, SameManifests
  <2>3. JobInOrder(p)'
    BY <1>1, <2>1, <2>2 DEF JobInOrder, Saving, mergeVars
  <2>4. QED  BY <1>2, <2>1, <2>3, SaveStep DEF Saving
<1>5. CASE PoolCopied(p)
  <2>1. /\ pc[p] = "copying" /\ pc' = [pc EXCEPT ![p] = "describe"]
        /\ job' = job /\ pool' = [rows |-> merged]
        /\ manifests' = manifests /\ UNCHANGED <<rawVars, mergeVars>>
        /\ interrupted' = interrupted
    BY <1>5 DEF PoolCopied, Goto
  <2>2. next_version' = next_version /\ pc'[p] = "describe"
    BY <1>2, <2>1, SameManifests
  <2>3. JobInOrder(p)'
    BY <1>1, <2>1, <2>2 DEF JobInOrder, Saving, mergeVars
  <2>4. QED  BY <1>2, <2>1, <2>3, SaveStep DEF Saving
<1>6. CASE Describe(p)
  <2>1. /\ pc[p] = "describe" /\ pc' = [pc EXCEPT ![p] = "open"]
        /\ job' = [job EXCEPT ![p] = [version |-> job[p].version,
                                      text |-> Manifest(p)]]
        /\ manifests' = manifests /\ UNCHANGED <<rawVars, mergeVars>>
        /\ interrupted' = interrupted /\ pool' = pool
    BY <1>6 DEF Describe, Goto, corpusVars
  <2>2. /\ job' = [q \in Runs |-> job'[q]] /\ pc'[p] = "open"
        /\ job'[p].version = job[p].version /\ job'[p].text = Manifest(p)
        /\ next_version' = next_version
    BY <1>2, <2>1, SameManifests
  <2>3. /\ Manifest(p) # Torn /\ Manifest(p).filtered = merged
        /\ Manifest(p).raw = raw /\ Manifest(p).late = late
        /\ Manifest(p).lost = lost
    BY DEF Manifest, Torn
  <2>4. complete
    BY <1>1, <2>1 DEF JobInOrder, Saving
  <2>5. Describes(Manifest(p))
    BY <1>1, <2>3, <2>4 DEF CompleteIsMerged, Describes
  <2>6. JobInOrder(p)'
    BY <1>1, <2>1, <2>2, <2>3, <2>5
    DEF JobInOrder, Saving, Describes, mergeVars
  <2>7. QED  BY <2>1, <2>2, <2>6, SaveStep DEF Saving
<1>7. CASE OpenPointer(p)
  <2>1. /\ pc[p] = "publish" /\ pc' = [pc EXCEPT ![p] = "publishing"]
        /\ job' = job /\ pool' = pool
        /\ manifests' = manifests /\ UNCHANGED <<rawVars, mergeVars>>
        /\ interrupted' = interrupted
    BY <1>7 DEF OpenPointer, Goto
  <2>2. /\ Versions' = Versions /\ LastName' = LastName
        /\ pc'[p] = "publishing"
    BY <1>2, <2>1, SameManifests
  <2>3. JobInOrder(p)'
    BY <1>1, <2>1, <2>2 DEF JobInOrder, Saving, mergeVars, Describes
  <2>4. QED  BY <1>2, <2>1, <2>3, SaveStep DEF Saving
<1>8. QED  BY <1>3, <1>4, <1>5, <1>6, <1>7

\* The files after one of them was written.
LEMMA OneManifest ==
  ASSUME NEW v, NEW text, PutManifest(v, text)
  PROVE  /\ Versions' = Versions \cup {v} /\ manifests'[v] = text
         /\ \A w \in Versions \ {v} : manifests'[w] = manifests[w]
         /\ Whole' = IF text = Torn THEN Whole \ {v} ELSE Whole \cup {v}
<1>1. /\ Versions' = Versions \cup {v} /\ manifests'[v] = text
      /\ \A w \in Versions \ {v} : manifests'[w] = manifests[w]
  BY DEF PutManifest, Versions
<1>2. Whole' = IF text = Torn THEN Whole \ {v} ELSE Whole \cup {v}
  BY <1>1 DEF Whole
<1>3. QED  BY <1>1, <1>2

LEMMA OpenManifestIInv ==
  ASSUME IInv, OneRun, NEW p \in Runs, OpenManifest(p)
  PROVE  IInv'
<1> DEFINE v == job[p].version
<1>1. /\ pc[p] = "open" /\ pc' = [pc EXCEPT ![p] = "write"] /\ job' = job
      /\ UNCHANGED <<rawVars, mergeVars, pool, interrupted>>
      /\ PutManifest(v, Torn)
  BY DEF OpenManifest, Goto
<1>2. JobInOrder(p) /\ InRow /\ v = next_version
  BY <1>1 DEF IInv, JobInOrder
<1>3. /\ Versions' = Versions \cup {v} /\ manifests'[v] = Torn
      /\ \A w \in Versions \ {v} : manifests'[w] = manifests[w]
      /\ Whole' \subseteq Whole \ {v}
  BY <1>1, OneManifest
<1>4. InRow'
  <2>1. PICK k \in 1..Base : Versions \cup {next_version} = 1..k
    BY <1>2, NextVersionIsNew
  <2>2. k \in 0..Base /\ Versions' = 1..k
    BY <1>2, <1>3, <2>1
  <2>3. QED  BY <2>2 DEF InRow
<1>5. pc'[p] = "write" /\ pc' \in [Runs -> Labels]
  BY <1>1 DEF IInv, Tables, Labels
<1>6. Tables' /\ CompleteIsMerged'
  BY <1>1, <1>5 DEF IInv, Tables, CompleteIsMerged, rawVars, mergeVars
<1>7. Base \notin Versions' => v = LastName'
  <2>1. SUFFICES ASSUME Base \notin Versions' PROVE v = LastName'
    OBVIOUS
  <2>2. v \in 1..Base /\ v # Base /\ Versions' = 1..v
    BY <1>2, <1>3, <2>1, NextVersionIsNew
  <2>3. LastName' = IF v < Base THEN v ELSE Base - 1
    BY <2>2, LastNameInRowNext
  <2>4. QED  BY <2>2, <2>3, BaseAssumption
<1>8. JobInOrder(p)'
  BY <1>1, <1>2, <1>3, <1>5, <1>7 DEF JobInOrder, Saving, Describes, mergeVars
<1>9. \A q \in Runs : JobInOrder(q)'
  BY <1>8 DEF OneRun
<1>10. PublishedIsMerged'
  BY <1>3 DEF IInv, PublishedIsMerged, Whole
<1>11. PublishedTogether'
  BY <1>5, NotYetTogether DEF Saving
<1>12. QED  BY <1>4, <1>6, <1>9, <1>10, <1>11 DEF IInv

LEMMA WriteManifestIInv ==
  ASSUME IInv, OneRun, NEW p \in Runs, WriteManifest(p)
  PROVE  IInv'
<1> DEFINE v == job[p].version
<1> DEFINE text == job[p].text
<1>1. /\ pc[p] = "write" /\ pc' = [pc EXCEPT ![p] = "publish"] /\ job' = job
      /\ UNCHANGED <<rawVars, mergeVars, pool, interrupted>>
      /\ PutManifest(v, text)
  BY DEF WriteManifest, Goto
<1>2. JobInOrder(p) /\ v \in Versions /\ text # Torn /\ Describes(text)
  BY <1>1 DEF IInv, JobInOrder
<1>3. /\ Versions' = Versions /\ manifests'[v] = text
      /\ \A w \in Versions \ {v} : manifests'[w] = manifests[w]
      /\ Whole' = Whole \cup {v}
  BY <1>1, <1>2, OneManifest
<1>4. InRow' /\ LastName' = LastName
  BY <1>3 DEF IInv, InRow, LastName
<1>5. pc'[p] = "publish" /\ pc' \in [Runs -> Labels]
  BY <1>1 DEF IInv, Tables, Labels
<1>6. Tables' /\ CompleteIsMerged'
  BY <1>1, <1>5 DEF IInv, Tables, CompleteIsMerged, rawVars, mergeVars
<1>7. JobInOrder(p)'
  BY <1>1, <1>2, <1>3, <1>4, <1>5 DEF JobInOrder, Saving, Describes, mergeVars
<1>8. \A q \in Runs : JobInOrder(q)'
  BY <1>7 DEF OneRun
<1>9. PublishedIsMerged'
  BY <1>2, <1>3 DEF IInv, PublishedIsMerged, Whole, Describes
<1>10. PublishedTogether'
  BY <1>5, NotYetTogether DEF Saving
<1>11. QED  BY <1>4, <1>6, <1>8, <1>9, <1>10 DEF IInv

LEMMA PublishIInv ==
  ASSUME IInv, OneRun, NEW p \in Runs, Publish(p)
  PROVE  IInv'
<1> DEFINE v == job[p].version
<1>1. /\ pc[p] = "publishing" /\ pc' = [pc EXCEPT ![p] = "down"]
      /\ job' = [job EXCEPT ![p] = NoJob] /\ pointer' = v
      /\ UNCHANGED <<rawVars, mergeVars, pool, manifests>>
      /\ interrupted' = FALSE /\ "down" \in Labels
  BY DEF Publish, Ends, Goto, Labels
<1>2. /\ pc'[p] = "down" /\ job' = [q \in Runs |-> job'[q]]
  BY <1>1 DEF IInv, Tables
<1>3. Tables' /\ CompleteIsMerged'
  BY <1>1, <1>2, BesideManifests
  DEF IInv, Tables, CompleteIsMerged, rawVars, mergeVars
<1>4. JobInOrder(p)'
  BY <1>2 DEF JobInOrder, Saving
<1>5. PublishedTogether'
  <2>1. /\ v \in Versions /\ manifests[v] = job[p].text
        /\ job[p].text # Torn /\ job[p].text.filtered = merged
        /\ pool = [rows |-> merged]
        /\ Base \notin Versions => v = LastName
    BY <1>1 DEF IInv, JobInOrder
  <2>2. v \in Whole
    BY <2>1 DEF Whole
  <2>3. Versions' = Versions /\ LastName' = LastName /\ Whole' = Whole
    BY <1>1, SameManifests
  <2>4. QED
    BY <1>1, <2>1, <2>2, <2>3 DEF PublishedTogether, mergeVars
<1>6. QED  BY <1>1, <1>3, <1>4, <1>5, BesideManifests DEF IInv

\* A run that ends while it merges or saves, or before.
LEMMA EndingIInv ==
  ASSUME IInv, OneRun, NEW p \in Runs, SaveRefused(p) \/ Crash(p)
  PROVE  IInv'
<1>1. /\ pc' = [pc EXCEPT ![p] = "down"] /\ "down" \in Labels
      /\ UNCHANGED <<rawVars, mergeVars, pool, manifests, pointer>>
      /\ job' = job \/ job' = [job EXCEPT ![p] = NoJob]
  BY DEF SaveRefused, Crash, Ends, Goto, Labels
<1>2. /\ interrupted' \in BOOLEAN
      /\ interrupted \/ Saving(p) \/ pc[p] = "merge" => interrupted'
  BY DEF SaveRefused, Crash, IInv, Tables
<1>3. pc'[p] = "down" /\ job' = [q \in Runs |-> job'[q]]
  BY <1>1 DEF IInv, Tables
<1>4. Tables' /\ CompleteIsMerged'
  BY <1>1, <1>2, <1>3, BesideManifests
  DEF IInv, Tables, CompleteIsMerged, rawVars, mergeVars
<1>5. JobInOrder(p)'
  BY <1>3 DEF JobInOrder, Saving
<1>6. PublishedTogether'
  <2>1. SUFFICES ASSUME ~interrupted' PROVE PublishedTogether'
    BY DEF PublishedTogether
  <2>2. \A q \in Runs : pc[q] # "merge" /\ ~Saving(q)
    BY <1>2, <2>1 DEF OneRun
  <2>3. Versions' = Versions /\ LastName' = LastName /\ Whole' = Whole
    BY <1>1, SameManifests
  <2>4. ~interrupted /\ PublishedTogether
    BY <1>2, <2>1 DEF IInv
  <2>5. QED
    BY <1>1, <2>2, <2>3, <2>4 DEF PublishedTogether, mergeVars
<1>7. QED  BY <1>1, <1>4, <1>5, <1>6, BesideManifests DEF IInv

LEMMA RollbackIInv == IInv /\ Rollback => IInv'
<1> SUFFICES ASSUME IInv, Rollback PROVE IInv'
  OBVIOUS
<1>1. PICK v \in Whole : pointer' \in {v, TornPointer}
  BY DEF Rollback
<1>2. UNCHANGED <<rawVars, mergeVars, pool, manifests, interrupted, pc, job>>
  BY DEF Rollback
<1>3. /\ Versions' = Versions /\ LastName' = LastName /\ Whole' = Whole
      /\ next_version' = next_version /\ InRow'
  BY <1>2, SameManifests DEF IInv
<1>4. Tables' /\ CompleteIsMerged' /\ PublishedIsMerged'
  BY <1>2, <1>3
  DEF IInv, Tables, CompleteIsMerged, PublishedIsMerged, rawVars, mergeVars
<1>5. ASSUME NEW p \in Runs PROVE JobInOrder(p)'
  BY <1>2, <1>3 DEF IInv, JobInOrder, Saving, Describes, mergeVars
<1>6. PublishedTogether'
  BY <1>1, <1>2, <1>3 DEF IInv, PublishedTogether, Saving, mergeVars
<1>7. QED  BY <1>3, <1>4, <1>5, <1>6 DEF IInv

LEMMA StutterIInv == IInv /\ UNCHANGED vars => IInv'
<1> SUFFICES ASSUME IInv, UNCHANGED vars PROVE IInv'
  OBVIOUS
<1> USE DEF vars, rawVars, mergeVars, corpusVars
<1>1. /\ Versions' = Versions /\ LastName' = LastName /\ Whole' = Whole
      /\ next_version' = next_version /\ InRow'
  BY SameManifests DEF IInv
<1>2. Tables' /\ CompleteIsMerged' /\ PublishedIsMerged'
  BY <1>1 DEF IInv, Tables, CompleteIsMerged, PublishedIsMerged
<1>3. ASSUME NEW p \in Runs PROVE JobInOrder(p)'
  BY <1>1 DEF IInv, JobInOrder, Saving, Describes
<1>4. PublishedTogether'
  BY <1>1 DEF IInv, PublishedTogether, Saving
<1>5. QED  BY <1>1, <1>2, <1>3, <1>4 DEF IInv

LEMMA NextIInv == OneRun /\ IInv /\ [Next]_vars => IInv'
<1> SUFFICES ASSUME OneRun, IInv, [Next]_vars PROVE IInv'
  OBVIOUS
<1>1. ASSUME NEW p \in Runs, Step(p) PROVE IInv'
  BY <1>1, FirstPhase, MergePhase, SavePhase, OpenManifestIInv,
     WriteManifestIInv, PublishIInv, EndingIInv DEF Step
<1>2. CASE Rollback
  BY <1>2, RollbackIInv
<1>3. CASE UNCHANGED vars
  BY <1>3, StutterIInv
<1>4. QED  BY <1>1, <1>2, <1>3 DEF Next
--------------------------------------------------------------------------------
(***************************************************************************)
(* The theorems.                                                            *)
(***************************************************************************)

\* With one run at a time, the replay pool, the last manifest, filtered.jsonl
\* and latest.json belong together whenever no run is at work and none was
\* interrupted, up to version Base - 1.
THEOREM Together == ASSUME OneRun PROVE Spec => []PublishedTogether
<1>1. IInv => PublishedTogether
  BY DEF IInv
<1>2. QED  BY <1>1, InitIInv, NextIInv, PTL DEF Spec

\* With one run at a time, a manifest describes a corpus with all rows of the
\* files that were not downloaded after the merge was complete, but for those that
\* this merge has lost itself (a dropped batch, a dead reader or apply thread).
THEOREM Merged == ASSUME OneRun PROVE Spec => []PublishedIsMerged
<1>1. IInv => PublishedIsMerged
  BY DEF IInv
<1>2. QED  BY <1>1, InitIInv, NextIInv, PTL DEF Spec

\* With one run at a time, save_manifest never changes a whole manifest of a
\* version below Base, whatever crashes and rollbacks come in between.
THEOREM Kept == ASSUME OneRun PROVE Spec => VersionsAreKept
<1> DEFINE Keeps ==
      \A v \in Whole : v < Base => v \in Whole' /\ manifests'[v] = manifests[v]
<1>1. ASSUME IInv, [Next]_vars PROVE [Keeps]_vars
  <2>1. CASE manifests' = manifests
    BY <2>1, SameManifests
  <2>2. ASSUME NEW p \in Runs, OpenManifest(p) PROVE Keeps
    <3>1. /\ PutManifest(job[p].version, Torn)
          /\ job[p].version = next_version /\ InRow
      <4>1. JobInOrder(p) /\ InRow
        BY <1>1 DEF IInv
      <4>2. QED  BY <2>2, <4>1 DEF OpenManifest, JobInOrder
    <3>2. \A v \in Whole : v < Base => v # next_version
      BY <3>1, NextVersionIsNew, BaseAssumption DEF Whole
    <3>3. QED  BY <3>1, <3>2, OneManifest DEF Whole
  <2>3. ASSUME NEW p \in Runs, WriteManifest(p) PROVE Keeps
    <3>1. /\ PutManifest(job[p].version, job[p].text)
          /\ job[p].version \notin Whole /\ job[p].text # Torn
      <4>1. JobInOrder(p)
        BY <1>1 DEF IInv
      <4>2. QED  BY <2>3, <4>1 DEF WriteManifest, JobInOrder, Whole
    <3>2. QED  BY <3>1, OneManifest DEF Whole
  <2>4. ASSUME NEW p \in Runs, Step(p), ~OpenManifest(p), ~WriteManifest(p)
        PROVE  manifests' = manifests
    BY <2>4
    DEF Step, Start, SkipSource, OpenSource, LoadFails, FetchRow, FetchEnds,
        FetchFails, MergeRefused, BeginFresh, BeginResumed, MergeRow, EndMerge,
        EndMergeShort, SaveBegins, SaveRefused, CopyPool, PoolCopied, Describe, OpenPointer,
        Publish, Crash, corpusVars
  <2>5. Rollback => manifests' = manifests
    BY DEF Rollback
  <2>6. QED  BY <1>1, <2>1, <2>2, <2>3, <2>4, <2>5 DEF Next
<1>2. QED  BY <1>1, InitIInv, NextIInv, PTL DEF Spec, VersionsAreKept

--------------------------------------------------------------------------------
(***************************************************************************)
(* PackedStream: the inductive invariant.                                   *)
(***************************************************************************)
Phases == {"open", "feed", "split", "pack", "fill", "window"}

StreamTypes ==
  /\ mode \in {"multi_sample", "contiguous"} /\ padTail \in BOOLEAN
  /\ mode = "contiguous" => ~padTail
  /\ shards \in [1..Shards -> Contents]
  /\ phase \in Phases
  /\ phase = "window" => mode = "contiguous"
  /\ phase \in {"split", "pack", "fill"} => mode = "multi_sample"
  /\ shard \in 0..Shards /\ offset \in Nat
  /\ phase \in {"feed", "split", "window"} => shard # 0
  /\ stream \in Seq(BOOLEAN) /\ cuts \subseteq Position
  /\ carry \in Seq(Position) /\ capacity \in Nat /\ released \in Nat
  /\ queue \in Seq(Seq(Position) \ {<<>>})
  /\ packed \in Seq(Position \cup {Sep}) /\ Len(packed) <= Need
  /\ segments \in 0..MaxSegments
  /\ rows \in Seq(Seq(Position \cup {Sep, Pad}))
  /\ \A k \in DOMAIN rows : Len(rows[k]) = Need

\* The position after all that was queued.
CarryFrom == Len(stream) - Len(carry) + 1

\* What is carried over is the end of the stream, from the beginning of a piece.
CarryInOrder ==
  /\ Len(carry) <= Len(stream)
  /\ \A i \in DOMAIN carry : carry[i] = CarryFrom + i - 1
  /\ mode = "multi_sample" /\ carry # <<>> => StartsPiece(carry[1])

Run(s) == \A i \in DOMAIN s : s[i] = s[1] + i - 1
NoDelimiter(s) == \A i \in DOMAIN s : IsText(s[i]) => ~stream[s[i]]
Rising(s) ==
  \A i, j \in DOMAIN s : i < j /\ IsText(s[i]) /\ IsText(s[j]) => s[i] < s[j]
Below(s, t) == \A i \in DOMAIN s : s[i] < t
Precedes(r, s) == \A j \in DOMAIN s : IsText(s[j]) => Below(r, s[j])
Separate(s) ==
  \A j \in 1..Len(s) - 1 : IsText(s[j]) /\ IsText(s[j + 1]) => s[j + 1] = s[j] + 1

\* A document in the queue: a stretch of the stream, to the end of a piece.
PieceInOrder(s) ==
  /\ Run(s) /\ NoDelimiter(s) /\ Below(s, CarryFrom)
  /\ EndsPiece(s[Len(s)])

QueueInOrder ==
  /\ \A k \in DOMAIN queue : PieceInOrder(queue[k])
  /\ \A k, l \in DOMAIN queue : k < l => Precedes(queue[k], queue[l])

\* t is queued, or will be.
Coming(t) == t >= CarryFrom \/ \E k \in DOMAIN queue : t \in Text(queue[k])

PackedInOrder ==
  /\ Rising(packed) /\ NoDelimiter(packed)
  /\ \A t \in Nat : Coming(t) => Below(packed, t)
  /\ Len(packed) < Need =>
       \A p \in Text(packed) : p + 1 \in Text(packed) \/ EndsPiece(p)
  /\ padTail => Separate(packed)

RowsInOrder ==
  /\ \A k \in DOMAIN rows : Rising(rows[k]) /\ NoDelimiter(rows[k])
  /\ \A k, l \in DOMAIN rows : k < l => Precedes(rows[k], rows[l])
  /\ \A k \in DOMAIN rows : \A t \in Nat :
       Coming(t) \/ t \in Text(packed) => Below(rows[k], t)
  /\ padTail => \A k \in DOMAIN rows : Separate(rows[k])

\* The stretch that window m stands for; after n places it is not yet written.
Stretch(m, n) == [i \in 1..Need |-> (IF i <= n THEN m ELSE m - 1) * SeqLen + i]

\* The windows of the array in use are its first places: what is carried over,
\* and after that what the latest window left there.
WindowsInOrder ==
  /\ WindowsAsOverwritten
  /\ Len(rows) * SeqLen <= Len(stream) /\ released <= Len(rows)
  /\ rows # <<>> => carry # <<>>
  /\ \A k \in DOMAIN rows : k > released =>
       \A i \in 1..Need :
         rows[k][i] = (IF i <= Len(carry) THEN Len(rows) ELSE Len(rows) - 1) * SeqLen + i

\* The inductive invariant.
StreamInv ==
  /\ StreamTypes /\ CarryInOrder
  /\ mode = "multi_sample" =>
       QueueInOrder /\ PackedInOrder /\ RowsInOrder /\ LossIsExplained
  /\ mode = "contiguous" => WindowsInOrder

--------------------------------------------------------------------------------
(***************************************************************************)
(* Sequences of tokens: cut, glued, and a piece among others.               *)
(***************************************************************************)
LEMMA RowSizes ==
  /\ SeqLen \in Nat /\ MinDoc \in Nat /\ MaxSegments \in Nat /\ ReadChunk \in Nat
  /\ SeqLen >= 1 /\ MinDoc >= 1 /\ MaxSegments >= 1 /\ ReadChunk >= 1
  /\ Shards \in Nat /\ Need \in Nat /\ Need >= 2
BY RowSizesAssumption DEF Need

LEMMA TextIn ==
  ASSUME NEW s, NEW t
  PROVE  t \in Text(s) <=> (IsText(t) /\ \E i \in DOMAIN s : s[i] = t)
BY DEF Text

LEMMA EmptyTokens ==
  /\ <<>> \in Seq(Int) /\ Len(<<>>) = 0 /\ Text(<<>>) = {}
  /\ Rising(<<>>) /\ NoDelimiter(<<>>) /\ Separate(<<>>)
  /\ \A t : Below(<<>>, t)
<1>1. <<>> \in Seq(Int) /\ Len(<<>>) = 0 /\ DOMAIN <<>> = {}
  OBVIOUS
<1>2. QED  BY <1>1 DEF Text, Rising, NoDelimiter, Separate, Below

LEMMA Single ==
  ASSUME NEW S, NEW e \in S
  PROVE  <<e>> \in Seq(S) /\ Len(<<e>>) = 1 /\ DOMAIN <<e>> = 1..1 /\ <<e>>[1] = e
OBVIOUS

LEMMA Positions1 ==
  ASSUME NEW from \in Int, NEW to \in Int, to - from + 1 \in Nat
  PROVE  LET s == Positions(from, to)
         IN /\ s \in Seq(Int) /\ Len(s) = to - from + 1
            /\ DOMAIN s = 1..(to - from + 1)
            /\ \A i \in 1..(to - from + 1) : s[i] = from + i - 1
BY DEF Positions

\* Two sequences one after the other.
LEMMA Glued ==
  ASSUME NEW r \in Seq(Int), NEW s \in Seq(Int)
  PROVE  LET g == r \o s
         IN /\ g \in Seq(Int) /\ Len(g) = Len(r) + Len(s)
            /\ DOMAIN g = 1..(Len(r) + Len(s))
            /\ DOMAIN r = 1..Len(r) /\ DOMAIN s = 1..Len(s)
            /\ Len(r) \in Nat /\ Len(s) \in Nat
            /\ \A i \in 1..Len(r) : g[i] = r[i]
            /\ \A i \in 1..Len(s) : g[Len(r) + i] = s[i]
            /\ \A i \in 1..(Len(r) + Len(s)) :
                 g[i] = IF i <= Len(r) THEN r[i] ELSE s[i - Len(r)]
            /\ Text(g) = Text(r) \cup Text(s)
<1> DEFINE g == r \o s
<1>1. /\ g \in Seq(Int) /\ Len(g) = Len(r) + Len(s)
      /\ \A i \in 1..(Len(r) + Len(s)) :
           g[i] = IF i <= Len(r) THEN r[i] ELSE s[i - Len(r)]
  BY ConcatProperties
<1>2. /\ DOMAIN g = 1..(Len(r) + Len(s)) /\ DOMAIN r = 1..Len(r)
      /\ DOMAIN s = 1..Len(s) /\ Len(r) \in Nat /\ Len(s) \in Nat
  BY <1>1, LenProperties
<1>3. /\ \A i \in 1..Len(r) : g[i] = r[i]
      /\ \A i \in 1..Len(s) : g[Len(r) + i] = s[i]
  BY <1>1, <1>2
<1>4. \A t : t \in Text(g) <=> t \in Text(r) \cup Text(s)
  <2>1. ASSUME NEW t, t \in Text(g) PROVE t \in Text(r) \cup Text(s)
    <3>1. IsText(t) /\ \E i \in DOMAIN g : g[i] = t
      BY <2>1, TextIn
    <3>2. PICK i \in 1..(Len(r) + Len(s)) : g[i] = t
      BY <1>2, <3>1
    <3>3. CASE i <= Len(r)
      <4>1. i \in DOMAIN r /\ r[i] = t
        BY <1>1, <1>2, <3>2, <3>3
      <4>2. QED  BY <3>1, <4>1, TextIn
    <3>4. CASE ~(i <= Len(r))
      <4>1. i - Len(r) \in DOMAIN s /\ s[i - Len(r)] = t
        BY <1>1, <1>2, <3>2, <3>4
      <4>2. QED  BY <3>1, <4>1, TextIn
    <3>5. QED  BY <3>3, <3>4
  <2>2. ASSUME NEW t, t \in Text(r) PROVE t \in Text(g)
    BY <1>2, <1>3, <2>2 DEF Text
  <2>3. ASSUME NEW t, t \in Text(s) PROVE t \in Text(g)
    <3>1. PICK i \in DOMAIN s : s[i] = t
      BY <2>3, TextIn
    <3>2. Len(r) + i \in DOMAIN g /\ g[Len(r) + i] = t
      BY <1>2, <1>3, <3>1
    <3>3. QED  BY <2>3, <3>2, TextIn
  <2>4. QED  BY <2>1, <2>2, <2>3
<1>5. Text(g) = Text(r) \cup Text(s)
  BY <1>4
<1>6. QED  BY <1>1, <1>2, <1>3, <1>5

\* What glueing keeps.
LEMMA GluedInOrder ==
  ASSUME NEW r \in Seq(Int), NEW s \in Seq(Int)
  PROVE  /\ Rising(r) /\ Rising(s) /\ Precedes(r, s) => Rising(r \o s)
         /\ NoDelimiter(r) /\ NoDelimiter(s) => NoDelimiter(r \o s)
         /\ \A t : Below(r, t) /\ Below(s, t) => Below(r \o s, t)
         /\ Separate(r) /\ Separate(s)
              /\ (r # <<>> /\ s # <<>> => ~IsText(r[Len(r)]) \/ ~IsText(s[1]))
            => Separate(r \o s)
<1>0. PICK g : g = r \o s
  OBVIOUS
<1>1. /\ Len(g) = Len(r) + Len(s)
      /\ DOMAIN g = 1..(Len(r) + Len(s)) /\ DOMAIN r = 1..Len(r)
      /\ DOMAIN s = 1..Len(s) /\ Len(r) \in Nat /\ Len(s) \in Nat
      /\ \A i \in 1..(Len(r) + Len(s)) :
           g[i] = IF i <= Len(r) THEN r[i] ELSE s[i - Len(r)]
  BY <1>0, Glued
<1>3. ASSUME Rising(r), Rising(s), Precedes(r, s) PROVE Rising(g)
  <2> SUFFICES ASSUME NEW i \in DOMAIN g, NEW j \in DOMAIN g, i < j,
                      IsText(g[i]), IsText(g[j])
               PROVE  g[i] < g[j]
    BY DEF Rising
  <2>1. CASE j <= Len(r)
    <3>1. i \in DOMAIN r /\ j \in DOMAIN r /\ g[i] = r[i] /\ g[j] = r[j]
      BY <1>1, <2>1
    <3>2. QED  BY <1>3, <3>1 DEF Rising
  <2>2. CASE i <= Len(r) /\ Len(r) < j
    <3>1. i \in DOMAIN r /\ j - Len(r) \in DOMAIN s /\ g[i] = r[i] /\ g[j] = s[j - Len(r)]
      BY <1>1, <2>2
    <3>2. QED  BY <1>3, <3>1 DEF Precedes, Below
  <2>3. CASE Len(r) < i
    <3>1. /\ i - Len(r) \in DOMAIN s /\ j - Len(r) \in DOMAIN s
          /\ g[i] = s[i - Len(r)] /\ g[j] = s[j - Len(r)] /\ i - Len(r) < j - Len(r)
      BY <1>1, <2>3
    <3>2. QED  BY <1>3, <3>1 DEF Rising
  <2>4. QED  BY <1>1, <2>1, <2>2, <2>3
<1>4. ASSUME NoDelimiter(r), NoDelimiter(s) PROVE NoDelimiter(g)
  <2> SUFFICES ASSUME NEW i \in DOMAIN g, IsText(g[i])
               PROVE  ~stream[g[i]]
    BY DEF NoDelimiter
  <2>1. CASE i <= Len(r)
    <3>1. i \in DOMAIN r /\ g[i] = r[i]
      BY <1>1, <2>1
    <3>2. QED  BY <1>4, <3>1 DEF NoDelimiter
  <2>2. CASE Len(r) < i
    <3>1. i - Len(r) \in DOMAIN s /\ g[i] = s[i - Len(r)]
      BY <1>1, <2>2
    <3>2. QED  BY <1>4, <3>1 DEF NoDelimiter
  <2>3. QED  BY <1>1, <2>1, <2>2
<1>5. ASSUME NEW t, Below(r, t), Below(s, t) PROVE Below(g, t)
  <2> SUFFICES ASSUME NEW i \in DOMAIN g PROVE g[i] < t
    BY DEF Below
  <2>1. CASE i <= Len(r)
    <3>1. i \in DOMAIN r /\ g[i] = r[i]
      BY <1>1, <2>1
    <3>2. QED  BY <1>5, <3>1 DEF Below
  <2>2. CASE Len(r) < i
    <3>1. i - Len(r) \in DOMAIN s /\ g[i] = s[i - Len(r)]
      BY <1>1, <2>2
    <3>2. QED  BY <1>5, <3>1 DEF Below
  <2>3. QED  BY <1>1, <2>1, <2>2
<1>6. ASSUME Separate(r), Separate(s),
             r # <<>> /\ s # <<>> => ~IsText(r[Len(r)]) \/ ~IsText(s[1])
      PROVE  Separate(g)
  <2> SUFFICES ASSUME NEW j \in 1..(Len(g) - 1), IsText(g[j]), IsText(g[j + 1])
               PROVE  g[j + 1] = g[j] + 1
    BY DEF Separate
  <2>0. j \in Int /\ Len(r) \in Int
    BY <1>1
  <2>1. CASE j < Len(r)
    <3>1. j \in 1..(Len(r) - 1) /\ g[j] = r[j] /\ g[j + 1] = r[j + 1]
      BY <1>1, <2>1
    <3>2. QED  BY <1>6, <3>1 DEF Separate
  <2>2. CASE j = Len(r)
    <3>1. r # <<>> /\ s # <<>>
      BY ONLY <1>1, <2>0, <2>2, j \in 1..(Len(g) - 1), EmptyTokens
    <3>2. g[j] = r[Len(r)] /\ g[j + 1] = s[1]
      <4>1. /\ j \in 1..(Len(r) + Len(s)) /\ j <= Len(r)
            /\ j + 1 \in 1..(Len(r) + Len(s)) /\ ~(j + 1 <= Len(r)) /\ (j + 1) - Len(r) = 1
        BY ONLY <1>1, <2>0, <2>2, j \in 1..(Len(g) - 1)
      <4>2. g[j] = r[j] /\ g[j + 1] = s[(j + 1) - Len(r)]
        BY ONLY <1>1, <4>1
      <4>3. QED  BY ONLY <2>2, <4>1, <4>2
    <3>3. QED  BY <1>6, <3>1, <3>2
  <2>3. CASE j > Len(r)
    <3>1. j - Len(r) \in 1..(Len(s) - 1)
      BY ONLY <1>1, <2>0, <2>3, j \in 1..(Len(g) - 1)
    <3>2. g[j] = s[j - Len(r)] /\ g[j + 1] = s[(j + 1) - Len(r)]
      <4>1. /\ j \in 1..(Len(r) + Len(s)) /\ ~(j <= Len(r))
            /\ j + 1 \in 1..(Len(r) + Len(s)) /\ ~(j + 1 <= Len(r))
        BY ONLY <1>1, <2>0, <2>3, j \in 1..(Len(g) - 1)
      <4>2. QED  BY ONLY <1>1, <4>1
    <3>3. (j + 1) - Len(r) = (j - Len(r)) + 1
      BY <1>1
    <3>4. QED  BY <1>6, <3>1, <3>2, <3>3 DEF Separate
  <2>4. QED  BY <2>0, <2>1, <2>2, <2>3
<1>7. QED  BY <1>3, <1>4, <1>5, <1>6, <1>0

\* A cut of a sequence.
LEMMA Cut ==
  ASSUME NEW s \in Seq(Int), NEW m \in Nat, NEW n \in Nat,
         m >= 1, n <= Len(s), m <= n + 1
  PROVE  LET c == SubSeq(s, m, n)
         IN /\ c \in Seq(Int) /\ Len(c) = n - m + 1 /\ DOMAIN c = 1..(n - m + 1)
            /\ \A i \in 1..(n - m + 1) : c[i] = s[m + i - 1] /\ m + i - 1 \in DOMAIN s
            /\ \A i \in m..n : i - m + 1 \in DOMAIN c /\ c[i - m + 1] = s[i]
            /\ Text(c) \subseteq Text(s)
            /\ Rising(s) => Rising(c)
            /\ NoDelimiter(s) => NoDelimiter(c)
            /\ Run(s) => Run(c)
            /\ \A t : Below(s, t) => Below(c, t)
<1>0. PICK c : c = SubSeq(s, m, n)
  OBVIOUS
<1>1. DOMAIN s = 1..Len(s) /\ Len(s) \in Nat
  BY LenProperties
<1>2. \A i \in m..n : s[i] \in Int
  BY <1>1, ElementOfSeq
<1>3. /\ c \in Seq(Int) /\ Len(c) = n - m + 1
      /\ \A i \in 1..(n - m + 1) : c[i] = s[m + i - 1]
  BY <1>0, <1>2, SubSeqProperties
<1>4. DOMAIN c = 1..(n - m + 1)
  BY <1>3, LenProperties
<1>5. \A i \in 1..(n - m + 1) : m + i - 1 \in DOMAIN s
  BY <1>1
<1>6. ASSUME NEW i \in m..n PROVE i - m + 1 \in DOMAIN c /\ c[i - m + 1] = s[i]
  <2>1. i - m + 1 \in 1..(n - m + 1) /\ m + (i - m + 1) - 1 = i
    OBVIOUS
  <2>2. QED  BY <1>3, <1>4, <2>1
<1>7. Text(c) \subseteq Text(s)
  BY <1>3, <1>4, <1>5 DEF Text
<1>8. ASSUME Rising(s) PROVE Rising(c)
  <2> SUFFICES ASSUME NEW i \in DOMAIN c, NEW j \in DOMAIN c, i < j,
                      IsText(c[i]), IsText(c[j])
               PROVE  c[i] < c[j]
    BY DEF Rising
  <2>1. /\ c[i] = s[m + i - 1] /\ m + i - 1 \in DOMAIN s
        /\ c[j] = s[m + j - 1] /\ m + j - 1 \in DOMAIN s
    BY <1>3, <1>4, <1>5
  <2>2. m + i - 1 < m + j - 1
    BY <1>4
  <2>3. QED  BY <1>8, <2>1, <2>2 DEF Rising
<1>9. ASSUME NoDelimiter(s) PROVE NoDelimiter(c)
  <2> SUFFICES ASSUME NEW i \in DOMAIN c, IsText(c[i]) PROVE ~stream[c[i]]
    BY DEF NoDelimiter
  <2>1. c[i] = s[m + i - 1] /\ m + i - 1 \in DOMAIN s
    BY <1>3, <1>4, <1>5
  <2>2. QED  BY <1>9, <2>1 DEF NoDelimiter
<1>10. ASSUME Run(s) PROVE Run(c)
  <2> SUFFICES ASSUME NEW i \in DOMAIN c PROVE c[i] = c[1] + i - 1
    BY DEF Run
  <2>1. 1 \in 1..(n - m + 1) /\ m \in DOMAIN s /\ 1 \in DOMAIN s
    BY <1>1, <1>4
  <2>2. c[1] = s[m]
    <3>1. c[1] = s[m + 1 - 1]
      BY <1>3, <2>1
    <3>2. QED  BY <3>1
  <2>3. i \in 1..(n - m + 1) /\ i \in Int /\ m \in Int
    BY <1>4
  <2>4. c[i] = s[m + i - 1] /\ m + i - 1 \in DOMAIN s
    BY <1>3, <1>5, <2>3
  <2>5. s[m] = s[1] + m - 1 /\ s[m + i - 1] = s[1] + (m + i - 1) - 1
    BY <1>10, <2>1, <2>4 DEF Run
  <2>6. PICK x \in Int : x = s[1]
    BY <2>1, <1>1, ElementOfSeq
  <2>7. c[1] = x + m - 1 /\ c[i] = x + (m + i - 1) - 1
    BY <2>2, <2>4, <2>5, <2>6
  <2>8. x + (m + i - 1) - 1 = (x + m - 1) + i - 1
    BY <2>3
  <2>9. QED  BY <2>7, <2>8
<1>11. \A t : Below(s, t) => Below(c, t)
  BY <1>3, <1>4, <1>5 DEF Below
<1>12. QED
  BY <1>3, <1>4, <1>5, <1>6, <1>7, <1>8, <1>9, <1>10, <1>11, <1>0

\* A run of positions rises and has no gap.
LEMMA RunInOrder ==
  ASSUME NEW s \in Seq(Int), Run(s)
  PROVE  Rising(s) /\ Separate(s)
<1>1. DOMAIN s = 1..Len(s) /\ Len(s) \in Nat
  BY LenProperties
<1>2. \A i \in DOMAIN s : s[i] \in Int
  BY <1>1, ElementOfSeq
<1>3. Rising(s)
  <2> SUFFICES ASSUME NEW i \in DOMAIN s, NEW j \in DOMAIN s, i < j
               PROVE  s[i] < s[j]
    BY DEF Rising
  <2>1. 1 \in DOMAIN s /\ s[1] \in Int /\ i \in Nat /\ j \in Nat
    BY <1>1, <1>2
  <2>2. s[i] = s[1] + i - 1 /\ s[j] = s[1] + j - 1
    BY DEF Run
  <2>3. QED  BY <2>1, <2>2
<1>4. ASSUME NEW j \in 1..(Len(s) - 1) PROVE s[j + 1] = s[j] + 1
  <2>1. 1 \in DOMAIN s /\ j \in DOMAIN s /\ j + 1 \in DOMAIN s
    BY <1>1
  <2>2. s[1] \in Int /\ s[j] = s[1] + j - 1 /\ s[j + 1] = s[1] + (j + 1) - 1
    BY <1>2, <2>1 DEF Run
  <2>3. QED  BY <2>2
<1>5. QED  BY <1>3, <1>4 DEF Separate

--------------------------------------------------------------------------------
(***************************************************************************)
(* Types.                                                                   *)
(***************************************************************************)
\* What the types say of sequences, without their elements' ranges.
LEMMA Sequences ==
  ASSUME StreamTypes
  PROVE  /\ stream \in Seq(BOOLEAN) /\ Len(stream) \in Nat
         /\ DOMAIN stream = 1..Len(stream)
         /\ carry \in Seq(Int) /\ Len(carry) \in Nat /\ DOMAIN carry = 1..Len(carry)
         /\ \A i \in DOMAIN carry : carry[i] \in Position
         /\ packed \in Seq(Int) /\ Len(packed) \in Nat /\ DOMAIN packed = 1..Len(packed)
         /\ \A i \in DOMAIN packed : packed[i] \in Position \cup {Sep}
         /\ queue \in Seq(Seq(Int)) /\ Len(queue) \in Nat /\ DOMAIN queue = 1..Len(queue)
         /\ \A k \in DOMAIN queue :
              /\ queue[k] \in Seq(Int) /\ Len(queue[k]) \in Nat /\ Len(queue[k]) >= 1
              /\ queue[k] \in Seq(Position) \ {<<>>}
              /\ DOMAIN queue[k] = 1..Len(queue[k])
              /\ \A i \in DOMAIN queue[k] : queue[k][i] \in Position
         /\ rows \in Seq(Seq(Int)) /\ Len(rows) \in Nat /\ DOMAIN rows = 1..Len(rows)
         /\ \A k \in DOMAIN rows :
              /\ rows[k] \in Seq(Int) /\ Len(rows[k]) = Need
              /\ DOMAIN rows[k] = 1..Need
              /\ \A i \in DOMAIN rows[k] : rows[k][i] \in Position \cup {Sep, Pad}
<1>1. stream \in Seq(BOOLEAN) /\ Len(stream) \in Nat /\ DOMAIN stream = 1..Len(stream)
  BY LenProperties DEF StreamTypes
<1>2. /\ Position \subseteq Int /\ Position \cup {Sep} \subseteq Int
      /\ Position \cup {Sep, Pad} \subseteq Int
  BY <1>1 DEF Position, Sep, Pad
<1>3. /\ carry \in Seq(Int) /\ Len(carry) \in Nat /\ DOMAIN carry = 1..Len(carry)
      /\ \A i \in DOMAIN carry : carry[i] \in Position
  <2>1. carry \in Seq(Position)
    BY DEF StreamTypes
  <2>2. carry \in Seq(Int)
    BY <1>2, <2>1, SeqMonotonic
  <2>3. Len(carry) \in Nat /\ DOMAIN carry = 1..Len(carry)
    BY <2>1, LenProperties
  <2>4. QED  BY <2>1, <2>2, <2>3, ElementOfSeq
<1>4. /\ packed \in Seq(Int) /\ Len(packed) \in Nat /\ DOMAIN packed = 1..Len(packed)
      /\ \A i \in DOMAIN packed : packed[i] \in Position \cup {Sep}
  <2>1. packed \in Seq(Position \cup {Sep})
    BY DEF StreamTypes
  <2>2. packed \in Seq(Int)
    BY <1>2, <2>1, SeqMonotonic
  <2>3. Len(packed) \in Nat /\ DOMAIN packed = 1..Len(packed)
    BY <2>1, LenProperties
  <2>4. QED  BY <2>1, <2>2, <2>3, ElementOfSeq
<1>5. /\ queue \in Seq(Seq(Int)) /\ Len(queue) \in Nat /\ DOMAIN queue = 1..Len(queue)
  <2>1. queue \in Seq(Seq(Position) \ {<<>>})
    BY DEF StreamTypes
  <2>2. Seq(Position) \ {<<>>} \subseteq Seq(Int)
    BY <1>2, SeqMonotonic
  <2>3. QED  BY <2>1, <2>2, SeqMonotonic, LenProperties
<1>6. ASSUME NEW k \in DOMAIN queue
      PROVE  /\ queue[k] \in Seq(Int) /\ Len(queue[k]) \in Nat /\ Len(queue[k]) >= 1
             /\ queue[k] \in Seq(Position) \ {<<>>}
             /\ DOMAIN queue[k] = 1..Len(queue[k])
             /\ \A i \in DOMAIN queue[k] : queue[k][i] \in Position
  <2>1. queue[k] \in Seq(Position) \ {<<>>}
    BY <1>5, ElementOfSeq DEF StreamTypes
  <2>2. PICK q : q = queue[k]
    OBVIOUS
  <2>3. q \in Seq(Position) /\ q # <<>>
    BY <2>1, <2>2
  <2>4. q \in Seq(Int)
    BY <1>2, <2>3, SeqMonotonic
  <2>5. Len(q) \in Nat \ {0} /\ DOMAIN q = 1..Len(q)
    BY <2>3, LenProperties, EmptySeq
  <2>6. \A i \in DOMAIN q : q[i] \in Position
    BY <2>3, <2>5, ElementOfSeq
  <2>7. QED  BY <2>1, <2>2, <2>4, <2>5, <2>6
<1>7. rows \in Seq(Seq(Int)) /\ Len(rows) \in Nat /\ DOMAIN rows = 1..Len(rows)
  <2>1. rows \in Seq(Seq(Position \cup {Sep, Pad}))
    BY DEF StreamTypes
  <2>2. Seq(Position \cup {Sep, Pad}) \subseteq Seq(Int)
    BY <1>2, SeqMonotonic
  <2>3. QED  BY <2>1, <2>2, SeqMonotonic, LenProperties
<1>8. ASSUME NEW k \in DOMAIN rows
      PROVE  /\ rows[k] \in Seq(Int) /\ Len(rows[k]) = Need
             /\ DOMAIN rows[k] = 1..Need
             /\ \A i \in DOMAIN rows[k] : rows[k][i] \in Position \cup {Sep, Pad}
  <2>1. rows[k] \in Seq(Position \cup {Sep, Pad}) /\ Len(rows[k]) = Need
    BY <1>7, ElementOfSeq DEF StreamTypes
  <2>2. PICK r : r = rows[k]
    OBVIOUS
  <2>3. r \in Seq(Position \cup {Sep, Pad}) /\ Len(r) = Need
    BY <2>1, <2>2
  <2>4. r \in Seq(Int)
    BY <1>2, <2>3, SeqMonotonic
  <2>5. DOMAIN r = 1..Need
    BY <2>3, LenProperties
  <2>6. \A i \in DOMAIN r : r[i] \in Position \cup {Sep, Pad}
    BY <2>3, <2>5, ElementOfSeq
  <2>7. QED  BY <2>2, <2>3, <2>4, <2>5, <2>6
<1>9. QED  BY <1>1, <1>3, <1>4, <1>5, <1>6, <1>7, <1>8

\* A sequence of integers that are in a set is a sequence over the set.
LEMMA WithinSet ==
  ASSUME NEW s \in Seq(Int), NEW S, \A i \in 1..Len(s) : s[i] \in S
  PROVE  s \in Seq(S)
<1>1. Len(s) \in Nat /\ s \in [1..Len(s) -> Int]
  BY LenProperties
<1>2. s \in [1..Len(s) -> S]
  BY <1>1
<1>3. QED  BY <1>1, <1>2, SeqDef

\* What a chunk adds to the stream and to the carry.
LEMMA ChunkRead ==
  ASSUME StreamTypes, ReadBlock
  PROVE  \E n \in Nat \ {0} :
           /\ Len(stream') = Len(stream) + n /\ stream' \in Seq(BOOLEAN)
           /\ \A i \in Position : stream'[i] = stream[i]
           /\ carry' \in Seq(Int) /\ Len(carry') = Len(carry) + n
           /\ \A i \in 1..Len(carry) : carry'[i] = carry[i]
           /\ \A i \in 1..n : carry'[Len(carry) + i] = Len(stream) + i
           /\ cuts' = cuts \cup {Len(stream) + 1}
           /\ offset' \in Nat
<1>1. /\ phase = "feed" /\ shard \in 1..Shards /\ offset \in Nat /\ ReadChunk \in Nat
      /\ ReadChunk >= 1
  BY RowSizes DEF StreamTypes, ReadBlock
<1>2. PICK d : d = shards[shard]
  OBVIOUS
<1>3. d \in Contents /\ d \in Seq(BOOLEAN)
  BY <1>1, <1>2, ContentsAssumption DEF StreamTypes
<1>4. Len(d) \in Nat /\ DOMAIN d = 1..Len(d) /\ ShardLength = Len(d)
  BY <1>2, <1>3, LenProperties DEF ShardLength
<1>5. PICK u : u = IF offset + ReadChunk <= ShardLength THEN offset + ReadChunk
                   ELSE ShardLength
  OBVIOUS
<1>6. /\ offset < ShardLength /\ offset' = u
      /\ stream' = stream \o SubSeq(d, offset + 1, u)
      /\ cuts' = cuts \cup {Len(stream) + 1}
      /\ carry' = carry \o Positions(Len(stream) + 1, Len(stream'))
      /\ shards' = shards /\ shard' = shard
  BY <1>2, <1>5 DEF ReadBlock, config
<1>7. u \in Nat /\ offset < u /\ u <= Len(d)
  <2>1. offset < Len(d) /\ Len(d) \in Nat
    BY <1>4, <1>6
  <2>2. CASE offset + ReadChunk <= Len(d)
    <3>1. u = offset + ReadChunk
      BY <1>4, <1>5, <2>2
    <3>2. QED  BY <1>1, <2>2, <3>1
  <2>3. CASE ~(offset + ReadChunk <= Len(d))
    <3>1. u = Len(d)
      BY <1>4, <1>5, <2>3
    <3>2. QED  BY <2>1, <3>1
  <2>4. QED  BY <2>2, <2>3
<1>8. PICK b : b = SubSeq(d, offset + 1, u)
  OBVIOUS
<1>9. b \in Seq(BOOLEAN) /\ Len(b) = u - offset
  <2>1. \A i \in (offset + 1)..u : d[i] \in BOOLEAN
    BY <1>1, <1>3, <1>4, <1>7, ElementOfSeq
  <2>2. offset + 1 \in Int /\ u \in Int
    BY <1>1, <1>7
  <2>3. /\ b \in Seq(BOOLEAN)
        /\ Len(b) = IF offset + 1 <= u THEN u - (offset + 1) + 1 ELSE 0
    BY <1>8, <2>1, <2>2, SubSeqProperties
  <2>4. QED  BY <1>1, <1>7, <2>3
<1>10. stream \in Seq(BOOLEAN) /\ Len(stream) \in Nat /\ carry \in Seq(Int)
       /\ Len(carry) \in Nat
  BY Sequences
<1>11. PICK n \in Nat \ {0} : n = u - offset
  BY <1>1, <1>7
<1>12. /\ stream' \in Seq(BOOLEAN) /\ Len(stream') = Len(stream) + n
       /\ \A i \in 1..Len(stream) : stream'[i] = stream[i]
  <2>1. stream' = stream \o b
    BY <1>6, <1>8
  <2>2. /\ stream' \in Seq(BOOLEAN) /\ Len(stream') = Len(stream) + Len(b)
        /\ \A i \in 1..(Len(stream) + Len(b)) :
             stream'[i] = IF i <= Len(stream) THEN stream[i] ELSE b[i - Len(stream)]
    BY <1>9, <1>10, <2>1, ConcatProperties
  <2>3. QED  BY <1>9, <1>10, <1>11, <2>2
<1>13. PICK x : x = Positions(Len(stream) + 1, Len(stream'))
  OBVIOUS
<1>14. /\ x \in Seq(Int) /\ Len(x) = n
       /\ \A i \in 1..n : x[i] = Len(stream) + i
  <2>1. /\ Len(stream') - (Len(stream) + 1) + 1 = n
        /\ Len(stream) + 1 \in Int /\ Len(stream') \in Int
    BY <1>10, <1>12
  <2>2. /\ x \in Seq(Int) /\ Len(x) = n
        /\ \A i \in 1..n : x[i] = (Len(stream) + 1) + i - 1
    BY ONLY <1>13, <2>1, n \in Nat, Positions1
  <2>3. QED  BY <1>10, <2>2
<1>15. /\ carry' \in Seq(Int) /\ Len(carry') = Len(carry) + n
       /\ \A i \in 1..Len(carry) : carry'[i] = carry[i]
       /\ \A i \in 1..n : carry'[Len(carry) + i] = Len(stream) + i
  <2>1. carry' = carry \o x
    BY <1>6, <1>13
  <2>2. /\ carry' \in Seq(Int) /\ Len(carry') = Len(carry) + Len(x)
        /\ \A i \in 1..Len(carry) : carry'[i] = carry[i]
        /\ \A i \in 1..Len(x) : carry'[Len(carry) + i] = x[i]
    BY <1>10, <1>14, <2>1, Glued
  <2>3. QED  BY <1>14, <2>2
<1>16. offset' \in Nat
  BY <1>6, <1>7
<1>17. QED  BY <1>6, <1>12, <1>15, <1>16 DEF Position

Pieces == Seq(Position) \ {<<>>}

LEMMA InitTypes == StreamInit => StreamTypes
<1> SUFFICES ASSUME StreamInit PROVE StreamTypes
  OBVIOUS
<1>1. /\ <<>> \in Seq(BOOLEAN) /\ <<>> \in Seq(Position)
      /\ <<>> \in Seq(Seq(Position) \ {<<>>})
      /\ <<>> \in Seq(Position \cup {Sep}) /\ Len(<<>>) = 0 /\ DOMAIN <<>> = {}
      /\ <<>> \in Seq(Seq(Position \cup {Sep, Pad}))
  BY EmptySeq
<1>2. /\ 0 \in 0..Shards /\ 0 \in Nat /\ 0 \in 0..MaxSegments /\ 0 <= Need
      /\ 2 * Need \in Nat
  BY RowSizes
<1>3. /\ mode \in {"multi_sample", "contiguous"} /\ padTail \in BOOLEAN
      /\ (mode = "contiguous" => ~padTail)
      /\ shards \in [1..Shards -> Contents] /\ phase = "open" /\ shard = 0 /\ offset = 0
      /\ stream = <<>> /\ cuts = {} /\ carry = <<>> /\ queue = <<>>
      /\ packed = <<>> /\ segments = 0 /\ rows = <<>>
      /\ capacity = 2 * Need /\ released = 0
  BY DEF StreamInit
<1>4. QED  BY <1>1, <1>2, <1>3 DEF StreamTypes, Phases

LEMMA Tabled ==
  ASSUME NEW S, NEW n \in Nat, NEW f \in [1..n -> S]
  PROVE  f \in Seq(S) /\ Len(f) = n /\ DOMAIN f = 1..n
OBVIOUS

\* A window that is written to is a window.
LEMMA Rewritten ==
  ASSUME NEW T, NEW tokens \in Seq(T), NEW windows \in Seq(Seq(T)),
         \A k \in DOMAIN windows : Len(windows[k]) = Need,
         NEW x, x = WriteThrough(windows, tokens)
  PROVE  /\ x \in Seq(Seq(T)) /\ Len(x) = Len(windows) /\ DOMAIN x = DOMAIN windows
         /\ \A k \in DOMAIN x : Len(x[k]) = Need
<1>1. PICK c : c = released'
  OBVIOUS
<1>2. /\ Len(windows) \in Nat /\ DOMAIN windows = 1..Len(windows)
      /\ Len(tokens) \in Nat /\ DOMAIN tokens = 1..Len(tokens) /\ Need \in Nat
  BY LenProperties, RowSizes
<1>3. x = [k \in 1..Len(windows) |->
             IF k > c THEN Overwritten(windows[k], tokens) ELSE windows[k]]
  BY <1>1, <1>2 DEF WriteThrough
<1>4. ASSUME NEW k \in 1..Len(windows)
      PROVE  x[k] \in Seq(T) /\ Len(x[k]) = Need
  <2>1. PICK r : r = windows[k]
    OBVIOUS
  <2>2. r \in Seq(T) /\ Len(r) = Need /\ DOMAIN r = 1..Need
    <3>1. r \in Seq(T) /\ Len(r) = Need
      BY <1>2, <2>1, ElementOfSeq
    <3>2. QED  BY <3>1, LenProperties
  <2>3. Overwritten(r, tokens) \in Seq(T) /\ Len(Overwritten(r, tokens)) = Need
    <3>1. ASSUME NEW i \in 1..Need
          PROVE  (IF i <= Len(tokens) THEN tokens[i] ELSE r[i]) \in T
      <4>1. r[i] \in T
        BY <2>2, ElementOfSeq
      <4>2. i <= Len(tokens) => i \in 1..Len(tokens)
        BY ONLY <1>2, i \in 1..Need
      <4>3. i <= Len(tokens) => tokens[i] \in T
        BY <1>2, <4>2, ElementOfSeq
      <4>4. QED  BY <4>1, <4>3
    <3>2. PICK o : o = Overwritten(r, tokens)
      OBVIOUS
    <3>3. o \in [1..Need -> T]
      BY <3>1, <3>2 DEF Overwritten
    <3>4. o \in Seq(T) /\ Len(o) = Need
      BY ONLY <1>2, <3>3
    <3>5. QED  BY <3>2, <3>4
  <2>4. QED  BY <1>3, <2>1, <2>2, <2>3
<1>5. x \in Seq(Seq(T)) /\ Len(x) = Len(windows) /\ DOMAIN x = 1..Len(windows)
  <2>1. x \in [1..Len(windows) -> Seq(T)]
    BY <1>3, <1>4
  <2>2. QED  BY ONLY <1>2, <2>1, Tabled
<1>6. QED  BY <1>2, <1>4, <1>5

\* A step that reads nothing.
LEMMA TypesStep ==
  ASSUME StreamTypes, UNCHANGED <<config, reading>>, phase' \in Phases,
         phase' = "window" => mode = "contiguous",
         phase' \in {"split", "pack", "fill"} => mode = "multi_sample",
         phase' \in {"feed", "split", "window"} => shard # 0,
         carry' \in Seq(Position), queue' \in Seq(Pieces),
         packed' \in Seq(Position \cup {Sep}), Len(packed') <= Need,
         segments' \in 0..MaxSegments,
         rows' \in Seq(Seq(Position \cup {Sep, Pad})),
         \A k \in DOMAIN rows' : Len(rows'[k]) = Need
  PROVE  StreamTypes'
<1>1. Position' = Position
  BY DEF Position, reading
<1>2. QED  BY <1>1 DEF StreamTypes, Pieces, config, reading

LEMMA ReadTypes ==
  ASSUME StreamTypes, ReadBlock, phase' \in {"feed", "split", "window"},
         phase' = "window" => mode = "contiguous",
         phase' = "split" => mode = "multi_sample",
         rows' = rows \/ rows' = WriteThrough(rows, carry'),
         capacity' \in Nat, released' \in Nat
  PROVE  StreamTypes'
<1>1. PICK n \in Nat \ {0} :
        /\ Len(stream') = Len(stream) + n /\ stream' \in Seq(BOOLEAN)
        /\ carry' \in Seq(Int) /\ Len(carry') = Len(carry) + n
        /\ \A i \in 1..Len(carry) : carry'[i] = carry[i]
        /\ \A i \in 1..n : carry'[Len(carry) + i] = Len(stream) + i
        /\ cuts' = cuts \cup {Len(stream) + 1}
        /\ offset' \in Nat
  BY ChunkRead
<1>2. /\ Len(stream) \in Nat /\ Len(carry) \in Nat
      /\ \A i \in 1..Len(carry) : carry[i] \in Position
  BY Sequences
<1>3. Position \subseteq Position' /\ Len(stream) + 1 \in Position'
      /\ \A i \in 1..n : Len(stream) + i \in Position'
  BY <1>1, <1>2 DEF Position
<1>4. carry' \in Seq(Position')
  <2>1. ASSUME NEW i \in 1..Len(carry') PROVE carry'[i] \in Position'
    <3>1. CASE i <= Len(carry)
      <4>1. i \in 1..Len(carry)
        BY <1>1, <1>2, <3>1
      <4>2. QED  BY <1>1, <1>2, <1>3, <4>1
    <3>2. CASE ~(i <= Len(carry))
      <4>1. i - Len(carry) \in 1..n /\ Len(carry) + (i - Len(carry)) = i
        BY <1>1, <1>2, <3>2
      <4>2. QED  BY <1>1, <1>3, <4>1
    <3>3. QED  BY <3>1, <3>2
  <2>2. QED  BY <1>1, <2>1, WithinSet
<1>5. cuts' \subseteq Position'
  BY <1>1, <1>3 DEF StreamTypes
<1>6. /\ queue' \in Seq(Seq(Position') \ {<<>>})
      /\ packed' \in Seq(Position' \cup {Sep})
      /\ rows' \in Seq(Seq(Position' \cup {Sep, Pad}))
      /\ \A k \in DOMAIN rows' : Len(rows'[k]) = Need
  <2>1. queue' = queue /\ packed' = packed
    BY DEF ReadBlock
  <2>2. Seq(Position) \ {<<>>} \subseteq Seq(Position') \ {<<>>}
    BY <1>3, SeqMonotonic
  <2>3. Position \cup {Sep} \subseteq Position' \cup {Sep}
    BY <1>3
  <2>4. Seq(Position \cup {Sep, Pad}) \subseteq Seq(Position' \cup {Sep, Pad})
    <3>1. Position \cup {Sep, Pad} \subseteq Position' \cup {Sep, Pad}
      BY <1>3
    <3>2. QED  BY <3>1, SeqMonotonic
  <2>5. queue \in Seq(Seq(Position') \ {<<>>})
    BY <2>2, SeqMonotonic DEF StreamTypes
  <2>6. packed \in Seq(Position' \cup {Sep})
    BY <2>3, SeqMonotonic DEF StreamTypes
  <2>7. rows \in Seq(Seq(Position' \cup {Sep, Pad}))
    BY <2>4, SeqMonotonic DEF StreamTypes
  <2>8. /\ rows' \in Seq(Seq(Position' \cup {Sep, Pad}))
        /\ \A k \in DOMAIN rows' : Len(rows'[k]) = Need
    <3>1. \A k \in DOMAIN rows : Len(rows[k]) = Need
      BY DEF StreamTypes
    <3>2. CASE rows' = rows
      BY <2>7, <3>1, <3>2
    <3>3. CASE rows' = WriteThrough(rows, carry')
      <4>1. carry' \in Seq(Position' \cup {Sep, Pad})
        BY <1>4, SeqMonotonic
      <4>2. QED  BY <2>7, <3>1, <3>3, <4>1, Rewritten
    <3>4. QED  BY <3>2, <3>3
  <2>9. QED  BY <2>1, <2>5, <2>6, <2>8
<1>7. /\ config' = config /\ shard' = shard /\ phase = "feed"
      /\ packed' = packed /\ segments' = segments
  BY DEF ReadBlock
<1>8. /\ mode' = mode /\ padTail' = padTail /\ shards' = shards /\ shard # 0
  BY <1>7 DEF config, StreamTypes
<1>9. QED
  BY <1>1, <1>4, <1>5, <1>6, <1>7, <1>8 DEF StreamTypes, Phases

\* A step of the loop over shards.
LEMMA ShardTypes ==
  ASSUME StreamTypes, SkipShard \/ OpenShard \/ EndShard \/ NextBlock
  PROVE  StreamTypes'
<1>1. /\ UNCHANGED <<config, stream, cuts, carry, capacity, released, queue, packing>>
      /\ mode' = mode /\ padTail' = padTail /\ shards' = shards
      /\ packed' = packed /\ segments' = segments /\ rows' = rows
  BY DEF SkipShard, OpenShard, EndShard, NextBlock, config, reading, packing
<1>2. Position' = Position
  BY <1>1 DEF Position
<1>3. /\ phase' \in Phases /\ shard' \in 0..Shards /\ offset' \in Nat
      /\ phase' # "window" /\ phase' # "split" /\ phase' # "fill"
      /\ phase' = "pack" => mode = "multi_sample"
      /\ phase' = "feed" => shard' # 0
  <2>1. CASE SkipShard
    BY <2>1, RowSizes DEF SkipShard, StreamTypes, Phases
  <2>2. CASE OpenShard
    <3>1. shard' \in 1..Shards /\ offset' = 0 /\ phase' = "feed"
      BY <2>2, RowSizes DEF OpenShard, StreamTypes
    <3>2. QED  BY <3>1 DEF Phases
  <2>3. CASE EndShard
    BY <2>3 DEF EndShard, StreamTypes, Phases, reading
  <2>4. CASE NextBlock
    <3>1. phase = "window" /\ phase' = "feed" /\ UNCHANGED <<shard, offset>>
      BY <2>4 DEF NextBlock, reading
    <3>2. QED  BY <3>1 DEF StreamTypes, Phases
  <2>5. QED  BY <2>1, <2>2, <2>3, <2>4
<1>4. QED  BY <1>1, <1>2, <1>3 DEF StreamTypes

--------------------------------------------------------------------------------
(***************************************************************************)
(* The order of what is yielded, packed, queued and carried over.           *)
(***************************************************************************)
Multi == mode = "multi_sample"

\* The stream grows, and where it was cut before is not cut again.
Extends ==
  /\ Len(stream') \in Nat /\ Len(stream) <= Len(stream')
  /\ \A i \in Position : stream'[i] = stream[i]
  /\ cuts \subseteq cuts'
  /\ Len(stream) < Len(stream') => Len(stream) + 1 \in cuts'
  /\ cuts' \subseteq cuts \cup {Len(stream) + 1}

\* What is after nothing that may still come.
LEMMA ComingPieces ==
  ASSUME StreamTypes, NEW k \in DOMAIN queue
  PROVE  \A i \in DOMAIN queue[k] :
           queue[k][i] \in Nat /\ IsText(queue[k][i]) /\ Coming(queue[k][i])
<1>1. PICK q : q = queue[k]
  OBVIOUS
<1>2. \A i \in DOMAIN q : q[i] \in Position /\ Len(stream) \in Nat
  BY <1>1, Sequences
<1>3. ASSUME NEW i \in DOMAIN q PROVE q[i] \in Nat /\ IsText(q[i]) /\ Coming(q[i])
  <2>1. q[i] \in Nat /\ IsText(q[i])
    BY <1>2 DEF Position, IsText
  <2>2. q[i] \in Text(q)
    BY <2>1, TextIn
  <2>3. QED  BY <1>1, <2>1, <2>2 DEF Coming
<1>4. QED  BY <1>1, <1>3

LEMMA SameStream ==
  ASSUME UNCHANGED reading
  PROVE  /\ Position' = Position /\ Len(stream') = Len(stream)
         /\ stream' = stream /\ cuts' = cuts
         /\ \A p : EndsPiece(p)' <=> EndsPiece(p)
         /\ \A p : StartsPiece(p)' <=> StartsPiece(p)
         /\ \A p : CutShort(p)' <=> CutShort(p)
         /\ \A s : NoDelimiter(s)' <=> NoDelimiter(s)
<1>1. stream' = stream /\ cuts' = cuts
  BY DEF reading
<1>2. QED
  BY <1>1 DEF Position, EndsPiece, StartsPiece, CutShort, NoDelimiter

\* The end of a piece and a piece without delimiter remain so.
LEMMA Stable ==
  ASSUME Extends, Len(stream) \in Nat
  PROVE  /\ \A p \in Position : EndsPiece(p) => EndsPiece(p)'
         /\ \A p \in Position : StartsPiece(p) => StartsPiece(p)'
         /\ \A p \in Position : CutShort(p) => CutShort(p)'
         /\ \A s : NoDelimiter(s) /\ (\A i \in DOMAIN s : IsText(s[i]) => s[i] \in Position)
                     => NoDelimiter(s)'
<1>1. ASSUME NEW p \in Position, EndsPiece(p) PROVE EndsPiece(p)'
  <2> SUFFICES ASSUME p + 1 \in Position'
               PROVE  stream'[p + 1] \/ p + 1 \in cuts'
    BY DEF EndsPiece
  <2>1. CASE p + 1 \in Position
    BY <1>1, <2>1 DEF EndsPiece, Extends
  <2>2. CASE p + 1 \notin Position
    <3>1. p = Len(stream) /\ Len(stream) < Len(stream')
      BY <2>2 DEF Position, Extends
    <3>2. QED  BY <3>1 DEF Extends
  <2>3. QED  BY <2>1, <2>2
<1>2. ASSUME NEW p \in Position, StartsPiece(p) PROVE StartsPiece(p)'
  <2>1. CASE p \in cuts
    BY <2>1 DEF StartsPiece, Extends
  <2>2. CASE p > 1 /\ stream[p - 1]
    <3>1. p - 1 \in Position
      BY <2>2 DEF Position
    <3>2. QED  BY <2>2, <3>1 DEF StartsPiece, Extends
  <2>3. QED  BY <1>2, <2>1, <2>2 DEF StartsPiece
<1>3. ASSUME NEW p \in Position, CutShort(p) PROVE CutShort(p)'
  <2>1. PICK b \in 1..p, d \in p..Len(stream) :
          /\ StartsPiece(b) /\ stream[d] /\ \A q \in b..(d - 1) : ~stream[q]
          /\ d - b < MinDoc
    BY <1>3 DEF CutShort
  <2>2. b \in Position /\ d \in Position /\ d \in p..Len(stream')
    BY DEF Position, Extends
  <2>3. StartsPiece(b)'
    BY <1>2, <2>1, <2>2
  <2>4. stream'[d]
    BY <2>1, <2>2 DEF Extends
  <2>5. ASSUME NEW q \in b..(d - 1) PROVE ~stream'[q]
    <3>1. q \in Position
      BY <2>2 DEF Position
    <3>2. QED  BY <2>1, <3>1 DEF Extends
  <2>6. QED  BY <2>1, <2>2, <2>3, <2>4, <2>5 DEF CutShort
<1>4. ASSUME NEW s, NoDelimiter(s), \A i \in DOMAIN s : IsText(s[i]) => s[i] \in Position
      PROVE  NoDelimiter(s)'
  BY <1>4 DEF NoDelimiter, Extends
<1>5. QED  BY <1>1, <1>2, <1>3, <1>4

(***************************************************************************)
(* The queue.                                                               *)
(***************************************************************************)
LEMMA PieceStays ==
  ASSUME UNCHANGED reading, CarryFrom \in Int, CarryFrom' \in Int, CarryFrom <= CarryFrom',
         NEW s, PieceInOrder(s), \A i \in DOMAIN s : s[i] \in Int
  PROVE  PieceInOrder(s)'
<1>1. Below(s, CarryFrom')
  BY DEF PieceInOrder, Below
<1>2. Run(s) /\ NoDelimiter(s)' /\ EndsPiece(s[Len(s)])'
  BY SameStream DEF PieceInOrder
<1>3. QED  BY <1>1, <1>2 DEF PieceInOrder

LEMMA SamePiece ==
  ASSUME NEW k, NEW s, queue'[k] = s, PieceInOrder(s)'
  PROVE  PieceInOrder(queue[k])'
BY DEF PieceInOrder, Run, NoDelimiter, Below, EndsPiece, IsText

\* A document is added to the queue, from the beginning of the carry.
LEMMA QueueAppended ==
  ASSUME StreamTypes, QueueInOrder, UNCHANGED reading,
         CarryFrom \in Int, CarryFrom' \in Int, CarryFrom <= CarryFrom',
         NEW piece \in Pieces, queue' = Append(queue, piece),
         Run(piece), NoDelimiter(piece), Below(piece, CarryFrom'),
         \A i \in DOMAIN piece : CarryFrom <= piece[i],
         EndsPiece(piece[Len(piece)])
  PROVE  /\ queue' \in Seq(Pieces) /\ QueueInOrder'
         /\ \A t \in Nat : Coming(t)' => Coming(t)
<1>1. queue \in Seq(Pieces) /\ Len(queue) \in Nat /\ DOMAIN queue = 1..Len(queue)
  BY Sequences DEF StreamTypes, Pieces
<1>2. /\ queue' \in Seq(Pieces) /\ Len(queue') = Len(queue) + 1
      /\ \A k \in 1..Len(queue) : queue'[k] = queue[k]
      /\ queue'[Len(queue) + 1] = piece
  BY <1>1, AppendProperties
<1>3. DOMAIN queue' = 1..(Len(queue) + 1)
  BY <1>2, LenProperties
<1>4. \A k \in DOMAIN queue' : \/ k \in DOMAIN queue /\ queue'[k] = queue[k]
                               \/ k = Len(queue) + 1 /\ queue'[k] = piece
  BY <1>1, <1>2, <1>3
<1>5. ASSUME NEW k \in DOMAIN queue' PROVE PieceInOrder(queue[k])'
  <2>1. CASE k \in DOMAIN queue /\ queue'[k] = queue[k]
    <3>1. PICK q : q = queue[k]
      OBVIOUS
    <3>2. PieceInOrder(q) /\ \A i \in DOMAIN q : q[i] \in Int
      BY <2>1, <3>1, ComingPieces DEF QueueInOrder
    <3>3. PieceInOrder(q)'
      BY <3>2, PieceStays
    <3>4. QED  BY <2>1, <3>1, <3>3, SamePiece
  <2>2. CASE k = Len(queue) + 1 /\ queue'[k] = piece
    <3>1. PieceInOrder(piece)'
      BY SameStream DEF PieceInOrder
    <3>2. QED  BY <2>2, <3>1, SamePiece
  <2>3. QED  BY <1>4, <2>1, <2>2
<1>6. ASSUME NEW k \in DOMAIN queue', NEW l \in DOMAIN queue', k < l
      PROVE  Precedes(queue'[k], queue'[l])
  <2>1. k \in DOMAIN queue /\ queue'[k] = queue[k]
    BY <1>1, <1>3, <1>4, <1>6
  <2>2. CASE l \in DOMAIN queue /\ queue'[l] = queue[l]
    BY <1>6, <2>1, <2>2 DEF QueueInOrder
  <2>3. CASE l = Len(queue) + 1 /\ queue'[l] = piece
    <3>1. \A i \in DOMAIN queue[k] : queue[k][i] \in Int /\ queue[k][i] < CarryFrom
      BY <2>1, ComingPieces DEF QueueInOrder, PieceInOrder, Below
    <3>2. \A j \in DOMAIN piece : piece[j] \in Int
      BY LenProperties, ElementOfSeq, Sequences DEF Pieces, Position
    <3>3. QED  BY <2>1, <2>3, <3>1, <3>2 DEF Precedes, Below
  <2>4. QED  BY <1>4, <2>2, <2>3
<1>7. ASSUME NEW t \in Nat, Coming(t)' PROVE Coming(t)
  <2>1. CASE t >= CarryFrom'
    BY <2>1 DEF Coming
  <2>2. CASE \E k \in DOMAIN queue' : t \in Text(queue'[k])
    <3>1. PICK k \in DOMAIN queue' : t \in Text(queue'[k])
      BY <2>2
    <3>2. CASE k \in DOMAIN queue /\ queue'[k] = queue[k]
      BY <3>1, <3>2 DEF Coming
    <3>3. CASE k = Len(queue) + 1 /\ queue'[k] = piece
      BY <3>1, <3>3, TextIn DEF Coming
    <3>4. QED  BY <1>4, <3>2, <3>3
  <2>3. QED  BY <1>7, <2>1, <2>2 DEF Coming
<1>8. QED  BY <1>2, <1>5, <1>6, <1>7 DEF QueueInOrder

\* The queue is one piece shorter, or its first piece is cut.
LEMMA QueueShorter ==
  ASSUME StreamTypes, QueueInOrder, UNCHANGED <<reading, carry>>, queue # <<>>,
         queue' \in Seq(Pieces), NEW was \in [DOMAIN queue' -> DOMAIN queue],
         \A k, l \in DOMAIN queue' : k < l => was[k] < was[l],
         \A k \in DOMAIN queue' :
           \/ queue'[k] = queue[was[k]]
           \/ /\ was[k] = 1 /\ PieceInOrder(queue'[k])
              /\ \A i \in DOMAIN queue'[k] : queue'[k][i] \in Text(queue[1])
  PROVE  /\ QueueInOrder'
         /\ \A t \in Nat : Coming(t)' => Coming(t)
<1>1. /\ DOMAIN queue' = 1..Len(queue') /\ DOMAIN queue = 1..Len(queue)
      /\ Len(queue) \in Nat /\ Len(queue') \in Nat
  BY Sequences, LenProperties
<1>2. CarryFrom' = CarryFrom /\ CarryFrom \in Int
  BY Sequences DEF CarryFrom, reading
<1>3. \A k \in DOMAIN queue : \A i \in DOMAIN queue[k] : queue[k][i] \in Int
  BY ComingPieces
<1>4. ASSUME NEW k \in DOMAIN queue' PROVE PieceInOrder(queue[k])'
  <2>1. CASE queue'[k] = queue[was[k]]
    <3>1. PICK q : q = queue[was[k]]
      OBVIOUS
    <3>2. PieceInOrder(q) /\ \A i \in DOMAIN q : q[i] \in Int
      BY <1>1, <1>3, <3>1 DEF QueueInOrder
    <3>3. PieceInOrder(q)'
      BY <1>2, <3>2, PieceStays
    <3>4. QED  BY <2>1, <3>1, <3>3, SamePiece
  <2>2. CASE /\ was[k] = 1 /\ PieceInOrder(queue'[k])
             /\ \A i \in DOMAIN queue'[k] : queue'[k][i] \in Text(queue[1])
    <3>1. PICK q : q = queue'[k]
      OBVIOUS
    <3>2. PieceInOrder(q) /\ \A i \in DOMAIN q : q[i] \in Int
      <4>1. 1 \in DOMAIN queue
        BY <1>1, <2>2
      <4>2. \A i \in DOMAIN q : \E j \in DOMAIN queue[1] : queue[1][j] = q[i]
        BY <2>2, <3>1 DEF Text
      <4>3. QED  BY <1>3, <2>2, <3>1, <4>1, <4>2
    <3>3. PieceInOrder(q)'
      BY <1>2, <3>2, PieceStays
    <3>4. QED  BY <3>1, <3>3, SamePiece
  <2>3. QED  BY <1>1, <2>1, <2>2
<1>5. ASSUME NEW k \in DOMAIN queue', NEW t \in Text(queue'[k])
      PROVE  t \in Text(queue[was[k]]) /\ was[k] \in DOMAIN queue
  <2>1. CASE queue'[k] = queue[was[k]]
    BY <1>1, <2>1
  <2>2. CASE was[k] = 1 /\ \A i \in DOMAIN queue'[k] : queue'[k][i] \in Text(queue[1])
    <3>1. t \in Text(queue[1])
      BY <2>2, TextIn
    <3>2. QED  BY <1>1, <2>2, <3>1
  <2>3. QED  BY <1>1, <2>1, <2>2
<1>6. ASSUME NEW k \in DOMAIN queue', NEW l \in DOMAIN queue', k < l
      PROVE  Precedes(queue'[k], queue'[l])
  <2>1. was[k] \in DOMAIN queue /\ was[l] \in DOMAIN queue /\ was[k] < was[l]
    BY <1>6
  <2>2. queue'[l] = queue[was[l]]
    <3>1. was[l] # 1
      BY <1>1, <2>1
    <3>2. QED  BY <3>1
  <2>3. Precedes(queue[was[k]], queue[was[l]])
    BY <2>1 DEF QueueInOrder
  <2>4. SUFFICES ASSUME NEW j \in DOMAIN queue'[l], IsText(queue'[l][j]),
                        NEW i \in DOMAIN queue'[k]
                 PROVE  queue'[k][i] < queue'[l][j]
    BY DEF Precedes, Below
  <2>5. \E h \in DOMAIN queue[was[k]] : queue[was[k]][h] = queue'[k][i]
    <3>1. CASE queue'[k] = queue[was[k]]
      BY <3>1
    <3>2. CASE /\ was[k] = 1
               /\ \A h \in DOMAIN queue'[k] : queue'[k][h] \in Text(queue[1])
      BY <3>2, TextIn
    <3>3. QED  BY <1>1, <3>1, <3>2
  <2>6. QED  BY <2>2, <2>3, <2>4, <2>5 DEF Precedes, Below
<1>7. ASSUME NEW t \in Nat, Coming(t)' PROVE Coming(t)
  <2>1. CASE t >= CarryFrom'
    BY <1>2, <2>1 DEF Coming
  <2>2. CASE \E k \in DOMAIN queue' : t \in Text(queue'[k])
    BY <1>5, <2>2 DEF Coming
  <2>3. QED  BY <1>7, <2>1, <2>2 DEF Coming
<1>8. QED  BY <1>4, <1>6, <1>7 DEF QueueInOrder

\* The first piece of the queue.
LEMMA First ==
  ASSUME StreamTypes, QueueInOrder, queue # <<>>
  PROVE  /\ 1 \in DOMAIN queue /\ Head(queue) = queue[1] /\ Head(queue) \in Pieces
         /\ Head(queue) \in Seq(Int) /\ Len(Head(queue)) \in Nat /\ Len(Head(queue)) >= 1
         /\ DOMAIN Head(queue) = 1..Len(Head(queue))
         /\ \A i \in DOMAIN Head(queue) :
              Head(queue)[i] \in Position /\ Head(queue)[i] \in Text(Head(queue))
         /\ PieceInOrder(Head(queue))
         /\ \A t \in Text(Head(queue)) : t \in Nat /\ Coming(t) /\ t \in Position
<1>1. queue \in Seq(Pieces) /\ DOMAIN queue = 1..Len(queue) /\ Len(queue) \in Nat
  BY Sequences DEF StreamTypes, Pieces
<1>2. 1 \in DOMAIN queue /\ Head(queue) = queue[1]
  BY <1>1, EmptySeq
<1>3. PICK h : h = Head(queue)
  OBVIOUS
<1>4. /\ h \in Pieces /\ h \in Seq(Int) /\ Len(h) \in Nat /\ Len(h) >= 1
      /\ DOMAIN h = 1..Len(h) /\ \A i \in DOMAIN h : h[i] \in Position
  BY <1>2, <1>3, Sequences DEF Pieces
<1>5. PieceInOrder(h) /\ \A i \in DOMAIN h : h[i] \in Nat /\ IsText(h[i]) /\ Coming(h[i])
  BY <1>2, <1>3, ComingPieces DEF QueueInOrder
<1>6. \A i \in DOMAIN h : h[i] \in Text(h)
  BY <1>5, TextIn
<1>7. \A t \in Text(h) : t \in Nat /\ Coming(t) /\ t \in Position
  BY <1>4, <1>5, TextIn
<1>8. QED  BY <1>2, <1>3, <1>4, <1>5, <1>6, <1>7

\* The first piece is taken.
LEMMA QueueTail ==
  ASSUME StreamTypes, QueueInOrder, UNCHANGED <<reading, carry>>, queue # <<>>,
         queue' = Tail(queue)
  PROVE  /\ queue' \in Seq(Pieces) /\ QueueInOrder'
         /\ \A t \in Nat : Coming(t)' => Coming(t) /\ Below(Head(queue), t)
         /\ \A k \in DOMAIN queue' : k + 1 \in DOMAIN queue /\ queue'[k] = queue[k + 1]
         /\ \A k \in DOMAIN queue : k # 1 => k - 1 \in DOMAIN queue' /\ queue'[k - 1] = queue[k]
<1>1. queue \in Seq(Pieces) /\ DOMAIN queue = 1..Len(queue) /\ Len(queue) \in Nat
  BY Sequences DEF StreamTypes, Pieces
<1>2. /\ queue' \in Seq(Pieces) /\ Len(queue') = Len(queue) - 1
      /\ \A k \in 1..Len(queue') : queue'[k] = queue[k + 1]
  BY <1>1, HeadTailProperties
<1>3. DOMAIN queue' = 1..Len(queue') /\ Len(queue') \in Nat
  BY <1>2, LenProperties
<1>4. \A k \in 1..Len(queue') : k + 1 \in DOMAIN queue
  BY <1>1, <1>2, <1>3
<1>5. /\ QueueInOrder' /\ \A t \in Nat : Coming(t)' => Coming(t)
  <2>1. PICK was : was = [k \in DOMAIN queue' |-> k + 1]
    OBVIOUS
  <2>2. /\ was \in [DOMAIN queue' -> DOMAIN queue]
        /\ \A k, l \in DOMAIN queue' : k < l => was[k] < was[l]
        /\ \A k \in DOMAIN queue' : queue'[k] = queue[was[k]]
    BY <1>2, <1>3, <1>4, <2>1
  <2>3. QED  BY <1>2, <2>2, QueueShorter
<1>6. ASSUME NEW t \in Nat, Coming(t)' PROVE Below(Head(queue), t)
  <2>1. CarryFrom' = CarryFrom /\ CarryFrom \in Int
    BY Sequences DEF CarryFrom, reading
  <2>2. /\ 1 \in DOMAIN queue /\ Head(queue) = queue[1] /\ PieceInOrder(Head(queue))
        /\ \A i \in DOMAIN Head(queue) : Head(queue)[i] \in Position
    BY First
  <2>3. CASE t >= CarryFrom'
    <3>1. \A i \in DOMAIN Head(queue) : Head(queue)[i] \in Int
      BY <2>2, <1>1, Sequences DEF Position
    <3>2. QED  BY <2>1, <2>2, <2>3, <3>1 DEF PieceInOrder, Below
  <2>4. CASE \E k \in DOMAIN queue' : t \in Text(queue'[k])
    <3>1. PICK k \in DOMAIN queue' : t \in Text(queue'[k])
      BY <2>4
    <3>2. k + 1 \in DOMAIN queue /\ 1 < k + 1 /\ t \in Text(queue[k + 1])
      BY <1>2, <1>3, <1>4, <3>1
    <3>3. Precedes(queue[1], queue[k + 1])
      BY <2>2, <3>2 DEF QueueInOrder
    <3>4. QED  BY <2>2, <3>2, <3>3, TextIn DEF Precedes
  <2>5. QED  BY <1>6, <2>3, <2>4 DEF Coming
<1>7. ASSUME NEW k \in DOMAIN queue, k # 1
      PROVE  k - 1 \in DOMAIN queue' /\ queue'[k - 1] = queue[k]
  <2>1. k - 1 \in 1..Len(queue') /\ (k - 1) + 1 = k
    BY <1>1, <1>2, <1>7
  <2>2. QED  BY <1>2, <1>3, <2>1
<1>8. QED  BY <1>2, <1>3, <1>4, <1>5, <1>6, <1>7

\* The first piece is cut after a row, and its rest stays.
LEMMA QueueRest ==
  ASSUME StreamTypes, QueueInOrder, UNCHANGED <<reading, carry>>, queue # <<>>,
         Len(Head(queue)) > Need,
         NEW rest, rest = SubSeq(Head(queue), Need + 1, Len(Head(queue))),
         queue' = <<rest>> \o Tail(queue),
         NEW row, row = SubSeq(Head(queue), 1, Need)
  PROVE  /\ queue' \in Seq(Pieces) /\ QueueInOrder'
         /\ \A t \in Nat : Coming(t)' => Coming(t) /\ Below(row, t)
         /\ row \in Seq(Int) /\ row \in Seq(Position) /\ Len(row) = Need
         /\ Rising(row) /\ Separate(row) /\ NoDelimiter(row)
         /\ \A t \in Text(row) : t \in Nat /\ Coming(t)
         /\ DOMAIN queue' = DOMAIN queue
         /\ \A t \in Text(queue[1]) : t \in Text(row) \/ t \in Text(queue'[1])
         /\ \A k \in DOMAIN queue : k # 1 => queue'[k] = queue[k]
         /\ Text(row) \cup Text(queue'[1]) \subseteq Text(queue[1])
<1>1. queue \in Seq(Pieces) /\ DOMAIN queue = 1..Len(queue) /\ Len(queue) \in Nat
  BY Sequences DEF StreamTypes, Pieces
<1>2. PICK h : h = Head(queue)
  OBVIOUS
<1>3. /\ 1 \in DOMAIN queue /\ h = queue[1] /\ h \in Seq(Int) /\ Len(h) \in Nat
      /\ DOMAIN h = 1..Len(h) /\ Need \in Nat /\ Need >= 1 /\ Len(h) > Need
      /\ \A i \in DOMAIN h : h[i] \in Position /\ h[i] \in Text(h)
      /\ PieceInOrder(h) /\ \A t \in Text(h) : t \in Nat /\ Coming(t)
  BY <1>2, First, RowSizes
<1>4. rest = SubSeq(h, Need + 1, Len(h)) /\ row = SubSeq(h, 1, Need)
  BY <1>2
<1>5. /\ row \in Seq(Int) /\ Len(row) = Need /\ DOMAIN row = 1..Need
      /\ \A i \in 1..Need : row[i] = h[i] /\ i \in DOMAIN h
      /\ Text(row) \subseteq Text(h) /\ NoDelimiter(row) /\ Run(row)
  <2>1. Need - 1 + 1 = Need /\ \A i \in 1..Need : 1 + i - 1 = i
    BY <1>3
  <2>2. Run(h) /\ NoDelimiter(h)
    BY <1>3 DEF PieceInOrder
  <2>3. 1 \in Nat /\ 1 >= 1 /\ Need <= Len(h) /\ 1 <= Need + 1
    BY ONLY <1>3
  <2>4. /\ row \in Seq(Int) /\ Len(row) = Need - 1 + 1 /\ DOMAIN row = 1..(Need - 1 + 1)
        /\ \A i \in 1..(Need - 1 + 1) : row[i] = h[1 + i - 1] /\ 1 + i - 1 \in DOMAIN h
        /\ Text(row) \subseteq Text(h) /\ NoDelimiter(row) /\ Run(row)
    BY ONLY <1>3, <1>4, <2>2, <2>3, Cut
  <2>5. QED  BY ONLY <2>1, <2>4
<1>6. /\ rest \in Seq(Int) /\ Len(rest) = Len(h) - Need /\ DOMAIN rest = 1..Len(rest)
      /\ \A i \in 1..(Len(h) - Need) : rest[i] = h[Need + i] /\ Need + i \in DOMAIN h
      /\ Text(rest) \subseteq Text(h) /\ NoDelimiter(rest) /\ Run(rest)
      /\ Below(rest, CarryFrom)
  <2>0. PICK n \in Nat : n = Len(h)
    BY <1>3
  <2>1. PICK m \in Nat : m = Need + 1
    BY <1>3
  <2>2. /\ m >= 1 /\ n <= Len(h) /\ m <= n + 1 /\ n - m + 1 = Len(h) - Need
        /\ \A i \in 1..(Len(h) - Need) : m + i - 1 = Need + i
    BY ONLY <1>3, <2>0, <2>1, m \in Nat, n \in Nat
  <2>3. Run(h) /\ NoDelimiter(h) /\ Below(h, CarryFrom) /\ h \in Seq(Int)
    BY <1>3 DEF PieceInOrder
  <2>4. rest = SubSeq(h, m, n)
    BY <1>4, <2>0, <2>1
  <2>5. /\ rest \in Seq(Int) /\ Len(rest) = n - m + 1 /\ DOMAIN rest = 1..(n - m + 1)
        /\ \A i \in 1..(n - m + 1) : rest[i] = h[m + i - 1] /\ m + i - 1 \in DOMAIN h
        /\ Text(rest) \subseteq Text(h) /\ NoDelimiter(rest) /\ Run(rest)
        /\ Below(rest, CarryFrom)
    BY ONLY <2>2, <2>3, <2>4, m \in Nat, n \in Nat, Cut
  <2>6. QED  BY ONLY <2>2, <2>5
<1>7. Len(rest) \in Nat /\ Len(rest) >= 1 /\ rest[Len(rest)] = h[Len(h)]
  <2>1. Len(rest) \in 1..(Len(h) - Need) /\ Need + (Len(h) - Need) = Len(h)
    BY <1>3, <1>6
  <2>2. QED  BY <1>6, <2>1
<1>8. PieceInOrder(rest)
  BY <1>3, <1>6, <1>7 DEF PieceInOrder
<1>9. rest \in Pieces /\ row \in Seq(Position)
  <2>1. \A i \in 1..Len(rest) : rest[i] \in Position
    BY <1>3, <1>6
  <2>2. rest \in Seq(Position) /\ rest # <<>>
    <3>1. rest \in Seq(Position)
      BY <1>6, <2>1, WithinSet
    <3>2. rest # <<>>
      BY ONLY <1>7, Len(<<>>) = 0
    <3>3. QED  BY <3>1, <3>2
  <2>3. \A i \in 1..Len(row) : row[i] \in Position
    BY <1>3, <1>5
  <2>4. QED  BY <1>5, <2>2, <2>3, WithinSet DEF Pieces
<1>10. /\ Tail(queue) \in Seq(Pieces) /\ Len(Tail(queue)) = Len(queue) - 1
       /\ \A k \in 1..(Len(queue) - 1) : Tail(queue)[k] = queue[k + 1]
  BY <1>1, HeadTailProperties
<1>11. PICK T \in Seq(Pieces) : T = Tail(queue)
  BY <1>10
<1>12. /\ queue' \in Seq(Pieces) /\ Len(queue') = Len(queue)
       /\ \A k \in 1..Len(queue) : queue'[k] = IF k <= 1 THEN rest ELSE T[k - 1]
  <2>1. <<rest>> \in Seq(Pieces) /\ Len(<<rest>>) = 1 /\ <<rest>>[1] = rest
    BY <1>9, Single
  <2>2. PICK R \in Seq(Pieces) : R = <<rest>>
    BY <2>1
  <2>3. /\ queue' \in Seq(Pieces) /\ Len(queue') = Len(R) + Len(T)
        /\ \A k \in 1..(Len(R) + Len(T)) : queue'[k] = IF k <= Len(R) THEN R[k] ELSE T[k - Len(R)]
    BY <1>11, <2>2, ConcatProperties
  <2>4. Len(R) = 1 /\ R[1] = rest
    BY <2>1, <2>2
  <2>5. Len(T) = Len(queue) - 1 /\ Len(R) + Len(T) = Len(queue)
    BY <1>1, <1>10, <1>11, <2>4
  <2>6. ASSUME NEW k \in 1..Len(queue)
        PROVE  queue'[k] = IF k <= 1 THEN rest ELSE T[k - 1]
    <3>1. queue'[k] = IF k <= 1 THEN R[k] ELSE T[k - 1]
      BY <2>3, <2>4, <2>5
    <3>2. k <= 1 => k = 1
      BY <1>1
    <3>3. QED  BY <2>4, <3>1, <3>2
  <2>7. QED  BY <2>3, <2>5, <2>6
<1>13. DOMAIN queue' = DOMAIN queue /\ queue'[1] = rest
  BY <1>1, <1>3, <1>12, LenProperties
<1>14. ASSUME NEW k \in DOMAIN queue, k # 1 PROVE queue'[k] = queue[k]
  <2>1. k - 1 \in 1..(Len(queue) - 1) /\ (k - 1) + 1 = k /\ ~(k <= 1) /\ k \in 1..Len(queue)
    BY <1>1, <1>14
  <2>2. QED  BY <1>10, <1>11, <1>12, <2>1
<1>15. /\ QueueInOrder' /\ \A t \in Nat : Coming(t)' => Coming(t)
  <2>1. PICK was : was = [k \in DOMAIN queue' |-> k]
    OBVIOUS
  <2>2. /\ was \in [DOMAIN queue' -> DOMAIN queue]
        /\ \A k, l \in DOMAIN queue' : k < l => was[k] < was[l]
    BY <1>13, <2>1
  <2>3. \A i \in DOMAIN rest : rest[i] \in Text(queue[1])
    BY <1>3, <1>6
  <2>4. ASSUME NEW k \in DOMAIN queue'
        PROVE  \/ queue'[k] = queue[was[k]]
               \/ /\ was[k] = 1 /\ PieceInOrder(queue'[k])
                  /\ \A i \in DOMAIN queue'[k] : queue'[k][i] \in Text(queue[1])
    BY <1>8, <1>13, <1>14, <2>1, <2>3
  <2>5. QED  BY <1>12, <2>2, <2>4, QueueShorter
<1>16. ASSUME NEW t \in Nat, Coming(t)' PROVE Below(row, t)
  <2>1. CarryFrom' = CarryFrom /\ CarryFrom \in Int
    BY Sequences DEF CarryFrom, reading
  <2>2. \A i \in DOMAIN row : row[i] \in Int /\ row[i] < CarryFrom
    <3>1. \A i \in DOMAIN h : h[i] < CarryFrom /\ h[i] \in Int
      <4>1. Below(h, CarryFrom)
        BY <1>3 DEF PieceInOrder
      <4>2. \A i \in DOMAIN h : h[i] \in Int
        BY ONLY <1>3, ElementOfSeq
      <4>3. QED  BY ONLY <4>1, <4>2 DEF Below
    <3>2. QED  BY ONLY <1>5, <3>1
  <2>3. CASE t >= CarryFrom'
    <3>1. t \in Int /\ CarryFrom <= t
      BY <1>16, <2>1, <2>3
    <3>2. QED  BY ONLY <2>1, <2>2, <3>1 DEF Below
  <2>4. CASE \E k \in DOMAIN queue' : t \in Text(queue'[k])
    <3>1. PICK k \in DOMAIN queue' : t \in Text(queue'[k])
      BY <2>4
    <3>2. CASE k = 1
      <4>1. PICK j \in 1..(Len(h) - Need) : t = h[Need + j] /\ Need + j \in DOMAIN h
        <5>1. PICK j \in DOMAIN rest : rest[j] = t
          BY <1>13, <3>1, <3>2, TextIn
        <5>2. QED  BY <1>6, <5>1
      <4>2. ASSUME NEW i \in DOMAIN row PROVE row[i] < t
        <5>1. row[i] = h[i] /\ i \in DOMAIN h /\ 1 \in DOMAIN h /\ i \in Int /\ i <= Need
          BY <1>3, <1>5
        <5>2. h[i] = h[1] + i - 1 /\ h[Need + j] = h[1] + (Need + j) - 1
          BY <1>3, <4>1, <5>1 DEF PieceInOrder, Run
        <5>3. h[1] \in Int
          <6>1. h[1] \in Position
            BY <1>3, <5>1
          <6>2. QED  BY ONLY <6>1, Len(stream) \in Nat DEF Position
        <5>4. j \in Int /\ j >= 1 /\ Need \in Int
          BY <1>3
        <5>5. PICK x \in Int : x = h[1]
          BY <5>3
        <5>6. row[i] = x + i - 1 /\ t = x + (Need + j) - 1
          BY <4>1, <5>1, <5>2, <5>5
        <5>7. QED  BY <5>1, <5>4, <5>6
      <4>3. QED  BY <4>2 DEF Below
    <3>3. CASE k # 1
      <4>1. k \in DOMAIN queue /\ 1 < k /\ t \in Text(queue[k])
        BY <1>1, <1>13, <1>14, <3>1, <3>3
      <4>2. Below(h, t)
        BY <1>3, <4>1, TextIn DEF QueueInOrder, Precedes
      <4>3. QED  BY <1>5, <4>2 DEF Below
    <3>4. QED  BY <3>2, <3>3
  <2>5. QED  BY <1>16, <2>3, <2>4 DEF Coming
<1>17. Rising(row) /\ Separate(row)
  BY <1>5, RunInOrder
<1>18. \A t \in Text(row) : t \in Nat /\ Coming(t)
  BY <1>3, <1>5
<1>19. ASSUME NEW t \in Text(queue[1]) PROVE t \in Text(row) \/ t \in Text(queue'[1])
  <2>1. PICK j \in DOMAIN h : h[j] = t /\ IsText(t)
    BY <1>3, TextIn
  <2>2. CASE j <= Need
    <3>1. j \in 1..Need
      BY <1>3, <2>2
    <3>2. j \in DOMAIN row /\ row[j] = t
      BY <1>5, <2>1, <3>1
    <3>3. QED  BY ONLY <2>1, <3>2, TextIn
  <2>3. CASE ~(j <= Need)
    <3>1. j - Need \in 1..(Len(h) - Need) /\ Need + (j - Need) = j
      BY ONLY <1>3, <2>3
    <3>2. j - Need \in DOMAIN rest /\ rest[j - Need] = t
      <4>1. rest[j - Need] = h[Need + (j - Need)] /\ j - Need \in DOMAIN rest
        BY <1>6, <3>1
      <4>2. QED  BY <2>1, <3>1, <4>1
    <3>3. QED  BY ONLY <1>13, <2>1, <3>2, TextIn
  <2>4. QED  BY <2>2, <2>3
<1>20. Text(row) \cup Text(queue'[1]) \subseteq Text(queue[1])
  BY <1>3, <1>5, <1>6, <1>13
<1>21. QED
  BY <1>5, <1>9, <1>12, <1>13, <1>14, <1>15, <1>16, <1>17, <1>18, <1>19, <1>20

(***************************************************************************)
(* The rows.                                                                *)
(***************************************************************************)
LEMMA RowsKept ==
  ASSUME StreamTypes, RowsInOrder, Extends, UNCHANGED <<rows, config>>,
         \A t \in Nat : Coming(t)' \/ t \in Text(packed') => Coming(t) \/ t \in Text(packed)
  PROVE  RowsInOrder'
<1>1. /\ rows' = rows /\ padTail' = padTail /\ Len(stream) \in Nat
  BY Sequences DEF config
<1>2. ASSUME NEW k \in DOMAIN rows PROVE NoDelimiter(rows[k])'
  <2>1. PICK r : r = rows[k]
    OBVIOUS
  <2>2. NoDelimiter(r) /\ \A i \in DOMAIN r : IsText(r[i]) => r[i] \in Position
    <3>1. \A i \in DOMAIN r : r[i] \in Position \cup {Sep, Pad}
      BY <2>1, Sequences
    <3>2. QED  BY <2>1, <3>1 DEF RowsInOrder, IsText, Sep, Pad
  <2>3. NoDelimiter(r)'
    BY <1>1, <2>2, Stable
  <2>4. QED  BY <1>1, <2>1, <2>3 DEF NoDelimiter
<1>3. /\ \A k \in DOMAIN rows : Rising(rows[k])
      /\ \A k, l \in DOMAIN rows : k < l => Precedes(rows[k], rows[l])
      /\ \A k \in DOMAIN rows : \A t \in Nat :
           Coming(t)' \/ t \in Text(packed') => Below(rows[k], t)
      /\ padTail => \A k \in DOMAIN rows : Separate(rows[k])
  BY DEF RowsInOrder
<1>4. QED
  BY ONLY <1>1, <1>2, <1>3
  DEF RowsInOrder, Rising, Precedes, Separate, Below, Coming, Text

\* A row is yielded from what was packed or queued.
LEMMA RowYielded ==
  ASSUME StreamTypes, RowsInOrder, UNCHANGED <<config, reading>>,
         NEW row \in Seq(Int), Rising(row), NoDelimiter(row), padTail => Separate(row),
         \A t \in Text(row) : t \in Nat /\ (Coming(t) \/ t \in Text(packed)),
         \A t \in Nat : Coming(t)' => Coming(t) /\ Below(row, t),
         rows' = Append(rows, row), packed' = <<>>
  PROVE  RowsInOrder'
<1>1. rows \in Seq(Seq(Int)) /\ Len(rows) \in Nat /\ DOMAIN rows = 1..Len(rows)
  BY Sequences
<1>2. /\ rows' \in Seq(Seq(Int)) /\ Len(rows') = Len(rows) + 1
      /\ \A k \in 1..Len(rows) : rows'[k] = rows[k]
      /\ rows'[Len(rows) + 1] = row
  BY <1>1, AppendProperties
<1>3. DOMAIN rows' = 1..(Len(rows) + 1)
  BY <1>2, LenProperties
<1>4. \A k \in DOMAIN rows' : \/ k \in DOMAIN rows /\ rows'[k] = rows[k]
                              \/ k = Len(rows) + 1 /\ rows'[k] = row
  BY <1>1, <1>2, <1>3
<1>5. padTail' = padTail /\ stream' = stream
  BY DEF config, reading
<1>6. \A k \in DOMAIN rows' :
        /\ Rising(rows'[k]) /\ (padTail => Separate(rows'[k]))
        /\ \A i \in DOMAIN rows'[k] : IsText(rows'[k][i]) => ~stream[rows'[k][i]]
  BY <1>4 DEF RowsInOrder, NoDelimiter
<1>7. ASSUME NEW k \in DOMAIN rows', NEW l \in DOMAIN rows', k < l
      PROVE  Precedes(rows'[k], rows'[l])
  <2>1. k \in DOMAIN rows /\ rows'[k] = rows[k]
    BY <1>1, <1>3, <1>4, <1>7
  <2>2. CASE l \in DOMAIN rows /\ rows'[l] = rows[l]
    BY <1>7, <2>1, <2>2 DEF RowsInOrder
  <2>3. CASE l = Len(rows) + 1 /\ rows'[l] = row
    <3>1. ASSUME NEW j \in DOMAIN row, IsText(row[j]) PROVE Below(rows[k], row[j])
      <4>1. row[j] \in Text(row)
        BY <3>1, TextIn
      <4>2. QED  BY <2>1, <4>1 DEF RowsInOrder
    <3>2. QED  BY <2>1, <2>3, <3>1 DEF Precedes
  <2>4. QED  BY <1>4, <2>2, <2>3
<1>8. ASSUME NEW k \in DOMAIN rows', NEW t \in Nat, Coming(t)' \/ t \in Text(packed')
      PROVE  Below(rows'[k], t)
  <2>1. Coming(t)'
    BY <1>8, EmptyTokens
  <2>2. Coming(t) /\ Below(row, t)
    BY <2>1
  <2>3. QED  BY <1>4, <2>2 DEF RowsInOrder
<1>9. QED
  BY ONLY <1>5, <1>6, <1>7, <1>8
  DEF RowsInOrder, NoDelimiter, Rising, Precedes, Separate, Below, Coming, Text

(***************************************************************************)
(* What is packed.                                                          *)
(***************************************************************************)
LEMMA PackedKept ==
  ASSUME StreamTypes, PackedInOrder, Extends, UNCHANGED <<packed, config>>,
         \A t \in Nat : Coming(t)' => Coming(t)
  PROVE  PackedInOrder'
<1>1. packed' = packed /\ padTail' = padTail /\ Len(stream) \in Nat
  BY Sequences DEF config
<1>2. \A i \in DOMAIN packed : IsText(packed[i]) => packed[i] \in Position
  BY Sequences DEF IsText, Sep
<1>3. NoDelimiter(packed)'
  <2>1. PICK s : s = packed
    OBVIOUS
  <2>2. NoDelimiter(s)'
    BY <1>1, <1>2, <2>1, Stable DEF PackedInOrder
  <2>3. QED  BY <1>1, <2>1, <2>2 DEF NoDelimiter
<1>4. \A p \in Text(packed) : EndsPiece(p) => EndsPiece(p)'
  BY <1>1, <1>2, Stable, TextIn
<1>5. /\ Rising(packed) /\ \A t \in Nat : Coming(t)' => Below(packed, t)
      /\ Len(packed) < Need =>
           \A p \in Text(packed) : p + 1 \in Text(packed) \/ EndsPiece(p)'
      /\ padTail => Separate(packed)
  BY <1>4 DEF PackedInOrder
<1>6. QED
  BY ONLY <1>1, <1>3, <1>5
  DEF PackedInOrder, Rising, Below, Separate, Coming, Text, EndsPiece, Position

LEMMA PackedEmpty ==
  ASSUME packed' = <<>>
  PROVE  PackedInOrder' /\ Text(packed') = {}
BY EmptyTokens DEF PackedInOrder, NoDelimiter, Rising, Below, Separate, Text

\* Packed is a new row of the documents that came in.
LEMMA PackedNew ==
  ASSUME UNCHANGED <<config, reading>>, NEW s, packed' = s,
         Rising(s), NoDelimiter(s), \A t \in Nat : Coming(t)' => Below(s, t),
         Len(s) < Need => \A p \in Text(s) : p + 1 \in Text(s) \/ EndsPiece(p),
         padTail => Separate(s)
  PROVE  PackedInOrder'
<1>1. /\ NoDelimiter(s)' /\ padTail' = padTail
      /\ Len(s) < Need => \A p \in Text(s) : p + 1 \in Text(s) \/ EndsPiece(p)'
  BY SameStream DEF config
<1>2. QED
  BY <1>1 DEF PackedInOrder, NoDelimiter, Rising, Below, Separate, Text, EndsPiece

(***************************************************************************)
(* All of them, and what is lost.                                           *)
(***************************************************************************)
LEMMA HeldParts ==
  ASSUME StreamTypes
  PROVE  /\ Len(Held) = Len(rows) + 1 + Len(queue) + 1
         /\ DOMAIN Held = 1..(Len(rows) + 1 + Len(queue) + 1)
         /\ \A k \in DOMAIN Held :
              \/ k \in DOMAIN rows /\ Held[k] = rows[k]
              \/ k = Len(rows) + 1 /\ Held[k] = packed
              \/ /\ k - (Len(rows) + 1) \in DOMAIN queue
                 /\ Held[k] = queue[k - (Len(rows) + 1)]
              \/ k = Len(rows) + 1 + Len(queue) + 1 /\ Held[k] = carry
         /\ \A k \in DOMAIN rows : k \in DOMAIN Held /\ Held[k] = rows[k]
         /\ Len(rows) + 1 \in DOMAIN Held /\ Held[Len(rows) + 1] = packed
         /\ \A k \in DOMAIN queue :
              /\ Len(rows) + 1 + k \in DOMAIN Held
              /\ Held[Len(rows) + 1 + k] = queue[k]
         /\ Len(Held) \in DOMAIN Held /\ Held[Len(Held)] = carry
<1>1. PICK R \in Seq(Seq(Int)) : R = rows
  BY Sequences
<1>2. PICK Q \in Seq(Seq(Int)) : Q = queue
  BY Sequences
<1>3. PICK a \in Nat : a = Len(R)
  BY LenProperties
<1>4. PICK b \in Nat : b = Len(Q)
  BY LenProperties
<1>5. PICK p \in Seq(Int) : p = packed
  BY Sequences
<1>6. PICK c \in Seq(Int) : c = carry
  BY Sequences
<1>7. PICK P \in Seq(Seq(Int)) : P = <<p>> /\ Len(P) = 1 /\ P[1] = p
  BY Single
<1>8. PICK C \in Seq(Seq(Int)) : C = <<c>> /\ Len(C) = 1 /\ C[1] = c
  BY Single
<1>9. PICK X : X = R \o P
  OBVIOUS
<1>10. PICK Y : Y = X \o Q
  OBVIOUS
<1>11. PICK H : H = Y \o C
  OBVIOUS
<1>12. Held = H
  BY <1>1, <1>2, <1>5, <1>6, <1>7, <1>8, <1>9, <1>10, <1>11 DEF Held
<1>13. /\ X \in Seq(Seq(Int)) /\ Len(X) = a + 1
       /\ \A k \in 1..(a + 1) : X[k] = IF k <= a THEN R[k] ELSE P[k - a]
  BY ONLY <1>3, <1>7, <1>9, R \in Seq(Seq(Int)), P \in Seq(Seq(Int)), ConcatProperties
<1>14. /\ Y \in Seq(Seq(Int)) /\ Len(Y) = a + 1 + b
       /\ \A k \in 1..(a + 1 + b) : Y[k] = IF k <= a + 1 THEN X[k] ELSE Q[k - (a + 1)]
  <2>1. /\ Y \in Seq(Seq(Int)) /\ Len(Y) = Len(X) + Len(Q)
        /\ \A k \in 1..(Len(X) + Len(Q)) :
             Y[k] = IF k <= Len(X) THEN X[k] ELSE Q[k - Len(X)]
    BY ONLY <1>10, <1>13, Q \in Seq(Seq(Int)), ConcatProperties
  <2>2. Len(X) = a + 1 /\ Len(Q) = b
    BY <1>4, <1>13
  <2>3. QED  BY ONLY <2>1, <2>2
<1>15. /\ H \in Seq(Seq(Int)) /\ Len(H) = a + 1 + b + 1
       /\ \A k \in 1..(a + 1 + b + 1) :
            H[k] = IF k <= a + 1 + b THEN Y[k] ELSE C[k - (a + 1 + b)]
  <2>1. /\ H \in Seq(Seq(Int)) /\ Len(H) = Len(Y) + Len(C)
        /\ \A k \in 1..(Len(Y) + Len(C)) :
             H[k] = IF k <= Len(Y) THEN Y[k] ELSE C[k - Len(Y)]
    BY ONLY <1>11, <1>14, C \in Seq(Seq(Int)), ConcatProperties
  <2>2. Len(Y) = a + 1 + b /\ Len(C) = 1
    BY <1>8, <1>14
  <2>3. QED  BY ONLY <2>1, <2>2
<1>16. DOMAIN R = 1..a /\ DOMAIN Q = 1..b /\ DOMAIN H = 1..(a + 1 + b + 1)
  BY <1>3, <1>4, <1>15, LenProperties
<1>17. ASSUME NEW k \in 1..a PROVE k \in DOMAIN H /\ H[k] = R[k]
  <2>1. /\ k \in 1..(a + 1) /\ k \in 1..(a + 1 + b) /\ k \in 1..(a + 1 + b + 1)
        /\ k <= a /\ k <= a + 1 /\ k <= a + 1 + b
    BY ONLY a \in Nat, b \in Nat, k \in 1..a
  <2>2. QED  BY ONLY <1>13, <1>14, <1>15, <1>16, <2>1
<1>18. a + 1 \in DOMAIN H /\ H[a + 1] = p
  <2>1. PICK k : k = a + 1
    OBVIOUS
  <2>2. /\ k \in 1..(a + 1) /\ k \in 1..(a + 1 + b) /\ k \in 1..(a + 1 + b + 1)
        /\ ~(k <= a) /\ k <= a + 1 /\ k <= a + 1 + b /\ k - a = 1
    BY ONLY a \in Nat, b \in Nat, <2>1
  <2>3. QED  BY ONLY <1>7, <1>13, <1>14, <1>15, <1>16, <2>1, <2>2
<1>19. ASSUME NEW j \in 1..b PROVE a + 1 + j \in DOMAIN H /\ H[a + 1 + j] = Q[j]
  <2>1. PICK k : k = a + 1 + j
    OBVIOUS
  <2>2. /\ k \in 1..(a + 1 + b) /\ k \in 1..(a + 1 + b + 1)
        /\ ~(k <= a + 1) /\ k <= a + 1 + b /\ k - (a + 1) = j
    BY ONLY a \in Nat, b \in Nat, j \in 1..b, <2>1
  <2>3. QED  BY ONLY <1>14, <1>15, <1>16, <2>1, <2>2
<1>20. a + 1 + b + 1 \in DOMAIN H /\ H[a + 1 + b + 1] = c
  <2>1. PICK k : k = a + 1 + b + 1
    OBVIOUS
  <2>2. k \in 1..(a + 1 + b + 1) /\ ~(k <= a + 1 + b) /\ k - (a + 1 + b) = 1
    BY ONLY a \in Nat, b \in Nat, <2>1
  <2>3. QED  BY ONLY <1>8, <1>15, <1>16, <2>1, <2>2
<1>21. ASSUME NEW k \in DOMAIN H
       PROVE  \/ k \in 1..a /\ H[k] = R[k]
              \/ k = a + 1 /\ H[k] = p
              \/ k - (a + 1) \in 1..b /\ H[k] = Q[k - (a + 1)]
              \/ k = a + 1 + b + 1 /\ H[k] = c
  <2>1. k \in Int /\ k >= 1 /\ k <= a + 1 + b + 1
    BY <1>16
  <2>2. CASE k <= a
    BY ONLY <1>17, <2>1, <2>2, a \in Nat
  <2>3. CASE k = a + 1
    BY <1>18, <2>3
  <2>4. CASE k > a + 1 /\ k <= a + 1 + b
    <3>1. k - (a + 1) \in 1..b /\ a + 1 + (k - (a + 1)) = k
      BY ONLY <2>1, <2>4, a \in Nat, b \in Nat
    <3>2. QED  BY <1>19, <3>1
  <2>5. CASE k = a + 1 + b + 1
    BY <1>20, <2>5
  <2>6. k <= a \/ k = a + 1 \/ (k > a + 1 /\ k <= a + 1 + b) \/ k = a + 1 + b + 1
    <3>1. PICK x \in Int : x = k
      BY <2>1
    <3>2. PICK y \in Nat, z \in Nat : y = a /\ z = b
      OBVIOUS
    <3>3. x <= y + 1 + z + 1
      BY <2>1, <3>1, <3>2
    <3>4. x <= y \/ x = y + 1 \/ (x > y + 1 /\ x <= y + 1 + z) \/ x = y + 1 + z + 1
      BY ONLY <3>3, x \in Int, y \in Nat, z \in Nat
    <3>5. QED  BY <3>1, <3>2, <3>4
  <2>7. QED  BY ONLY <2>2, <2>3, <2>4, <2>5, <2>6
<1>22. Len(rows) = a /\ Len(queue) = b
  BY <1>1, <1>2, <1>3, <1>4
<1>23. DOMAIN rows = 1..a /\ DOMAIN queue = 1..b
  BY <1>1, <1>2, <1>16
<1>24. Len(Held) = a + 1 + b + 1 /\ DOMAIN Held = 1..(a + 1 + b + 1)
  BY <1>12, <1>15, <1>16
<1>25. QED
  BY ONLY <1>1, <1>2, <1>5, <1>6, <1>12, <1>17, <1>18, <1>19, <1>20, <1>21, <1>22,
          <1>23, <1>24

\* p is in what was yielded or may still be.
Present(p) ==
  \/ \E k \in DOMAIN rows : p \in Text(rows[k])
  \/ p \in Text(packed)
  \/ \E k \in DOMAIN queue : p \in Text(queue[k])
  \/ p \in Text(carry)

LEMMA PresentHeld ==
  StreamTypes => \A p : p \in Lost <=> p \in Position /\ ~stream[p] /\ ~Present(p)
<1> SUFFICES ASSUME StreamTypes
             PROVE  \A p : p \in Lost <=> p \in Position /\ ~stream[p] /\ ~Present(p)
  OBVIOUS
<1>1. ASSUME NEW p, Present(p) PROVE \E k \in DOMAIN Held : p \in Text(Held[k])
  BY <1>1, HeldParts DEF Present
<1>2. ASSUME NEW p, NEW k \in DOMAIN Held, p \in Text(Held[k]) PROVE Present(p)
  BY <1>2, HeldParts DEF Present
<1>3. QED  BY <1>1, <1>2 DEF Lost

\* How a token may get lost.
Explained(p) == CutShort(p) \/ (~padTail /\ (p + 1 \in Lost \/ EndsPiece(p)))

\* What is lost remains so, and what gets lost has its reason.
LEMMA LossStep ==
  ASSUME StreamTypes, StreamTypes', Multi, LossIsExplained, Extends, UNCHANGED config,
         \A p \in Position : Present(p)' => Present(p),
         \A p \in Position' : ~stream'[p] /\ ~Present(p)' =>
           p \in Lost \/ Explained(p)'
  PROVE  LossIsExplained'
<1>0. (StreamTypes => \A p : p \in Lost <=> p \in Position /\ ~stream[p] /\ ~Present(p))'
  BY PresentHeld, PTL
<1>1. \A p : p \in Lost' <=> p \in Position' /\ ~stream'[p] /\ ~Present(p)'
  BY <1>0
<1>2. ASSUME NEW p \in Lost PROVE p \in Lost' /\ p \in Position
  <2>1. p \in Position /\ ~stream[p] /\ ~Present(p)
    BY PresentHeld
  <2>2. p \in Position' /\ ~stream'[p]
    <3>1. Len(stream) \in Nat /\ p \in 1..Len(stream) /\ Len(stream') \in Nat
          /\ Len(stream) <= Len(stream') /\ stream'[p] = stream[p]
      BY <2>1, Sequences DEF Extends, Position
    <3>2. QED  BY ONLY <2>1, <3>1 DEF Position
  <2>3. QED  BY <1>1, <2>1, <2>2
<1>3. mode' = mode /\ padTail' = padTail /\ Len(stream) \in Nat
  BY Sequences DEF config
<1>4. ASSUME NEW p \in Lost' PROVE Explained(p)'
  <2>1. CASE p \in Lost
    <3>1. p \in Position /\ (CutShort(p) \/ (~padTail /\ (p + 1 \in Lost \/ EndsPiece(p))))
      BY <1>2, <2>1 DEF LossIsExplained, Multi
    <3>2. /\ CutShort(p) => CutShort(p)'
          /\ EndsPiece(p) => EndsPiece(p)'
      BY <1>3, <3>1, Stable
    <3>3. p + 1 \in Lost => p + 1 \in Lost'
      BY <1>2
    <3>4. QED  BY <1>3, <3>1, <3>2, <3>3 DEF Explained
  <2>2. CASE p \notin Lost
    BY <1>1, <1>4, <2>2
  <2>3. QED  BY <2>1, <2>2
<1>5. QED  BY <1>3, <1>4 DEF LossIsExplained, Explained, Multi

\* What is carried over may still come.
LEMMA CarryComing ==
  ASSUME StreamTypes, CarryInOrder
  PROVE  /\ CarryFrom \in Nat /\ CarryFrom >= 1
         /\ \A i \in DOMAIN carry :
              /\ carry[i] = CarryFrom + i - 1 /\ carry[i] >= CarryFrom
              /\ carry[i] \in Nat /\ IsText(carry[i]) /\ Coming(carry[i])
         /\ Rising(carry)
<1>1. /\ Len(stream) \in Nat /\ Len(carry) \in Nat /\ DOMAIN carry = 1..Len(carry)
      /\ Len(carry) <= Len(stream)
      /\ \A i \in DOMAIN carry : carry[i] = CarryFrom + i - 1
  BY Sequences DEF CarryInOrder
<1>2. CarryFrom \in Nat /\ CarryFrom >= 1
  BY ONLY <1>1 DEF CarryFrom
<1>3. \A i \in DOMAIN carry :
        carry[i] >= CarryFrom /\ carry[i] \in Nat /\ IsText(carry[i])
  BY ONLY <1>1, <1>2 DEF IsText
<1>4. \A i \in DOMAIN carry : Coming(carry[i])
  BY <1>3 DEF Coming
<1>5. Rising(carry)
  BY ONLY <1>1, <1>2 DEF Rising
<1>6. QED  BY <1>1, <1>2, <1>3, <1>4, <1>5

LEMMA PartsPrecede ==
  ASSUME StreamInv, Multi
  PROVE  \A k, l \in DOMAIN Held : k < l => Precedes(Held[k], Held[l])
<1>1. StreamTypes /\ CarryInOrder /\ QueueInOrder /\ PackedInOrder /\ RowsInOrder
  BY DEF StreamInv, Multi
<1>2. PICK H : H = Held
  OBVIOUS
<1>3. PICK a \in Nat, b \in Nat : a = Len(rows) /\ b = Len(queue)
  BY <1>1, Sequences
<1>4. \A k \in DOMAIN H :
        \/ k \in DOMAIN rows /\ H[k] = rows[k]
        \/ k = a + 1 /\ H[k] = packed
        \/ k - (a + 1) \in DOMAIN queue /\ H[k] = queue[k - (a + 1)]
        \/ k = a + 1 + b + 1 /\ H[k] = carry
  BY <1>1, <1>2, <1>3, HeldParts
<1>5. DOMAIN rows = 1..a /\ DOMAIN queue = 1..b /\ DOMAIN H = 1..(a + 1 + b + 1)
  BY <1>1, <1>2, <1>3, Sequences, HeldParts
<1>6. /\ \A i \in DOMAIN packed : IsText(packed[i]) => packed[i] \in Text(packed)
      /\ \A i \in DOMAIN packed : IsText(packed[i]) => packed[i] \in Nat
  BY <1>1, Sequences, TextIn DEF IsText, Position, Sep
<1>7. \A k \in DOMAIN queue : \A i \in DOMAIN queue[k] :
        queue[k][i] \in Nat /\ Coming(queue[k][i]) /\ queue[k][i] < CarryFrom
  BY <1>1, ComingPieces DEF QueueInOrder, PieceInOrder, Below
<1>8. /\ CarryFrom \in Nat
      /\ \A i \in DOMAIN carry :
           carry[i] \in Nat /\ Coming(carry[i]) /\ CarryFrom <= carry[i]
  BY <1>1, CarryComing
<1>9. ASSUME NEW k \in DOMAIN H, NEW l \in DOMAIN H, k < l
      PROVE  Precedes(H[k], H[l])
  <2>1. CASE k \in DOMAIN rows /\ H[k] = rows[k]
    <3>1. CASE l \in DOMAIN rows /\ H[l] = rows[l]
      BY <1>1, <1>9, <2>1, <3>1 DEF RowsInOrder
    <3>2. CASE H[l] = packed
      BY <1>1, <1>6, <2>1, <3>2 DEF RowsInOrder, Precedes
    <3>3. CASE l - (a + 1) \in DOMAIN queue /\ H[l] = queue[l - (a + 1)]
      BY <1>1, <1>7, <2>1, <3>3 DEF RowsInOrder, Precedes
    <3>4. CASE H[l] = carry
      BY <1>1, <1>8, <2>1, <3>4 DEF RowsInOrder, Precedes
    <3>5. QED  BY <1>4, <3>1, <3>2, <3>3, <3>4
  <2>2. CASE k = a + 1 /\ H[k] = packed
    <3>1. ~(l \in DOMAIN rows) /\ l # a + 1
      BY ONLY <1>5, <1>9, <2>2, a \in Nat
    <3>2. CASE l - (a + 1) \in DOMAIN queue /\ H[l] = queue[l - (a + 1)]
      BY <1>1, <1>7, <2>2, <3>2 DEF PackedInOrder, Precedes
    <3>3. CASE H[l] = carry
      BY <1>1, <1>8, <2>2, <3>3 DEF PackedInOrder, Precedes
    <3>4. QED  BY <1>4, <3>1, <3>2, <3>3
  <2>3. CASE k - (a + 1) \in DOMAIN queue /\ H[k] = queue[k - (a + 1)]
    <3>1. ~(l \in DOMAIN rows) /\ l # a + 1
      BY ONLY <1>5, <1>9, <2>3, a \in Nat, b \in Nat
    <3>2. CASE l - (a + 1) \in DOMAIN queue /\ H[l] = queue[l - (a + 1)]
      <4>1. k - (a + 1) < l - (a + 1)
        BY ONLY <1>5, <1>9, a \in Nat, b \in Nat
      <4>2. QED  BY <1>1, <2>3, <3>2, <4>1 DEF QueueInOrder
    <3>3. CASE H[l] = carry
      <4>1. \A i \in DOMAIN queue[k - (a + 1)] : \A j \in DOMAIN carry :
              queue[k - (a + 1)][i] < carry[j]
        BY ONLY <1>7, <1>8, <2>3
      <4>2. QED  BY <2>3, <3>3, <4>1 DEF Precedes, Below
    <3>4. QED  BY <1>4, <3>1, <3>2, <3>3
  <2>4. CASE k = a + 1 + b + 1
    BY ONLY <1>5, <1>9, <2>4, a \in Nat, b \in Nat
  <2>5. QED  BY <1>4, <2>1, <2>2, <2>3, <2>4
<1>10. QED  BY <1>2, <1>9

LEMMA OrderedParts ==
  ASSUME StreamInv
  PROVE  InOrderOnce
<1> SUFFICES ASSUME Multi,
                    NEW k \in DOMAIN Held, NEW l \in DOMAIN Held,
                    NEW i \in DOMAIN Held[k], NEW j \in DOMAIN Held[l],
                    IsText(Held[k][i]), IsText(Held[l][j])
             PROVE  /\ k < l \/ (k = l /\ i < j) => Held[k][i] < Held[l][j]
                    /\ k < Len(Held) => ~stream[Held[k][i]]
  BY DEF InOrderOnce, Multi
<1>1. StreamTypes /\ CarryInOrder /\ QueueInOrder /\ PackedInOrder /\ RowsInOrder
  BY DEF StreamInv, Multi
<1>2. ASSUME k < l PROVE Held[k][i] < Held[l][j]
  BY <1>2, PartsPrecede DEF Precedes, Below
<1>3. \/ k \in DOMAIN rows /\ Held[k] = rows[k]
      \/ Held[k] = packed
      \/ k - (Len(rows) + 1) \in DOMAIN queue /\ Held[k] = queue[k - (Len(rows) + 1)]
      \/ k = Len(Held) /\ Held[k] = carry
  BY <1>1, HeldParts
<1>4. Rising(Held[k])
  <2>1. CASE k \in DOMAIN rows /\ Held[k] = rows[k]
    BY <1>1, <2>1 DEF RowsInOrder
  <2>2. CASE Held[k] = packed
    BY <1>1, <2>2 DEF PackedInOrder
  <2>3. CASE k - (Len(rows) + 1) \in DOMAIN queue /\ Held[k] = queue[k - (Len(rows) + 1)]
    <3>1. PICK q : q = queue[k - (Len(rows) + 1)]
      OBVIOUS
    <3>2. q \in Seq(Int) /\ Run(q)
      BY <1>1, <2>3, <3>1, Sequences DEF QueueInOrder, PieceInOrder
    <3>3. QED  BY <2>3, <3>1, <3>2, RunInOrder
  <2>4. CASE Held[k] = carry
    BY <1>1, <2>4, CarryComing
  <2>5. QED  BY <1>3, <2>1, <2>2, <2>3, <2>4
<1>5. ASSUME k = l, i < j PROVE Held[k][i] < Held[l][j]
  BY <1>4, <1>5 DEF Rising
<1>6. ASSUME k < Len(Held) PROVE ~stream[Held[k][i]]
  <2>1. k # Len(Held)
    BY <1>1, <1>6, HeldParts
  <2>2. NoDelimiter(Held[k])
    BY <1>1, <1>3, <2>1 DEF RowsInOrder, PackedInOrder, QueueInOrder, PieceInOrder
  <2>3. QED  BY <2>2 DEF NoDelimiter
<1>7. QED  BY <1>2, <1>5, <1>6

--------------------------------------------------------------------------------
(***************************************************************************)
(* Every step preserves the invariant.                                      *)
(***************************************************************************)
LEMMA InitStream == StreamInit => StreamInv
<1> SUFFICES ASSUME StreamInit PROVE StreamInv
  OBVIOUS
<1>1. StreamTypes
  BY InitTypes
<1>2. /\ stream = <<>> /\ carry = <<>> /\ queue = <<>> /\ packed = <<>> /\ rows = <<>>
      /\ Len(<<>>) = 0 /\ DOMAIN <<>> = {}
  BY DEF StreamInit
<1>3. CarryInOrder /\ QueueInOrder /\ RowsInOrder
  BY <1>2 DEF CarryInOrder, QueueInOrder, RowsInOrder
<1>4. PackedInOrder
  BY <1>2, EmptyTokens DEF PackedInOrder
<1>5. Position = {}
  BY <1>2 DEF Position
<1>6. LossIsExplained
  BY <1>5 DEF LossIsExplained, Lost
<1>7. WindowsInOrder
  <2>1. Len(rows) * SeqLen + 1 = 1 /\ Len(stream) = 0
    BY <1>2, RowSizes
  <2>2. Positions(1, 0) = <<>>
    BY DEF Positions
  <2>3. Len(rows) * SeqLen <= Len(stream)
    BY <1>2, RowSizes
  <2>4. WindowsAsOverwritten
    BY <1>2, <2>1, <2>2 DEF WindowsAsOverwritten
  <2>5. released <= Len(rows)
    BY <1>2 DEF StreamInit
  <2>6. QED  BY <1>2, <2>3, <2>4, <2>5 DEF WindowsInOrder
<1>8. QED  BY <1>1, <1>3, <1>4, <1>6, <1>7 DEF StreamInv

\* Steps that leave the stream and all that is made of it alone.
LEMMA ShardStep ==
  ASSUME StreamInv, SkipShard \/ OpenShard \/ EndShard \/ NextBlock
  PROVE  StreamInv'
<1>1. StreamTypes'
  BY ShardTypes DEF StreamInv
<1>2. /\ mode' = mode /\ padTail' = padTail /\ stream' = stream /\ cuts' = cuts
      /\ carry' = carry /\ queue' = queue /\ packed' = packed /\ rows' = rows
      /\ released' = released
  BY DEF SkipShard, OpenShard, EndShard, NextBlock, config, reading, packing
<1>3. /\ CarryInOrder' = CarryInOrder /\ QueueInOrder' = QueueInOrder
      /\ PackedInOrder' = PackedInOrder /\ RowsInOrder' = RowsInOrder
      /\ LossIsExplained' = LossIsExplained /\ WindowsInOrder' = WindowsInOrder
  <2>1. CarryInOrder' = CarryInOrder
    BY <1>2 DEF CarryInOrder, CarryFrom, StartsPiece
  <2>2. QueueInOrder' = QueueInOrder
    BY <1>2 DEF QueueInOrder, PieceInOrder, CarryFrom, EndsPiece, Position,
                NoDelimiter, Run, Below, Precedes
  <2>3. PackedInOrder' = PackedInOrder
    BY <1>2 DEF PackedInOrder, Coming, CarryFrom, EndsPiece, Position,
                NoDelimiter, Rising, Below, Separate, Text
  <2>4. RowsInOrder' = RowsInOrder
    BY <1>2 DEF RowsInOrder, Coming, CarryFrom,
                NoDelimiter, Rising, Below, Separate, Precedes, Text
  <2>5. LossIsExplained' = LossIsExplained
    BY <1>2 DEF LossIsExplained, Lost, Held, CutShort, StartsPiece, EndsPiece,
                Position, Text
  <2>6. WindowsInOrder' = WindowsInOrder
    BY <1>2 DEF WindowsInOrder, WindowsAsOverwritten
  <2>7. QED  BY <2>1, <2>2, <2>3, <2>4, <2>5, <2>6
<1>4. QED  BY <1>1, <1>2, <1>3 DEF StreamInv

\* A chunk is read.
LEMMA ReadExtends ==
  ASSUME StreamTypes, CarryInOrder, ReadBlock
  PROVE  /\ Extends /\ CarryFrom' = CarryFrom
         /\ UNCHANGED <<config, queue, packed>>
         /\ Len(carry') \in Nat /\ Len(carry') >= 1 /\ Len(carry') >= Len(carry)
         /\ \A p \in Position : p \in Text(carry') <=> p \in Text(carry)
         /\ \A p \in Position' \ Position : p \in Text(carry')
         /\ CarryInOrder'
<1>1. PICK n \in Nat \ {0} :
        /\ Len(stream') = Len(stream) + n /\ stream' \in Seq(BOOLEAN)
        /\ \A i \in Position : stream'[i] = stream[i]
        /\ carry' \in Seq(Int) /\ Len(carry') = Len(carry) + n
        /\ \A i \in 1..Len(carry) : carry'[i] = carry[i]
        /\ \A i \in 1..n : carry'[Len(carry) + i] = Len(stream) + i
        /\ cuts' = cuts \cup {Len(stream) + 1}
  BY ChunkRead
<1>2. /\ Len(stream) \in Nat /\ Len(carry) \in Nat /\ DOMAIN carry = 1..Len(carry)
      /\ \A i \in DOMAIN carry : carry[i] \in Position
      /\ Len(carry) <= Len(stream)
      /\ \A i \in DOMAIN carry : carry[i] = CarryFrom + i - 1
  BY Sequences DEF CarryInOrder
<1>3. DOMAIN carry' = 1..(Len(carry) + n)
  BY <1>1, LenProperties
<1>4. Extends
  BY ONLY <1>1, <1>2 DEF Extends
<1>5. CarryFrom' = CarryFrom /\ CarryFrom \in Nat
  BY ONLY <1>1, <1>2 DEF CarryFrom
<1>6. UNCHANGED <<config, queue, packed>> /\ mode' = mode
  BY DEF ReadBlock, config
<1>7. \A i \in DOMAIN carry' :
        \/ i \in DOMAIN carry /\ carry'[i] = carry[i]
        \/ i - Len(carry) \in 1..n /\ carry'[i] = Len(stream) + (i - Len(carry))
  <2>1. ASSUME NEW i \in DOMAIN carry', i > Len(carry)
        PROVE  i - Len(carry) \in 1..n /\ carry'[i] = Len(stream) + (i - Len(carry))
    <3>1. i - Len(carry) \in 1..n /\ Len(carry) + (i - Len(carry)) = i
      BY ONLY <1>2, <1>3, <2>1, n \in Nat
    <3>2. QED  BY <1>1, <3>1
  <2>2. ASSUME NEW i \in DOMAIN carry', ~(i > Len(carry))
        PROVE  i \in DOMAIN carry /\ carry'[i] = carry[i]
    <3>1. i \in 1..Len(carry)
      BY ONLY <1>2, <1>3, <2>2, n \in Nat
    <3>2. QED  BY <1>1, <1>2, <3>1
  <2>3. QED  BY <2>1, <2>2
<1>8. ASSUME NEW p \in Position PROVE p \in Text(carry') <=> p \in Text(carry)
  <2>1. ASSUME p \in Text(carry') PROVE p \in Text(carry)
    <3>1. PICK i \in DOMAIN carry' : carry'[i] = p /\ IsText(p)
      BY <2>1, TextIn
    <3>2. ~(i - Len(carry) \in 1..n /\ carry'[i] = Len(stream) + (i - Len(carry)))
      BY ONLY <1>2, <3>1, p \in Position DEF Position
    <3>3. i \in DOMAIN carry /\ carry[i] = p
      BY <1>7, <3>1, <3>2
    <3>4. QED  BY <3>1, <3>3, TextIn
  <2>2. ASSUME p \in Text(carry) PROVE p \in Text(carry')
    <3>1. PICK i \in DOMAIN carry : carry[i] = p /\ IsText(p)
      BY <2>2, TextIn
    <3>2. i \in DOMAIN carry' /\ carry'[i] = p
      BY <1>1, <1>2, <1>3, <3>1
    <3>3. QED  BY <3>1, <3>2, TextIn
  <2>3. QED  BY <2>1, <2>2
<1>9. ASSUME NEW p \in Position' \ Position PROVE p \in Text(carry')
  <2>1. p - Len(stream) \in 1..n /\ Len(stream) + (p - Len(stream)) = p /\ p > 0
    BY ONLY <1>1, <1>2, <1>9 DEF Position
  <2>2. /\ Len(carry) + (p - Len(stream)) \in DOMAIN carry'
        /\ carry'[Len(carry) + (p - Len(stream))] = p
    <3>1. Len(carry) + (p - Len(stream)) \in DOMAIN carry'
      BY ONLY <1>2, <1>3, <2>1, n \in Nat
    <3>2. QED  BY <1>1, <2>1, <3>1
  <2>3. QED  BY <2>1, <2>2, TextIn DEF IsText
<1>10. CarryInOrder'
  <2>1. Len(carry') <= Len(stream')
    BY ONLY <1>1, <1>2
  <2>2. ASSUME NEW i \in DOMAIN carry' PROVE carry'[i] = CarryFrom + i - 1
    <3>1. CASE i \in DOMAIN carry /\ carry'[i] = carry[i]
      BY <1>2, <3>1
    <3>2. CASE i - Len(carry) \in 1..n /\ carry'[i] = Len(stream) + (i - Len(carry))
      <4>1. i \in Int
        BY <1>3
      <4>2. QED  BY ONLY <1>2, <3>2, <4>1 DEF CarryFrom
    <3>3. QED  BY <1>7, <3>1, <3>2
  <2>3. ASSUME mode = "multi_sample", carry' # <<>> PROVE StartsPiece(carry[1])'
    <3>1. CASE carry = <<>>
      <4>1. Len(carry) = 0
        BY <3>1
      <4>2. 1 \in 1..n /\ Len(carry) + 1 = 1
        BY ONLY <4>1
      <4>3. carry'[1] = Len(stream) + 1
        BY <1>1, <4>2
      <4>4. QED  BY <1>1, <4>3 DEF StartsPiece
    <3>2. CASE carry # <<>>
      <4>1. 1 \in DOMAIN carry
        BY <1>2, <3>2, Sequences, EmptySeq
      <4>2. PICK p : p = carry[1]
        OBVIOUS
      <4>3. p \in Position /\ StartsPiece(p) /\ carry'[1] = p
        BY <1>1, <1>2, <2>3, <3>2, <4>1, <4>2 DEF CarryInOrder
      <4>4. StartsPiece(p)'
        BY <1>2, <1>4, <4>3, Stable
      <4>5. QED  BY <4>3, <4>4 DEF StartsPiece
    <3>3. QED  BY <3>1, <3>2
  <2>4. QED  BY <1>5, <1>6, <2>1, <2>2, <2>3 DEF CarryInOrder
<1>11. Len(carry') \in Nat /\ Len(carry') >= 1 /\ Len(carry') >= Len(carry)
  BY ONLY <1>1, <1>2
<1>12. QED  BY <1>4, <1>5, <1>6, <1>8, <1>9, <1>10, <1>11

LEMMA QueueKept ==
  ASSUME StreamTypes, QueueInOrder, Extends, queue' = queue,
         CarryFrom \in Int, CarryFrom' \in Int, CarryFrom <= CarryFrom'
  PROVE  QueueInOrder' /\ \A t \in Nat : Coming(t)' => Coming(t)
<1>1. Len(stream) \in Nat /\ \A k \in DOMAIN queue : \A i \in DOMAIN queue[k] :
        queue[k][i] \in Position
  BY Sequences
<1>2. ASSUME NEW k \in DOMAIN queue PROVE PieceInOrder(queue[k])'
  <2>1. PICK q : q = queue[k]
    OBVIOUS
  <2>2. PieceInOrder(q) /\ (\A i \in DOMAIN q : q[i] \in Position) /\ q[Len(q)] \in Position
    <3>1. Len(queue[k]) \in DOMAIN queue[k]
      BY Sequences
    <3>2. QED  BY <1>1, <2>1, <3>1 DEF QueueInOrder
  <2>3. NoDelimiter(q)' /\ EndsPiece(q[Len(q)])'
    BY <1>1, <2>2, Stable DEF PieceInOrder
  <2>4. PieceInOrder(q)'
    <3>1. \A i \in DOMAIN q : q[i] \in Int /\ q[i] < CarryFrom
      BY <1>1, <2>2 DEF PieceInOrder, Below, Position
    <3>2. Below(q, CarryFrom')
      BY ONLY <3>1, CarryFrom \in Int, CarryFrom' \in Int, CarryFrom <= CarryFrom' DEF Below
    <3>3. QED  BY <2>2, <2>3, <3>2 DEF PieceInOrder
  <2>5. queue'[k] = q
    BY <2>1
  <2>6. QED  BY <2>4, <2>5, SamePiece
<1>3. QueueInOrder'
  BY <1>2 DEF QueueInOrder, Precedes, Below
<1>4. ASSUME NEW t \in Nat, Coming(t)' PROVE Coming(t)
  BY <1>4 DEF Coming
<1>5. QED  BY <1>3, <1>4

\* Nothing is read.
LEMMA NothingRead ==
  ASSUME StreamTypes, UNCHANGED reading
  PROVE  Extends
BY Sequences, SameStream DEF Extends

LEMMA FeedTokensStep ==
  ASSUME StreamInv, FeedTokens
  PROVE  StreamInv'
<1>1. /\ StreamTypes /\ CarryInOrder /\ QueueInOrder /\ PackedInOrder /\ RowsInOrder
      /\ LossIsExplained /\ Multi /\ ReadBlock /\ phase' \in {"feed", "split"}
      /\ rows' = rows /\ capacity' = capacity /\ released' = released
  BY DEF StreamInv, FeedTokens, Multi
<1>2. /\ Extends /\ CarryFrom' = CarryFrom
      /\ UNCHANGED <<config, queue, packed>>
      /\ \A p \in Position : p \in Text(carry') <=> p \in Text(carry)
      /\ \A p \in Position' \ Position : p \in Text(carry')
      /\ CarryInOrder'
  BY <1>1, ReadExtends
<1>3. StreamTypes'
  <2>1. phase' # "window" /\ (phase' = "split" => mode = "multi_sample")
    BY <1>1 DEF Multi
  <2>2. capacity' \in Nat /\ released' \in Nat
    BY <1>1 DEF StreamTypes
  <2>3. QED  BY <1>1, <2>1, <2>2, ReadTypes
<1>4. QueueInOrder' /\ \A t \in Nat : Coming(t)' => Coming(t)
  <2>1. CarryFrom \in Int /\ CarryFrom <= CarryFrom' /\ CarryFrom' \in Int
    BY <1>1, <1>2, CarryComing
  <2>2. QED  BY <1>1, <1>2, <2>1, QueueKept
<1>5. PackedInOrder'
  BY <1>1, <1>2, <1>4, PackedKept
<1>6. RowsInOrder'
  BY <1>1, <1>2, <1>4, RowsKept
<1>7. LossIsExplained'
  <2>0. rows' = rows
    BY <1>1
  <2>1. \A p \in Position : Present(p)' <=> Present(p)
    BY <1>2, <2>0 DEF Present, Text
  <2>2. ASSUME NEW p \in Position', ~stream'[p], ~Present(p)' PROVE p \in Lost
    <3>1. p \in Position
      BY <1>2, <2>2 DEF Present, Text
    <3>2. ~stream[p]
      BY <1>2, <2>2, <3>1 DEF Extends
    <3>3. QED  BY <1>1, <2>1, <2>2, <3>1, <3>2, PresentHeld
  <2>3. QED  BY <1>1, <1>2, <1>3, <2>1, <2>2, LossStep
<1>8. QED  BY <1>1, <1>2, <1>3, <1>4, <1>5, <1>6, <1>7 DEF StreamInv, Multi, config

\* A piece of the carry.
LEMMA PieceOfCarry ==
  ASSUME StreamTypes, CarryInOrder, NEW n \in Nat, n <= Len(carry),
         \A i \in 1..n : ~stream[carry[i]],
         NEW piece, piece = SubSeq(carry, 1, n)
  PROVE  /\ piece \in Seq(Position) /\ Len(piece) = n /\ DOMAIN piece = 1..n
         /\ \A i \in 1..n : piece[i] = carry[i] /\ piece[i] = CarryFrom + i - 1
                            /\ i \in DOMAIN carry
         /\ Run(piece) /\ NoDelimiter(piece)
         /\ \A i \in DOMAIN piece : CarryFrom <= piece[i]
         /\ Below(piece, CarryFrom + n)
<1>1. /\ carry \in Seq(Int) /\ Len(carry) \in Nat /\ DOMAIN carry = 1..Len(carry)
      /\ \A i \in DOMAIN carry : carry[i] \in Position /\ carry[i] = CarryFrom + i - 1
      /\ CarryFrom \in Nat
  BY Sequences, CarryComing
<1>2. /\ piece \in Seq(Int) /\ Len(piece) = n /\ DOMAIN piece = 1..n
      /\ \A i \in 1..n : piece[i] = carry[i] /\ i \in DOMAIN carry
  <2>1. /\ piece \in Seq(Int) /\ Len(piece) = n - 1 + 1 /\ DOMAIN piece = 1..(n - 1 + 1)
        /\ \A i \in 1..(n - 1 + 1) : piece[i] = carry[1 + i - 1] /\ 1 + i - 1 \in DOMAIN carry
    <3>1. 1 \in Nat /\ 1 >= 1 /\ 1 <= n + 1
      OBVIOUS
    <3>2. QED  BY ONLY <1>1, <3>1, n \in Nat, n <= Len(carry), piece = SubSeq(carry, 1, n), Cut
  <2>2. n - 1 + 1 = n /\ \A i \in 1..n : 1 + i - 1 = i
    OBVIOUS
  <2>3. QED  BY ONLY <2>1, <2>2
<1>3. \A i \in 1..n : piece[i] = CarryFrom + i - 1
  BY <1>1, <1>2
<1>4. piece \in Seq(Position)
  BY <1>1, <1>2, WithinSet
<1>5. Run(piece)
  <2>1. ASSUME NEW i \in DOMAIN piece PROVE piece[i] = piece[1] + i - 1
    <3>1. 1 \in 1..n /\ i \in 1..n
      BY <1>2
    <3>2. QED  BY ONLY <1>1, <1>3, <3>1
  <2>2. QED  BY <2>1 DEF Run
<1>6. NoDelimiter(piece)
  BY <1>2 DEF NoDelimiter
<1>7. \A i \in DOMAIN piece : CarryFrom <= piece[i]
  BY ONLY <1>1, <1>2, <1>3
<1>8. Below(piece, CarryFrom + n)
  BY ONLY <1>1, <1>2, <1>3, n \in Nat DEF Below
<1>9. QED  BY <1>2, <1>3, <1>4, <1>5, <1>6, <1>7, <1>8

\* What was carried over is split, and the rest of it is carried over.
LEMMA CarryShorter ==
  ASSUME StreamTypes, CarryInOrder, UNCHANGED reading,
         NEW n \in Nat, n <= Len(carry),
         carry' = SubSeq(carry, n + 1, Len(carry))
  PROVE  /\ carry' \in Seq(Position) /\ Len(carry') = Len(carry) - n
         /\ CarryFrom' = CarryFrom + n
         /\ DOMAIN carry' = 1..(Len(carry) - n)
         /\ \A j \in DOMAIN carry' : carry'[j] = carry[n + j] /\ n + j \in DOMAIN carry
         /\ \A j \in DOMAIN carry' : carry'[j] = CarryFrom + n + j - 1
         /\ \A j \in DOMAIN carry : j > n => carry[j] \in Text(carry')
         /\ Text(carry') \subseteq Text(carry)
         /\ Len(carry') <= Len(stream)
<1>1. /\ carry \in Seq(Int) /\ Len(carry) \in Nat /\ DOMAIN carry = 1..Len(carry)
      /\ \A i \in DOMAIN carry : carry[i] \in Position /\ carry[i] = CarryFrom + i - 1
      /\ CarryFrom \in Nat /\ Len(stream) \in Nat /\ Len(carry) <= Len(stream)
      /\ \A i \in DOMAIN carry : IsText(carry[i])
  BY Sequences, CarryComing DEF CarryInOrder
<1>2. PICK m : m = n + 1
  OBVIOUS
<1>3. PICK c : c = SubSeq(carry, m, Len(carry))
  OBVIOUS
<1>4. carry' = c
  BY <1>2, <1>3
<1>5. /\ m \in Nat /\ m >= 1 /\ m <= Len(carry) + 1
      /\ Len(carry) - m + 1 = Len(carry) - n
  BY ONLY <1>1, <1>2, n \in Nat, n <= Len(carry)
<1>6. /\ c \in Seq(Int) /\ Len(c) = Len(carry) - m + 1 /\ DOMAIN c = 1..(Len(carry) - m + 1)
      /\ \A i \in 1..(Len(carry) - m + 1) : c[i] = carry[m + i - 1] /\ m + i - 1 \in DOMAIN carry
      /\ \A i \in m..Len(carry) : i - m + 1 \in DOMAIN c /\ c[i - m + 1] = carry[i]
      /\ Text(c) \subseteq Text(carry)
  BY ONLY <1>1, <1>3, <1>5, Cut
<1>7. ASSUME NEW i \in 1..(Len(carry) - n)
      PROVE  c[i] = carry[n + i] /\ n + i \in DOMAIN carry
  <2>1. m + i - 1 = n + i
    BY ONLY <1>2, n \in Nat, i \in 1..(Len(carry) - n)
  <2>2. QED  BY ONLY <1>5, <1>6, <2>1, i \in 1..(Len(carry) - n)
<1>8. Len(c) = Len(carry) - n /\ DOMAIN c = 1..(Len(carry) - n)
  BY ONLY <1>5, <1>6
<1>9. ASSUME NEW j \in DOMAIN carry, j > n PROVE carry[j] \in Text(c)
  <2>1. j \in m..Len(carry)
    BY ONLY <1>1, <1>2, <1>9, n \in Nat
  <2>2. QED  BY <1>1, <1>6, <2>1, TextIn
<1>10. c \in Seq(Position)
  <2>1. \A i \in 1..Len(c) : c[i] \in Position
    BY ONLY <1>1, <1>7, <1>8
  <2>2. QED  BY <1>6, <2>1, WithinSet
<1>11. CarryFrom' = CarryFrom + n
  <2>1. Len(stream') = Len(stream) /\ Len(carry') = Len(carry) - n
    BY <1>4, <1>8, SameStream
  <2>2. QED  BY ONLY <1>1, <2>1, n \in Nat DEF CarryFrom
<1>12. ASSUME NEW j \in DOMAIN c PROVE c[j] = CarryFrom + n + j - 1
  <2>1. j \in 1..(Len(carry) - n) /\ j \in Int
    BY <1>8
  <2>2. c[j] = CarryFrom + (n + j) - 1
    BY <1>1, <1>7, <2>1
  <2>3. QED  BY ONLY <1>1, <2>1, <2>2, n \in Nat
<1>13. Len(c) <= Len(stream)
  BY ONLY <1>1, <1>8, n \in Nat
<1>14. QED
  BY ONLY <1>4, <1>6, <1>7, <1>8, <1>9, <1>10, <1>11, <1>12, <1>13

LEMMA SplitAtDelimiterStep ==
  ASSUME StreamInv, SplitAtDelimiter
  PROVE  StreamInv'
<1>1. /\ StreamTypes /\ CarryInOrder /\ QueueInOrder /\ PackedInOrder /\ RowsInOrder
      /\ LossIsExplained /\ Multi /\ phase = "split"
  BY DEF StreamInv, SplitAtDelimiter, StreamTypes, Multi
<1>2. PICK i \in DOMAIN carry :
        /\ stream[carry[i]] /\ \A j \in 1..(i - 1) : ~stream[carry[j]]
        /\ queue' = Queued(SubSeq(carry, 1, i - 1))
        /\ carry' = SubSeq(carry, i + 1, Len(carry))
  BY DEF SplitAtDelimiter
<1>3. /\ UNCHANGED <<config, reading>> /\ phase' = phase
      /\ packed' = packed /\ segments' = segments /\ rows' = rows
      /\ mode' = mode /\ stream' = stream
  BY DEF SplitAtDelimiter, packing, config, reading
<1>4. /\ Len(carry) \in Nat /\ DOMAIN carry = 1..Len(carry) /\ Len(stream) \in Nat
      /\ CarryFrom \in Nat /\ CarryFrom >= 1
      /\ \A j \in DOMAIN carry :
           carry[j] = CarryFrom + j - 1 /\ carry[j] \in Position /\ IsText(carry[j])
  BY <1>1, Sequences, CarryComing
<1>5. i \in Nat /\ i >= 1 /\ i <= Len(carry) /\ i - 1 \in Nat /\ i - 1 <= Len(carry)
  BY ONLY <1>4
<1>6. PICK piece : piece = SubSeq(carry, 1, i - 1)
  OBVIOUS
<1>7. /\ piece \in Seq(Position) /\ Len(piece) = i - 1 /\ DOMAIN piece = 1..(i - 1)
      /\ \A j \in 1..(i - 1) : piece[j] = carry[j] /\ piece[j] = CarryFrom + j - 1
                               /\ j \in DOMAIN carry
      /\ Run(piece) /\ NoDelimiter(piece)
      /\ \A j \in DOMAIN piece : CarryFrom <= piece[j]
      /\ Below(piece, CarryFrom + (i - 1))
  <2>1. PICK n \in Nat : n = i - 1
    BY <1>5
  <2>2. /\ n <= Len(carry) /\ \A j \in 1..n : ~stream[carry[j]]
        /\ piece = SubSeq(carry, 1, n)
    BY <1>2, <1>5, <1>6, <2>1
  <2>3. /\ piece \in Seq(Position) /\ Len(piece) = n /\ DOMAIN piece = 1..n
        /\ \A j \in 1..n : piece[j] = carry[j] /\ piece[j] = CarryFrom + j - 1
                           /\ j \in DOMAIN carry
        /\ Run(piece) /\ NoDelimiter(piece)
        /\ \A j \in DOMAIN piece : CarryFrom <= piece[j]
        /\ Below(piece, CarryFrom + n)
    BY ONLY <1>1, <2>2, n \in Nat, PieceOfCarry
  <2>4. QED  BY ONLY <2>1, <2>3
<1>8. /\ carry' \in Seq(Position) /\ Len(carry') = Len(carry) - i
      /\ CarryFrom' = CarryFrom + i
      /\ DOMAIN carry' = 1..(Len(carry) - i)
      /\ \A j \in DOMAIN carry' : carry'[j] = carry[i + j] /\ i + j \in DOMAIN carry
      /\ \A j \in DOMAIN carry' : carry'[j] = CarryFrom + i + j - 1
      /\ \A j \in DOMAIN carry : j > i => carry[j] \in Text(carry')
      /\ Text(carry') \subseteq Text(carry)
      /\ Len(carry') <= Len(stream)
  BY ONLY <1>1, <1>2, <1>3, <1>5, CarryShorter
<1>9. CarryFrom \in Int /\ CarryFrom' \in Int /\ CarryFrom <= CarryFrom'
  BY ONLY <1>4, <1>5, <1>8
<1>10. Extends
  BY <1>1, <1>3, NothingRead
<1>11. Len(piece) >= MinDoc =>
         piece \in Pieces /\ EndsPiece(piece[Len(piece)]) /\ Below(piece, CarryFrom')
  <2> SUFFICES ASSUME Len(piece) >= MinDoc
               PROVE  piece \in Pieces /\ EndsPiece(piece[Len(piece)])
                      /\ Below(piece, CarryFrom')
    OBVIOUS
  <2>1. i - 1 >= 1
    BY ONLY <1>5, <1>7, RowSizes, Len(piece) >= MinDoc
  <2>2. piece # <<>>
    BY <1>7, <2>1, EmptyTokens
  <2>3. piece[Len(piece)] = CarryFrom + (i - 1) - 1
    <3>1. i - 1 \in 1..(i - 1)
      BY ONLY <1>5, <2>1
    <3>2. QED  BY <1>7, <3>1
  <2>4. piece[Len(piece)] + 1 = carry[i]
    <3>1. carry[i] = CarryFrom + i - 1
      BY <1>2, <1>4
    <3>2. QED  BY ONLY <1>4, <1>5, <2>3, <3>1
  <2>5. EndsPiece(piece[Len(piece)])
    BY <1>2, <2>4 DEF EndsPiece
  <2>6. Below(piece, CarryFrom')
    BY ONLY <1>4, <1>5, <1>7, <1>8 DEF Below
  <2>7. QED  BY <1>7, <2>2, <2>5, <2>6 DEF Pieces
<1>12. /\ queue' \in Seq(Pieces) /\ QueueInOrder'
       /\ \A t \in Nat : Coming(t)' => Coming(t)
  <2>1. CASE Len(piece) >= MinDoc
    <3>1. queue' = Append(queue, piece)
      BY <1>2, <1>6, <2>1 DEF Queued, LongEnough
    <3>2. QED
      BY ONLY <1>1, <1>3, <1>7, <1>9, <1>11, <2>1, <3>1, QueueAppended
  <2>2. CASE ~(Len(piece) >= MinDoc)
    <3>1. queue' = queue
      BY <1>2, <1>6, <2>2 DEF Queued, LongEnough
    <3>2. queue \in Seq(Pieces)
      BY <1>1 DEF StreamTypes, Pieces
    <3>3. QED  BY ONLY <1>1, <1>9, <1>10, <3>1, <3>2, QueueKept
  <2>3. QED  BY <2>1, <2>2
<1>13. CarryInOrder'
  <2>1. \A j \in DOMAIN carry' : carry'[j] = CarryFrom' + j - 1
    BY ONLY <1>8
  <2>2. ASSUME carry' # <<>> PROVE StartsPiece(carry[1])'
    <3>1. 1 \in DOMAIN carry'
      BY <1>8, <2>2, EmptySeq
    <3>2. carry'[1] = carry[i] + 1 /\ carry[i] \in Nat /\ carry[i] >= 1
      <4>1. carry'[1] = CarryFrom + i + 1 - 1 /\ carry[i] = CarryFrom + i - 1
        BY <1>2, <1>4, <1>8, <3>1
      <4>2. QED  BY ONLY <1>4, <1>5, <4>1
    <3>3. carry'[1] > 1 /\ carry'[1] - 1 = carry[i]
      BY ONLY <3>2
    <3>4. QED  BY <1>2, <1>3, <3>3 DEF StartsPiece
  <2>3. Len(carry') <= Len(stream')
    BY <1>3, <1>8
  <2>4. QED  BY <2>1, <2>2, <2>3 DEF CarryInOrder
<1>14. StreamTypes'
  BY <1>1, <1>3, <1>8, <1>12, TypesStep DEF StreamTypes, Phases, Multi
<1>15. PackedInOrder'
  BY <1>1, <1>3, <1>10, <1>12, PackedKept
<1>16. RowsInOrder'
  BY <1>1, <1>3, <1>10, <1>12, RowsKept
<1>17. /\ \A k \in DOMAIN queue : k \in DOMAIN queue' /\ queue'[k] = queue[k]
       /\ Len(piece) >= MinDoc => \E k \in DOMAIN queue' : queue'[k] = piece
       /\ \A k \in DOMAIN queue' : \/ k \in DOMAIN queue /\ queue'[k] = queue[k]
                                   \/ queue'[k] = piece
  <2>1. queue \in Seq(Pieces) /\ DOMAIN queue = 1..Len(queue) /\ Len(queue) \in Nat
    BY <1>1, Sequences DEF StreamTypes, Pieces
  <2>2. CASE Len(piece) >= MinDoc
    <3>1. queue' = Append(queue, piece)
      BY <1>2, <1>6, <2>2 DEF Queued, LongEnough
    <3>2. /\ queue' \in Seq(Pieces) /\ Len(queue') = Len(queue) + 1
          /\ \A k \in 1..Len(queue) : queue'[k] = queue[k]
          /\ queue'[Len(queue) + 1] = piece
      BY ONLY <1>11, <2>1, <2>2, <3>1, AppendProperties
    <3>3. DOMAIN queue' = 1..(Len(queue) + 1)
      BY <3>2, LenProperties
    <3>4. QED  BY ONLY <2>1, <3>2, <3>3
  <2>3. CASE ~(Len(piece) >= MinDoc)
    BY <1>2, <1>6, <2>3 DEF Queued, LongEnough
  <2>4. QED  BY <2>2, <2>3
<1>18. ASSUME NEW p \in Position, Present(p)' PROVE Present(p)
  <2>1. ASSUME NEW k \in DOMAIN queue', p \in Text(queue'[k]) PROVE Present(p)
    <3>1. CASE k \in DOMAIN queue /\ queue'[k] = queue[k]
      BY <2>1, <3>1 DEF Present
    <3>2. CASE queue'[k] = piece
      <4>1. p \in Text(carry)
        BY <1>7, <2>1, <3>2, TextIn
      <4>2. QED  BY <4>1 DEF Present
    <3>3. QED  BY <1>17, <2>1, <3>1, <3>2
  <2>2. CASE p \in Text(carry')
    BY <1>8, <2>2 DEF Present
  <2>3. CASE (\E k \in DOMAIN rows : p \in Text(rows[k])) \/ p \in Text(packed)
    BY <2>3 DEF Present
  <2>4. \/ \E k \in DOMAIN rows : p \in Text(rows[k])
        \/ p \in Text(packed)
        \/ \E k \in DOMAIN queue' : p \in Text(queue'[k])
        \/ p \in Text(carry')
    BY <1>3, <1>18 DEF Present, Text
  <2>5. QED  BY <2>1, <2>2, <2>3, <2>4
<1>19. ASSUME NEW p \in Position', ~stream'[p], ~Present(p)'
       PROVE  p \in Lost \/ Explained(p)'
  <2>1. p \in Position /\ ~stream[p]
    BY <1>3, <1>19, SameStream
  <2>2. /\ ~\E k \in DOMAIN rows : p \in Text(rows[k])
        /\ p \notin Text(packed)
        /\ ~\E k \in DOMAIN queue' : p \in Text(queue'[k])
        /\ p \notin Text(carry')
    BY <1>3, <1>19 DEF Present, Text
  <2>3. ~\E k \in DOMAIN queue : p \in Text(queue[k])
    BY <1>17, <2>2
  <2>4. CASE p \notin Text(carry)
    <3>1. ~Present(p)
      BY <2>2, <2>3, <2>4 DEF Present
    <3>2. QED  BY <1>1, <2>1, <3>1, PresentHeld
  <2>5. CASE p \in Text(carry)
    <3>1. PICK j \in DOMAIN carry : carry[j] = p
      BY <2>5, TextIn
    <3>2. j # i /\ ~(j > i)
      BY <1>2, <1>8, <2>1, <2>2, <3>1
    <3>3. j \in 1..(i - 1)
      BY ONLY <1>4, <1>5, <3>1, <3>2
    <3>4. p \in Text(piece)
      BY <1>4, <1>7, <3>1, <3>3, TextIn
    <3>5. ~(Len(piece) >= MinDoc)
      BY <1>17, <2>2, <3>4
    <3>6. CutShort(p)
      <4>1. PICK b \in Nat, d \in Nat : b = CarryFrom /\ d = CarryFrom + i - 1
        BY ONLY <1>4, <1>5
      <4>2. 1 \in DOMAIN carry /\ carry[1] = b /\ carry[i] = d /\ carry # <<>>
        <5>1. 1 \in DOMAIN carry /\ i \in DOMAIN carry
          BY ONLY <1>4, <1>5
        <5>2. carry[1] = CarryFrom + 1 - 1 /\ carry[i] = CarryFrom + i - 1
          BY ONLY <1>4, <5>1
        <5>3. carry # <<>>
          BY ONLY <5>1, EmptyTokens, DOMAIN <<>> = {}
        <5>4. QED  BY ONLY <1>4, <4>1, <5>1, <5>2, <5>3
      <4>3. StartsPiece(b) /\ stream[d]
        BY <1>1, <1>2, <4>2 DEF CarryInOrder, Multi
      <4>4. p = CarryFrom + j - 1
        BY <1>4, <3>1
      <4>5. b \in 1..p /\ d \in p..Len(stream)
        <5>1. d \in Position
          BY <1>2, <1>4, <4>2
        <5>2. QED  BY ONLY <1>4, <1>5, <3>3, <4>1, <4>4, <5>1 DEF Position
      <4>6. ASSUME NEW q \in b..(d - 1) PROVE ~stream[q]
        <5>1. /\ q - b + 1 \in 1..(i - 1)
              /\ CarryFrom + (q - b + 1) - 1 = q
          BY ONLY <1>4, <1>5, <4>1, <4>6
        <5>2. carry[q - b + 1] = q
          BY <1>4, <1>7, <5>1
        <5>3. QED  BY <1>2, <5>1, <5>2
      <4>7. d - b < MinDoc
        BY ONLY <1>4, <1>5, <1>7, <3>5, <4>1, RowSizes
      <4>8. QED  BY <4>3, <4>5, <4>6, <4>7 DEF CutShort
    <3>7. QED  BY <1>3, <3>6, SameStream DEF Explained
  <2>6. QED  BY <2>4, <2>5
<1>20. LossIsExplained'
  BY <1>1, <1>3, <1>10, <1>14, <1>18, <1>19, LossStep
<1>21. QED
  BY <1>1, <1>3, <1>12, <1>13, <1>14, <1>15, <1>16, <1>20 DEF StreamInv, Multi

LEMMA SplitTailStep ==
  ASSUME StreamInv, SplitTail
  PROVE  StreamInv'
<1>1. /\ StreamTypes /\ CarryInOrder /\ QueueInOrder /\ PackedInOrder /\ RowsInOrder
      /\ LossIsExplained /\ Multi /\ phase = "split" /\ shard # 0
  BY DEF StreamInv, SplitTail, StreamTypes, Multi
<1>2. /\ UNCHANGED <<config, reading>> /\ phase' = "feed"
      /\ packed' = packed /\ segments' = segments /\ rows' = rows
      /\ mode' = mode /\ stream' = stream /\ padTail' = padTail
      /\ queue' = Queued(carry)
      /\ carry' = IF LongEnough(carry) THEN <<>> ELSE carry
      /\ \A i \in DOMAIN carry : ~stream[carry[i]]
  BY DEF SplitTail, packing, config, reading
<1>3. /\ Len(carry) \in Nat /\ DOMAIN carry = 1..Len(carry) /\ Len(stream) \in Nat
      /\ CarryFrom \in Nat /\ CarryFrom >= 1 /\ carry \in Seq(Position)
      /\ queue \in Seq(Pieces) /\ DOMAIN queue = 1..Len(queue) /\ Len(queue) \in Nat
  BY <1>1, Sequences, CarryComing DEF StreamTypes, Pieces
<1>4. Extends
  BY <1>1, <1>2, NothingRead
<1>5. CASE ~LongEnough(carry)
  <2>1. queue' = queue /\ carry' = carry
    BY <1>2, <1>5 DEF Queued
  <2>2. CarryFrom' = CarryFrom
    BY <1>2, <2>1 DEF CarryFrom
  <2>3. QueueInOrder' /\ \A t \in Nat : Coming(t)' => Coming(t)
    <3>1. CarryFrom \in Int /\ CarryFrom' \in Int /\ CarryFrom <= CarryFrom'
      BY ONLY <1>3, <2>2
    <3>2. QED  BY ONLY <1>1, <1>4, <2>1, <3>1, QueueKept
  <2>4. CarryInOrder'
    <3>1. cuts' = cuts
      BY <1>2 DEF reading
    <3>2. QED  BY <1>1, <1>2, <2>1, <2>2, <3>1 DEF CarryInOrder, StartsPiece
  <2>5. StreamTypes'
    BY <1>1, <1>2, <1>3, <2>1, TypesStep DEF StreamTypes, Phases, Multi
  <2>6. PackedInOrder' /\ RowsInOrder'
    BY <1>1, <1>2, <1>4, <2>3, PackedKept, RowsKept
  <2>7. LossIsExplained'
    <3>1. \A p : Present(p)' <=> Present(p)
      BY <1>2, <2>1 DEF Present, Text
    <3>2. ASSUME NEW p \in Position', ~stream'[p], ~Present(p)' PROVE p \in Lost
      BY <1>1, <1>2, <3>1, <3>2, SameStream, PresentHeld
    <3>3. QED  BY <1>1, <1>2, <1>4, <2>5, <3>1, <3>2, LossStep
  <2>8. QED
    BY <1>1, <1>2, <2>3, <2>4, <2>5, <2>6, <2>7 DEF StreamInv, Multi
<1>6. CASE LongEnough(carry)
  <2>1. queue' = Append(queue, carry) /\ carry' = <<>> /\ Len(carry) >= MinDoc
    BY <1>2, <1>6 DEF Queued, LongEnough
  <2>2. Len(carry) >= 1 /\ carry # <<>>
    <3>1. Len(carry) >= 1
      BY ONLY <1>3, <2>1, RowSizes
    <3>2. QED  BY ONLY <3>1, EmptyTokens
  <2>3. CarryFrom' = Len(stream) + 1 /\ CarryFrom' = CarryFrom + Len(carry)
    <3>1. Len(carry') = 0 /\ Len(stream') = Len(stream)
      BY <1>2, <2>1, EmptyTokens
    <3>2. QED  BY ONLY <1>3, <3>1 DEF CarryFrom
  <2>4. PICK n \in Nat : n = Len(carry)
    BY <1>3
  <2>5. /\ carry \in Pieces /\ Run(carry) /\ NoDelimiter(carry) /\ Below(carry, CarryFrom')
        /\ \A i \in DOMAIN carry : CarryFrom <= carry[i] /\ carry[i] = CarryFrom + i - 1
    <3>1. /\ n <= Len(carry) /\ carry = SubSeq(carry, 1, n)
          /\ \A i \in 1..n : ~stream[carry[i]]
      BY <1>2, <1>3, <2>4, SubSeqFull
    <3>2. /\ Run(carry) /\ NoDelimiter(carry)
          /\ \A i \in DOMAIN carry : CarryFrom <= carry[i]
          /\ Below(carry, CarryFrom + n)
          /\ \A i \in 1..n : carry[i] = CarryFrom + i - 1
      BY ONLY <1>1, <3>1, n \in Nat, PieceOfCarry
    <3>3. QED  BY ONLY <1>3, <2>2, <2>3, <2>4, <3>2 DEF Pieces
  <2>6. EndsPiece(carry[Len(carry)])
    <3>1. Len(carry) \in DOMAIN carry
      BY ONLY <1>3, <2>2
    <3>2. carry[Len(carry)] = Len(stream)
      BY ONLY <1>3, <2>3, <2>5, <3>1 DEF CarryFrom
    <3>3. ~(carry[Len(carry)] + 1 \in Position)
      BY ONLY <1>3, <3>2 DEF Position
    <3>4. QED  BY <3>3 DEF EndsPiece
  <2>7. /\ queue' \in Seq(Pieces) /\ QueueInOrder'
        /\ \A t \in Nat : Coming(t)' => Coming(t)
    <3>1. CarryFrom \in Int /\ CarryFrom' \in Int /\ CarryFrom <= CarryFrom'
      BY ONLY <1>3, <2>3
    <3>2. QED  BY ONLY <1>1, <1>2, <2>1, <2>5, <2>6, <3>1, QueueAppended
  <2>8. CarryInOrder'
    BY <1>2, <1>3, <2>1, EmptyTokens DEF CarryInOrder
  <2>9. StreamTypes'
    <3>1. carry' \in Seq(Position)
      BY <2>1
    <3>2. QED  BY <1>1, <1>2, <2>7, <3>1, TypesStep DEF StreamTypes, Phases, Multi
  <2>10. PackedInOrder' /\ RowsInOrder'
    BY <1>1, <1>2, <1>4, <2>7, PackedKept, RowsKept
  <2>11. /\ \A k \in DOMAIN queue : k \in DOMAIN queue' /\ queue'[k] = queue[k]
         /\ \E k \in DOMAIN queue' : queue'[k] = carry
         /\ \A k \in DOMAIN queue' : \/ k \in DOMAIN queue /\ queue'[k] = queue[k]
                                     \/ queue'[k] = carry
    <3>1. /\ queue' \in Seq(Pieces) /\ Len(queue') = Len(queue) + 1
          /\ \A k \in 1..Len(queue) : queue'[k] = queue[k]
          /\ queue'[Len(queue) + 1] = carry
      BY ONLY <1>3, <2>1, <2>5, AppendProperties
    <3>2. DOMAIN queue' = 1..(Len(queue) + 1)
      BY <3>1, LenProperties
    <3>3. QED  BY ONLY <1>3, <3>1, <3>2
  <2>12. \A p : Present(p)' <=> Present(p)
    <3>1. Text(carry') = {}
      BY <2>1, EmptyTokens
    <3>2. \A p : (\E k \in DOMAIN queue' : p \in Text(queue'[k]))
                   <=> (\E k \in DOMAIN queue : p \in Text(queue[k])) \/ p \in Text(carry)
      BY <2>11
    <3>3. QED  BY <1>2, <3>1, <3>2 DEF Present, Text
  <2>13. LossIsExplained'
    <3>1. ASSUME NEW p \in Position', ~stream'[p], ~Present(p)' PROVE p \in Lost
      BY <1>1, <1>2, <2>12, <3>1, SameStream, PresentHeld
    <3>2. QED  BY <1>1, <1>2, <1>4, <2>9, <2>12, <3>1, LossStep
  <2>14. QED
    BY <1>1, <1>2, <2>7, <2>8, <2>9, <2>10, <2>13 DEF StreamInv, Multi
<1>7. QED  BY <1>5, <1>6

\* pack_one: what is carried over and the stream stay as they are.
LEMMA PackFrame ==
  ASSUME StreamInv, phase \in {"pack", "fill"}, UNCHANGED <<config, reading, carry>>
  PROVE  /\ StreamTypes /\ CarryInOrder /\ QueueInOrder /\ PackedInOrder /\ RowsInOrder
         /\ LossIsExplained /\ Multi /\ Extends /\ CarryInOrder' /\ CarryFrom' = CarryFrom
         /\ mode' = mode /\ padTail' = padTail /\ stream' = stream /\ Position' = Position
         /\ CarryFrom \in Nat /\ segments \in 0..MaxSegments
         /\ carry \in Seq(Position) /\ queue \in Seq(Pieces)
         /\ packed \in Seq(Position \cup {Sep}) /\ Len(packed) <= Need
         /\ rows \in Seq(Seq(Position \cup {Sep, Pad}))
         /\ \A k \in DOMAIN rows : Len(rows[k]) = Need
         /\ packed \in Seq(Int) /\ Len(packed) \in Nat /\ DOMAIN packed = 1..Len(packed)
<1>1. /\ StreamTypes /\ CarryInOrder /\ QueueInOrder /\ PackedInOrder /\ RowsInOrder
      /\ LossIsExplained /\ Multi
  BY DEF StreamInv, StreamTypes, Multi
<1>2. /\ mode' = mode /\ padTail' = padTail /\ stream' = stream /\ cuts' = cuts
      /\ Position' = Position /\ carry' = carry
  BY SameStream DEF config
<1>3. CarryFrom' = CarryFrom /\ CarryFrom \in Nat
  BY <1>1, <1>2, CarryComing DEF CarryFrom
<1>4. CarryInOrder'
  BY <1>1, <1>2, <1>3 DEF CarryInOrder, StartsPiece
<1>5. Extends
  BY <1>1, NothingRead
<1>6. /\ carry \in Seq(Position) /\ queue \in Seq(Pieces) /\ segments \in 0..MaxSegments
      /\ packed \in Seq(Position \cup {Sep}) /\ Len(packed) <= Need
      /\ rows \in Seq(Seq(Position \cup {Sep, Pad}))
      /\ \A k \in DOMAIN rows : Len(rows[k]) = Need
  BY <1>1 DEF StreamTypes, Pieces
<1>7. packed \in Seq(Int) /\ Len(packed) \in Nat /\ DOMAIN packed = 1..Len(packed)
  BY <1>1, Sequences
<1>8. QED  BY <1>1, <1>2, <1>3, <1>4, <1>5, <1>6, <1>7

\* A document goes on, or is at its end.
LEMMA DocumentEnds ==
  ASSUME NEW h \in Seq(Int), Run(h), EndsPiece(h[Len(h)]), \A i \in DOMAIN h : h[i] > 0
  PROVE  \A p \in Text(h) : p + 1 \in Text(h) \/ EndsPiece(p)
<1> SUFFICES ASSUME NEW p \in Text(h), ~EndsPiece(p) PROVE p + 1 \in Text(h)
  OBVIOUS
<1>1. DOMAIN h = 1..Len(h) /\ Len(h) \in Nat /\ \A i \in DOMAIN h : h[i] \in Int
  BY LenProperties, ElementOfSeq
<1>2. PICK i \in DOMAIN h : h[i] = p
  BY TextIn
<1>3. i # Len(h)
  BY <1>2
<1>4. i + 1 \in DOMAIN h /\ 1 \in DOMAIN h
  BY ONLY <1>1, <1>3, i \in DOMAIN h
<1>5. h[i] = h[1] + i - 1 /\ h[i + 1] = h[1] + (i + 1) - 1 /\ h[1] \in Int
  BY <1>1, <1>2, <1>4 DEF Run
<1>6. h[i + 1] = p + 1
  BY ONLY <1>1, <1>2, <1>5, i \in DOMAIN h
<1>7. QED  BY <1>4, <1>6, TextIn DEF IsText

\* The first document of the queue is put after r.
LEMMA DocumentAdded ==
  ASSUME StreamTypes, QueueInOrder, queue # <<>>,
         NEW r \in Seq(Int), \A i \in DOMAIN r : r[i] \in Position \cup {Sep},
         Rising(r), NoDelimiter(r), \A t \in Nat : Coming(t) => Below(r, t),
         NEW s, s = r \o Head(queue)
  PROVE  /\ s \in Seq(Int) /\ s \in Seq(Position \cup {Sep})
         /\ Len(s) = Len(r) + Len(Head(queue))
         /\ Rising(s) /\ NoDelimiter(s) /\ Text(s) = Text(r) \cup Text(Head(queue))
         /\ \A t \in Nat : Coming(t) /\ Below(Head(queue), t) => Below(s, t)
         /\ Separate(r) /\ (r # <<>> => ~IsText(r[Len(r)])) => Separate(s)
         /\ (\A p \in Text(r) : p + 1 \in Text(r) \/ EndsPiece(p))
              => \A p \in Text(s) : p + 1 \in Text(s) \/ EndsPiece(p)
<1>1. PICK h : h = Head(queue)
  OBVIOUS
<1>2. /\ h \in Seq(Int) /\ Len(h) \in Nat /\ DOMAIN h = 1..Len(h) /\ PieceInOrder(h)
      /\ \A i \in DOMAIN h : h[i] \in Position /\ h[i] \in Text(h)
      /\ \A t \in Text(h) : t \in Nat /\ Coming(t)
  BY <1>1, First
<1>3. s = r \o h
  BY <1>1
<1>4. Run(h) /\ NoDelimiter(h) /\ EndsPiece(h[Len(h)]) /\ \A i \in DOMAIN h : h[i] > 0
  BY <1>2, TextIn DEF PieceInOrder, IsText
<1>5. Rising(h) /\ Separate(h)
  BY <1>2, <1>4, RunInOrder
<1>6. Precedes(r, h)
  BY <1>2 DEF Precedes
<1>7. /\ s \in Seq(Int) /\ Len(s) = Len(r) + Len(h)
      /\ DOMAIN r = 1..Len(r) /\ Len(r) \in Nat
      /\ \A i \in 1..(Len(r) + Len(h)) : s[i] = IF i <= Len(r) THEN r[i] ELSE h[i - Len(r)]
      /\ Text(s) = Text(r) \cup Text(h)
  BY ONLY <1>2, <1>3, r \in Seq(Int), Glued
<1>8. /\ Rising(s) /\ NoDelimiter(s)
      /\ \A t : Below(r, t) /\ Below(h, t) => Below(s, t)
      /\ Separate(r) /\ (r # <<>> => ~IsText(r[Len(r)])) => Separate(s)
  BY ONLY <1>2, <1>3, <1>4, <1>5, <1>6, r \in Seq(Int), Rising(r), NoDelimiter(r),
          GluedInOrder
<1>9. s \in Seq(Position \cup {Sep})
  <2>1. ASSUME NEW i \in 1..Len(s) PROVE s[i] \in Position \cup {Sep}
    <3>1. CASE i <= Len(r)
      <4>1. i \in DOMAIN r /\ s[i] = r[i]
        BY ONLY <1>2, <1>7, <3>1, i \in 1..Len(s)
      <4>2. QED  BY <4>1
    <3>2. CASE ~(i <= Len(r))
      <4>1. i - Len(r) \in DOMAIN h /\ s[i] = h[i - Len(r)]
        BY ONLY <1>2, <1>7, <3>2, i \in 1..Len(s)
      <4>2. QED  BY <1>2, <4>1
    <3>3. QED  BY <3>1, <3>2
  <2>2. QED  BY <1>7, <2>1, WithinSet
<1>10. \A t \in Nat : Coming(t) /\ Below(h, t) => Below(s, t)
  BY <1>8
<1>11. ASSUME \A p \in Text(r) : p + 1 \in Text(r) \/ EndsPiece(p)
       PROVE  \A p \in Text(s) : p + 1 \in Text(s) \/ EndsPiece(p)
  BY <1>2, <1>4, <1>7, <1>11, DocumentEnds
<1>12. QED  BY <1>1, <1>7, <1>8, <1>9, <1>10, <1>11

\* What is present when the first document of the queue has left it.
LEMMA QueueTailPresent ==
  ASSUME StreamTypes, QueueInOrder, UNCHANGED <<reading, carry>>, queue # <<>>,
         queue' = Tail(queue)
  PROVE  \A p : (\E k \in DOMAIN queue : p \in Text(queue[k]))
                  <=> p \in Text(Head(queue)) \/ \E k \in DOMAIN queue' : p \in Text(queue'[k])
BY First, QueueTail

\* A token that was queued or packed, and is not any more, is not there.
LEMMA Gone ==
  ASSUME StreamTypes, CarryInOrder, RowsInOrder, UNCHANGED <<reading, carry>>, rows' = rows,
         NEW t \in Nat, Coming(t) \/ t \in Text(packed), ~Coming(t)', t \notin Text(packed')
  PROVE  ~Present(t)'
<1>1. \A k \in DOMAIN rows : t \notin Text(rows[k])
  <2> SUFFICES ASSUME NEW k \in DOMAIN rows, t \in Text(rows[k]) PROVE FALSE
    OBVIOUS
  <2>1. Below(rows[k], t)
    BY DEF RowsInOrder
  <2>2. PICK i \in DOMAIN rows[k] : rows[k][i] = t
    BY TextIn
  <2>3. t < t
    BY <2>1, <2>2 DEF Below
  <2>4. QED  BY ONLY <2>3, t \in Nat
<1>2. \A k \in DOMAIN queue' : t \notin Text(queue'[k])
  BY DEF Coming
<1>3. t \notin Text(carry')
  <2>1. CarryFrom' = CarryFrom /\ carry' = carry
    BY SameStream DEF CarryFrom
  <2>2. ASSUME t \in Text(carry) PROVE FALSE
    <3>1. PICK i \in DOMAIN carry : carry[i] = t
      BY <2>2, TextIn
    <3>2. t >= CarryFrom'
      BY <2>1, <3>1, CarryComing
    <3>3. QED  BY <3>2 DEF Coming
  <2>3. QED  BY <2>1, <2>2
<1>4. QED  BY <1>1, <1>2, <1>3 DEF Present, Text

\* The first document of the queue goes into the row, or as much as there is
\* room for.
LEMMA DocumentTaken ==
  ASSUME StreamInv, phase \in {"pack", "fill"}, UNCHANGED <<config, reading, carry, rows>>,
         queue # <<>>, queue' = Tail(queue), phase' \in {"pack", "fill"},
         segments' \in 0..MaxSegments, Len(packed) < Need,
         NEW g \in Seq(Int), Rising(g), Text(g) = Text(packed) \cup Text(Head(queue)),
         \A p \in Text(g) : p + 1 \in Text(g) \/ EndsPiece(p),
         \A t \in Nat : Coming(t)' => Below(g, t),
         NEW s \in Seq(Position \cup {Sep}), packed' = s, Len(s) <= Need,
         Rising(s), NoDelimiter(s), padTail => Separate(s),
         s = g \/ (~padTail /\ Len(s) = Need /\ Len(g) > Need /\ s = SubSeq(g, 1, Need))
  PROVE  StreamInv'
<1>0. (StreamTypes => \A p : p \in Lost <=> p \in Position /\ ~stream[p] /\ ~Present(p))'
  BY PresentHeld, PTL
<1>1. /\ StreamTypes /\ CarryInOrder /\ QueueInOrder /\ PackedInOrder /\ RowsInOrder
      /\ LossIsExplained /\ Multi /\ Extends /\ CarryInOrder' /\ CarryFrom' = CarryFrom
      /\ mode' = mode /\ padTail' = padTail /\ stream' = stream /\ Position' = Position
      /\ carry \in Seq(Position) /\ rows \in Seq(Seq(Position \cup {Sep, Pad}))
      /\ \A k \in DOMAIN rows : Len(rows[k]) = Need
  BY PackFrame
<1>2. rows' = rows /\ carry' = carry
  OBVIOUS
<1>3. /\ queue' \in Seq(Pieces) /\ QueueInOrder'
      /\ \A t \in Nat : Coming(t)' => Coming(t)
  BY <1>1, QueueTail
<1>4. StreamTypes'
  BY <1>1, <1>2, <1>3, TypesStep DEF Phases, Multi
<1>5. DOMAIN g = 1..Len(g) /\ Len(g) \in Nat /\ Need \in Nat /\ Need >= 2
  BY LenProperties, RowSizes
<1>6. /\ Text(s) \subseteq Text(g) /\ (\A t : Below(g, t) => Below(s, t))
      /\ s = g \/ \A i \in 1..Need : i \in DOMAIN s /\ s[i] = g[i]
  <2>1. CASE s = g
    BY <2>1
  <2>2. CASE ~padTail /\ Len(s) = Need /\ Len(g) > Need /\ s = SubSeq(g, 1, Need)
    <3>1. /\ Text(s) \subseteq Text(g) /\ (\A t : Below(g, t) => Below(s, t))
          /\ DOMAIN s = 1..(Need - 1 + 1)
          /\ \A i \in 1..(Need - 1 + 1) : s[i] = g[1 + i - 1]
      <4>1. 1 \in Nat /\ Need <= Len(g) /\ 1 <= Need + 1 /\ 1 >= 1
        BY ONLY <1>5, <2>2
      <4>2. QED  BY ONLY <1>5, <2>2, <4>1, g \in Seq(Int), Cut
    <3>2. Need - 1 + 1 = Need /\ \A i \in 1..Need : 1 + i - 1 = i
      BY ONLY <1>5
    <3>3. QED  BY ONLY <3>1, <3>2
  <2>3. QED  BY <2>1, <2>2
<1>7. PackedInOrder'
  <2>1. \A t \in Nat : Coming(t)' => Below(s, t)
    BY <1>6
  <2>2. Len(s) < Need => s = g
    BY <1>5
  <2>3. QED  BY <2>1, <2>2, PackedNew
<1>8. \A t \in Text(g) : t \in Nat /\ t \in Position /\ (Coming(t) \/ t \in Text(packed))
  <2>1. \A t \in Text(packed) : t \in Nat /\ t \in Position
    <3>1. \A i \in DOMAIN packed : packed[i] \in Position \cup {Sep}
      BY <1>1, Sequences
    <3>2. QED  BY <3>1, TextIn DEF IsText, Sep, Position
  <2>2. QED  BY <1>1, <2>1, First
<1>9. RowsInOrder'
  BY <1>1, <1>3, <1>6, <1>8, RowsKept
<1>10. \A p : (\E k \in DOMAIN queue : p \in Text(queue[k]))
          <=> p \in Text(Head(queue)) \/ \E k \in DOMAIN queue' : p \in Text(queue'[k])
  BY <1>1, QueueTailPresent
<1>11. \A p : Present(p) <=> Present(p)' \/ p \in Text(g)
  <2>1. \A p : p \in Text(packed') => p \in Text(g)
    BY <1>6
  <2>2. QED  BY ONLY <1>2, <1>10, <2>1, Text(g) = Text(packed) \cup Text(Head(queue))
             DEF Present, Text
<1>12. ASSUME NEW p \in Text(g), ~Present(p)' PROVE Explained(p)'
  <2>1. p \notin Text(s) /\ s # g
    BY <1>12 DEF Present, Text
  <2>2. ~padTail /\ \A i \in 1..Need : i \in DOMAIN s /\ s[i] = g[i]
    BY <1>6, <2>1
  <2>3. PICK j \in DOMAIN g : g[j] = p /\ IsText(p)
    BY TextIn
  <2>4. j > Need
    <3>1. ~(j \in 1..Need)
      BY <2>1, <2>2, <2>3, TextIn
    <3>2. QED  BY ONLY <1>5, <3>1, j \in DOMAIN g
  <2>5. CASE EndsPiece(p)
    <3>1. EndsPiece(p)'
      BY <2>5, SameStream
    <3>2. QED  BY <1>1, <2>2, <3>1 DEF Explained
  <2>6. CASE p + 1 \in Text(g)
    <3>1. p + 1 \notin Text(s)
      <4>1. SUFFICES ASSUME NEW i \in DOMAIN s, s[i] = p + 1, IsText(p + 1) PROVE FALSE
        BY TextIn
      <4>2. DOMAIN s = 1..Need
        BY <2>1, LenProperties
      <4>3. i \in DOMAIN g /\ i < j /\ s[i] = g[i]
        BY ONLY <1>5, <2>2, <2>4, <4>2, j \in DOMAIN g, i \in DOMAIN s
      <4>4. p + 1 < p
        BY <2>3, <4>1, <4>3 DEF Rising
      <4>5. QED  BY ONLY <1>8, <4>4, p \in Text(g)
    <3>2. p + 1 \in Nat /\ p + 1 \in Position /\ (Coming(p + 1) \/ p + 1 \in Text(packed))
      BY <1>8, <2>6
    <3>3. ~Coming(p + 1)'
      <4>1. SUFFICES ASSUME Coming(p + 1)' PROVE FALSE
        OBVIOUS
      <4>2. Below(g, p + 1)
        BY <3>2, <4>1
      <4>3. PICK i \in DOMAIN g : g[i] = p + 1
        BY <2>6, TextIn
      <4>4. p + 1 < p + 1
        BY <4>2, <4>3 DEF Below
      <4>5. QED  BY ONLY <3>2, <4>4
    <3>4. PICK q : q = p + 1
      OBVIOUS
    <3>5. ~Present(q)'
      BY <1>1, <3>1, <3>2, <3>3, <3>4, Gone
    <3>6. ~stream[p + 1]
      <4>1. (\E i \in DOMAIN packed : packed[i] = p + 1)
              \/ (\E i \in DOMAIN Head(queue) : Head(queue)[i] = p + 1)
        BY <2>6, TextIn
      <4>2. NoDelimiter(packed) /\ NoDelimiter(Head(queue)) /\ IsText(p + 1)
        BY <1>1, <2>6, First, TextIn DEF PackedInOrder, PieceInOrder
      <4>3. QED  BY <4>1, <4>2 DEF NoDelimiter
    <3>7. (p + 1 \in Lost)'
      <4>1. q \in Lost'
        BY <1>1, <1>4, <3>2, <3>4, <3>5, <3>6, <1>0
      <4>2. QED  BY <3>4, <4>1
    <3>8. QED  BY <1>1, <2>2, <3>7 DEF Explained
  <2>7. QED  BY <2>5, <2>6
<1>13. LossIsExplained'
  <2>1. ASSUME NEW p \in Position', ~stream'[p], ~Present(p)'
        PROVE  p \in Lost \/ Explained(p)'
    <3>1. CASE p \in Text(g)
      BY <1>12, <2>1, <3>1
    <3>2. CASE p \notin Text(g)
      BY <1>1, <1>11, <2>1, <3>2, PresentHeld
    <3>3. QED  BY <3>1, <3>2
  <2>2. UNCHANGED config
    OBVIOUS
  <2>3. QED  BY <1>1, <1>4, <1>11, <2>1, <2>2, LossStep
<1>14. QED
  BY <1>1, <1>3, <1>4, <1>7, <1>9, <1>13 DEF StreamInv, Multi

LEMMA TakeDocumentStep ==
  ASSUME StreamInv, TakeDocument
  PROVE  StreamInv'
<1>1. /\ phase = "pack" /\ Len(packed) < Need /\ queue # <<>> /\ segments < MaxSegments
      /\ Len(WithNext) <= Need /\ packed' = WithNext /\ segments' = segments + 1
      /\ queue' = Tail(queue) /\ UNCHANGED <<config, reading, carry, rows>>
      /\ phase' \in {"pack", "fill"}
  BY DEF TakeDocument, NextFits
<1>2. /\ StreamTypes /\ QueueInOrder /\ PackedInOrder /\ segments \in 0..MaxSegments
      /\ packed \in Seq(Int) /\ Len(packed) \in Nat /\ DOMAIN packed = 1..Len(packed)
      /\ \A i \in DOMAIN packed : packed[i] \in Position \cup {Sep}
  BY <1>1, PackFrame, Sequences
<1>3. segments' \in 0..MaxSegments
  BY ONLY <1>1, <1>2, RowSizes
<1>4. PICK r : r = IF packed = <<>> THEN <<>> ELSE packed \o <<Sep>>
  OBVIOUS
<1>5. /\ r \in Seq(Int) /\ \A i \in DOMAIN r : r[i] \in Position \cup {Sep}
      /\ Rising(r) /\ NoDelimiter(r) /\ Text(r) = Text(packed)
      /\ \A t \in Nat : Coming(t) => Below(r, t)
      /\ padTail => Separate(r)
      /\ r # <<>> => ~IsText(r[Len(r)])
      /\ WithNext = r \o Head(queue)
  <2>1. CASE packed = <<>>
    <3>1. r = <<>> /\ DOMAIN r = {}
      BY <1>4, <2>1
    <3>2. PICK h \in Seq(Int) : h = Head(queue)
      BY <1>1, <1>2, First
    <3>3. h = <<>> \o h
      OBVIOUS
    <3>4. WithNext = r \o Head(queue)
      BY <2>1, <3>1, <3>2, <3>3 DEF WithNext
    <3>5. QED  BY <2>1, <3>1, <3>4, EmptyTokens
  <2>2. CASE packed # <<>>
    <3>1. PICK d \in Seq(Int) : d = <<Sep>> /\ Len(d) = 1 /\ DOMAIN d = 1..1 /\ d[1] = Sep
      <4>1. PICK z \in Int : z = Sep
        BY DEF Sep
      <4>2. <<z>> \in Seq(Int) /\ Len(<<z>>) = 1 /\ DOMAIN <<z>> = 1..1 /\ <<z>>[1] = z
        BY Single
      <4>3. QED  BY <4>1, <4>2
    <3>2. ~IsText(Sep) /\ Sep \in Int
      BY DEF Sep, IsText
    <3>3. Rising(d) /\ NoDelimiter(d) /\ Separate(d) /\ Precedes(packed, d) /\ Text(d) = {}
      <4>1. \A i \in DOMAIN d : ~IsText(d[i])
        BY ONLY <3>1, <3>2
      <4>2. \A j \in 1..(Len(d) - 1) : j \in DOMAIN d
        BY ONLY <3>1
      <4>3. QED
        BY ONLY <4>1, <4>2 DEF Rising, NoDelimiter, Separate, Precedes, Text
    <3>4. ASSUME NEW t \in Nat, Coming(t) PROVE Below(d, t)
      <4>1. CarryFrom \in Nat /\ CarryFrom >= 1
        BY <1>1, <1>2, PackFrame, CarryComing
      <4>2. t > 0
        <5>1. CASE t >= CarryFrom
          BY ONLY <4>1, <5>1, t \in Nat
        <5>2. CASE \E k \in DOMAIN queue : t \in Text(queue[k])
          BY <5>2, TextIn DEF IsText
        <5>3. QED  BY <3>4, <5>1, <5>2 DEF Coming
      <4>3. QED  BY ONLY <3>1, <4>2 DEF Below, Sep
    <3>5. r = packed \o d
      BY <1>4, <2>2, <3>1
    <3>6. /\ r \in Seq(Int) /\ Len(r) = Len(packed) + 1 /\ DOMAIN r = 1..(Len(packed) + 1)
          /\ \A i \in 1..Len(packed) : r[i] = packed[i]
          /\ \A i \in 1..1 : r[Len(packed) + i] = d[i]
          /\ Text(r) = Text(packed) \cup Text(d)
      <4>1. /\ r \in Seq(Int) /\ Len(r) = Len(packed) + Len(d)
            /\ DOMAIN r = 1..(Len(packed) + Len(d))
            /\ \A i \in 1..Len(packed) : r[i] = packed[i]
            /\ \A i \in 1..Len(d) : r[Len(packed) + i] = d[i]
            /\ Text(r) = Text(packed) \cup Text(d)
        BY ONLY <1>2, <3>5, d \in Seq(Int), Glued
      <4>2. QED  BY ONLY <3>1, <4>1
    <3>7. /\ Rising(r) /\ NoDelimiter(r)
          /\ \A t : Below(packed, t) /\ Below(d, t) => Below(r, t)
          /\ padTail => Separate(r)
      <4>1. \A i \in {1} : ~IsText(d[1])
        BY <3>1, <3>2
      <4>2. Rising(packed) /\ NoDelimiter(packed) /\ (padTail => Separate(packed))
        BY <1>2 DEF PackedInOrder
      <4>3. QED  BY ONLY <1>2, <3>1, <3>3, <3>5, <4>1, <4>2, d \in Seq(Int), GluedInOrder
    <3>8. r[Len(r)] = Sep
      <4>1. r[Len(packed) + 1] = d[1]
        BY <3>6
      <4>2. QED  BY <3>1, <3>6, <4>1
    <3>9. \A i \in DOMAIN r : r[i] \in Position \cup {Sep}
      <4>1. \A i \in DOMAIN r : i \in DOMAIN packed \/ i = Len(r)
        BY ONLY <1>2, <3>6
      <4>2. QED  BY <1>2, <3>6, <3>8, <4>1
    <3>10. \A t \in Nat : Coming(t) => Below(r, t)
      BY <1>2, <3>4, <3>7 DEF PackedInOrder
    <3>11. WithNext = r \o Head(queue)
      BY <1>4, <2>2 DEF WithNext
    <3>12. Text(r) = Text(packed)
      BY <3>3, <3>6
    <3>13. QED  BY <3>2, <3>6, <3>7, <3>8, <3>9, <3>10, <3>11, <3>12
  <2>3. QED  BY <2>1, <2>2
<1>6. PICK s : s = r \o Head(queue)
  OBVIOUS
<1>7. /\ s \in Seq(Int) /\ s \in Seq(Position \cup {Sep})
      /\ Rising(s) /\ NoDelimiter(s) /\ Text(s) = Text(r) \cup Text(Head(queue))
      /\ \A t \in Nat : Coming(t) /\ Below(Head(queue), t) => Below(s, t)
      /\ Separate(r) /\ (r # <<>> => ~IsText(r[Len(r)])) => Separate(s)
      /\ (\A p \in Text(r) : p + 1 \in Text(r) \/ EndsPiece(p))
           => \A p \in Text(s) : p + 1 \in Text(s) \/ EndsPiece(p)
  BY <1>1, <1>2, <1>5, <1>6, DocumentAdded
<1>8. \A p \in Text(s) : p + 1 \in Text(s) \/ EndsPiece(p)
  BY <1>1, <1>2, <1>5, <1>7 DEF PackedInOrder
<1>9. \A t \in Nat : Coming(t)' => Below(s, t)
  BY <1>1, <1>2, <1>7, QueueTail
<1>10. packed' = s /\ Len(s) <= Need
  BY <1>1, <1>5, <1>6
<1>11. (padTail => Separate(s)) /\ Text(s) = Text(packed) \cup Text(Head(queue))
  BY <1>5, <1>7
<1>12. QED
  BY <1>1, <1>3, <1>7, <1>8, <1>9, <1>10, <1>11, DocumentTaken

LEMMA FillRowStep ==
  ASSUME StreamInv, FillRow
  PROVE  StreamInv'
<1>1. PICK g : g = packed \o Head(queue)
  OBVIOUS
<1>2. /\ phase \in {"pack", "fill"} /\ Len(packed) < Need /\ ~padTail /\ queue # <<>>
      /\ packed' = CutToRow(g) /\ phase' \in {"pack", "fill"} /\ queue' = Tail(queue)
      /\ UNCHANGED <<config, reading, carry, rows>> /\ segments' = segments
  BY <1>1 DEF FillRow, Short, Packing
<1>3. /\ StreamTypes /\ QueueInOrder /\ PackedInOrder /\ segments \in 0..MaxSegments
      /\ packed \in Seq(Int) /\ \A i \in DOMAIN packed : packed[i] \in Position \cup {Sep}
  BY <1>2, PackFrame, Sequences
<1>4. /\ g \in Seq(Int) /\ g \in Seq(Position \cup {Sep})
      /\ Rising(g) /\ NoDelimiter(g) /\ Text(g) = Text(packed) \cup Text(Head(queue))
      /\ \A t \in Nat : Coming(t) /\ Below(Head(queue), t) => Below(g, t)
      /\ (\A p \in Text(packed) : p + 1 \in Text(packed) \/ EndsPiece(p))
           => \A p \in Text(g) : p + 1 \in Text(g) \/ EndsPiece(p)
  <2>1. Rising(packed) /\ NoDelimiter(packed) /\ \A t \in Nat : Coming(t) => Below(packed, t)
    BY <1>3 DEF PackedInOrder
  <2>2. QED  BY <1>1, <1>2, <1>3, <2>1, DocumentAdded
<1>5. \A p \in Text(g) : p + 1 \in Text(g) \/ EndsPiece(p)
  BY <1>2, <1>3, <1>4 DEF PackedInOrder
<1>6. \A t \in Nat : Coming(t)' => Below(g, t)
  BY <1>2, <1>3, <1>4, QueueTail
<1>7. PICK s : s = CutToRow(g)
  OBVIOUS
<1>8. Len(g) \in Nat /\ Need \in Nat /\ Need >= 2 /\ DOMAIN g = 1..Len(g)
  BY <1>4, LenProperties, RowSizes
<1>9. /\ s \in Seq(Position \cup {Sep}) /\ Len(s) <= Need /\ Rising(s) /\ NoDelimiter(s)
      /\ s = g \/ (~padTail /\ Len(s) = Need /\ Len(g) > Need /\ s = SubSeq(g, 1, Need))
  <2>1. CASE Len(g) > Need
    <3>1. s = SubSeq(g, 1, Need)
      BY <1>7, <2>1 DEF CutToRow
    <3>2. /\ s \in Seq(Int) /\ Len(s) = Need - 1 + 1 /\ Rising(s) /\ NoDelimiter(s)
          /\ \A i \in 1..(Need - 1 + 1) : s[i] = g[1 + i - 1] /\ 1 + i - 1 \in DOMAIN g
      <4>1. 1 \in Nat /\ 1 >= 1 /\ Need <= Len(g) /\ 1 <= Need + 1
        BY ONLY <1>8, <2>1
      <4>2. QED  BY ONLY <1>4, <1>8, <3>1, <4>1, Cut
    <3>3. Need - 1 + 1 = Need
      BY ONLY <1>8
    <3>4. \A i \in DOMAIN g : g[i] \in Position \cup {Sep}
      BY <1>4, <1>8, ElementOfSeq
    <3>5. \A i \in 1..Len(s) : s[i] \in Position \cup {Sep}
      BY <3>2, <3>3, <3>4
    <3>6. s \in Seq(Position \cup {Sep})
      BY <3>2, <3>5, WithinSet
    <3>7. Len(s) = Need /\ Len(s) <= Need
      BY ONLY <1>8, <3>2, <3>3
    <3>8. QED  BY <1>2, <2>1, <3>1, <3>2, <3>6, <3>7
  <2>2. CASE ~(Len(g) > Need)
    <3>1. s = g /\ Len(g) <= Need
      BY <1>7, <1>8, <2>2 DEF CutToRow
    <3>2. QED  BY <1>4, <3>1
  <2>3. QED  BY <2>1, <2>2
<1>10. packed' = s /\ segments' \in 0..MaxSegments
  BY <1>2, <1>3, <1>7
<1>11. QED
  BY <1>2, <1>4, <1>5, <1>6, <1>9, <1>10, DocumentTaken

\* A row leaves the packer.
LEMMA RowTaken ==
  ASSUME StreamInv, phase \in {"pack", "fill"}, UNCHANGED <<config, reading, carry>>,
         NEW row \in Seq(Position \cup {Sep, Pad}), Len(row) = Need,
         Rising(row), NoDelimiter(row), padTail => Separate(row),
         \A t \in Text(row) : t \in Nat /\ (Coming(t) \/ t \in Text(packed)),
         \A t \in Nat : Coming(t)' => Coming(t) /\ Below(row, t),
         queue' \in Seq(Pieces), QueueInOrder',
         rows' = Append(rows, row), packed' = <<>>, segments' = 0, phase' = "pack",
         \A p : p \in Text(packed) \/ (\E k \in DOMAIN queue : p \in Text(queue[k]))
                  <=> p \in Text(row) \/ \E k \in DOMAIN queue' : p \in Text(queue'[k])
  PROVE  StreamInv'
<1>1. /\ StreamTypes /\ CarryInOrder /\ RowsInOrder
      /\ LossIsExplained /\ Multi /\ Extends /\ CarryInOrder'
      /\ mode' = mode /\ padTail' = padTail /\ stream' = stream /\ Position' = Position
      /\ carry \in Seq(Position) /\ rows \in Seq(Seq(Position \cup {Sep, Pad}))
      /\ \A k \in DOMAIN rows : Len(rows[k]) = Need
  BY PackFrame
<1>2. /\ rows' \in Seq(Seq(Position \cup {Sep, Pad})) /\ Len(rows') = Len(rows) + 1
      /\ \A k \in 1..Len(rows) : rows'[k] = rows[k]
      /\ rows'[Len(rows) + 1] = row
  BY <1>1, AppendProperties
<1>3. /\ DOMAIN rows' = 1..(Len(rows) + 1) /\ DOMAIN rows = 1..Len(rows)
      /\ Len(rows) \in Nat
  BY <1>1, <1>2, LenProperties
<1>4. \A k \in DOMAIN rows' : \/ k \in DOMAIN rows /\ rows'[k] = rows[k]
                              \/ k = Len(rows) + 1 /\ rows'[k] = row
  BY ONLY <1>2, <1>3
<1>5. StreamTypes'
  <2>1. \A k \in DOMAIN rows' : Len(rows'[k]) = Need
    BY <1>1, <1>4
  <2>2. /\ packed' \in Seq(Position \cup {Sep}) /\ Len(packed') <= Need
        /\ segments' \in 0..MaxSegments
    BY EmptyTokens, RowSizes
  <2>3. carry' \in Seq(Position) /\ phase' \in Phases
    BY <1>1 DEF Phases
  <2>4. QED  BY <1>1, <1>2, <2>1, <2>2, <2>3, TypesStep DEF Multi
<1>6. PackedInOrder'
  BY PackedEmpty
<1>7. RowsInOrder'
  <2>1. row \in Seq(Int)
    BY Sequences, <1>1, <1>2, <1>3, <1>5, RowSizes, SeqMonotonic DEF Position, Sep, Pad
  <2>2. QED  BY <1>1, <2>1, RowYielded
<1>8. LossIsExplained'
  <2>1. \A k \in DOMAIN rows : k \in DOMAIN rows' /\ rows'[k] = rows[k]
    BY ONLY <1>2, <1>3
  <2>2. Len(rows) + 1 \in DOMAIN rows' /\ rows'[Len(rows) + 1] = row
    BY ONLY <1>2, <1>3
  <2>3. \A p : (\E k \in DOMAIN rows' : p \in Text(rows'[k]))
                 <=> p \in Text(row) \/ \E k \in DOMAIN rows : p \in Text(rows[k])
    BY ONLY <1>4, <2>1, <2>2
  <2>4. \A p : Present(p)' <=> \/ \E k \in DOMAIN rows' : p \in Text(rows'[k])
                               \/ p \in Text(packed')
                               \/ \E k \in DOMAIN queue' : p \in Text(queue'[k])
                               \/ p \in Text(carry')
    BY DEF Present, Text
  <2>5. \A p : Present(p) <=> Present(p)'
    <3>1. Text(packed') = {} /\ carry' = carry
      BY PackedEmpty
    <3>2. QED  BY <2>3, <2>4, <3>1 DEF Present
  <2>6. ASSUME NEW p \in Position', ~stream'[p], ~Present(p)' PROVE p \in Lost
    BY <1>1, <2>5, <2>6, PresentHeld
  <2>7. UNCHANGED config
    OBVIOUS
  <2>8. \A p \in Position : Present(p)' => Present(p)
    BY <2>5
  <2>9. QED  BY <1>1, <1>5, <2>6, <2>7, <2>8, LossStep
<1>9. QED  BY <1>1, <1>5, <1>6, <1>7, <1>8 DEF StreamInv, Multi

LEMMA SplitDocumentStep ==
  ASSUME StreamInv, SplitDocument
  PROVE  StreamInv'
<1>1. PICK rest : rest = SubSeq(Head(queue), Need + 1, Len(Head(queue)))
  OBVIOUS
<1>2. PICK row : row = SubSeq(Head(queue), 1, Need)
  OBVIOUS
<1>3. /\ phase = "pack" /\ packed = <<>> /\ queue # <<>> /\ Len(Head(queue)) > Need
      /\ queue' = <<rest>> \o Tail(queue) /\ rows' = Append(rows, row)
      /\ packed' = <<>> /\ segments' = 0 /\ phase' = "pack"
      /\ UNCHANGED <<config, reading, carry>>
  BY <1>1, <1>2 DEF SplitDocument, Yield
<1>4. StreamTypes /\ QueueInOrder
  BY <1>3, PackFrame
<1>5. /\ queue' \in Seq(Pieces) /\ QueueInOrder'
      /\ \A t \in Nat : Coming(t)' => Coming(t) /\ Below(row, t)
      /\ row \in Seq(Int) /\ row \in Seq(Position) /\ Len(row) = Need
      /\ Rising(row) /\ Separate(row) /\ NoDelimiter(row)
      /\ \A t \in Text(row) : t \in Nat /\ Coming(t)
      /\ DOMAIN queue' = DOMAIN queue
      /\ \A t \in Text(queue[1]) : t \in Text(row) \/ t \in Text(queue'[1])
      /\ \A k \in DOMAIN queue : k # 1 => queue'[k] = queue[k]
      /\ Text(row) \cup Text(queue'[1]) \subseteq Text(queue[1])
  BY <1>1, <1>2, <1>3, <1>4, QueueRest
<1>6. 1 \in DOMAIN queue
  BY <1>3, <1>4, First
<1>7. row \in Seq(Position \cup {Sep, Pad})
  BY <1>5, SeqMonotonic
<1>8. \A p : p \in Text(packed) \/ (\E k \in DOMAIN queue : p \in Text(queue[k]))
               <=> p \in Text(row) \/ \E k \in DOMAIN queue' : p \in Text(queue'[k])
  <2>1. Text(packed) = {}
    BY <1>3, EmptyTokens
  <2>2. ASSUME NEW p, NEW k \in DOMAIN queue, p \in Text(queue[k])
        PROVE  p \in Text(row) \/ \E l \in DOMAIN queue' : p \in Text(queue'[l])
    BY <1>5, <2>2
  <2>3. ASSUME NEW p, NEW k \in DOMAIN queue', p \in Text(queue'[k])
        PROVE  \E l \in DOMAIN queue : p \in Text(queue[l])
    BY <1>5, <2>3
  <2>4. \A p \in Text(row) : \E k \in DOMAIN queue : p \in Text(queue[k])
    BY <1>5, <1>6
  <2>5. QED  BY ONLY <2>1, <2>2, <2>3, <2>4
<1>9. QED  BY <1>3, <1>5, <1>7, <1>8, RowTaken

\* The row is what was packed, padded or not.
LEMMA PackedYielded ==
  ASSUME StreamInv, phase \in {"pack", "fill"}, UNCHANGED <<config, reading, carry, queue>>,
         NEW row \in Seq(Position \cup {Sep, Pad}), Len(row) = Need,
         Rising(row), NoDelimiter(row), padTail => Separate(row),
         Text(row) = Text(packed), \A t \in Nat : Below(packed, t) => Below(row, t),
         rows' = Append(rows, row), packed' = <<>>, segments' = 0, phase' = "pack"
  PROVE  StreamInv'
<1>1. /\ StreamTypes /\ CarryInOrder /\ QueueInOrder /\ PackedInOrder
      /\ Extends /\ CarryFrom' = CarryFrom /\ CarryFrom \in Nat /\ queue \in Seq(Pieces)
      /\ \A i \in DOMAIN packed : packed[i] \in Position \cup {Sep}
  BY PackFrame, Sequences
<1>2. QueueInOrder' /\ \A t \in Nat : Coming(t)' => Coming(t)
  <2>1. CarryFrom \in Int /\ CarryFrom' \in Int /\ CarryFrom <= CarryFrom'
    BY ONLY <1>1
  <2>2. queue' = queue
    OBVIOUS
  <2>3. QED  BY <1>1, <2>1, <2>2, QueueKept
<1>3. \A t \in Nat : Coming(t)' => Coming(t) /\ Below(row, t)
  BY <1>1, <1>2 DEF PackedInOrder
<1>4. \A t \in Text(row) : t \in Nat /\ t \in Text(packed)
  BY <1>1, TextIn DEF IsText, Sep, Position
<1>5. queue' \in Seq(Pieces) /\ queue' = queue
  BY <1>1
<1>6. QED  BY <1>2, <1>3, <1>4, <1>5, RowTaken

LEMMA PackExactlyStep ==
  ASSUME StreamInv, PackExactly
  PROVE  StreamInv'
<1>1. /\ phase \in {"pack", "fill"} /\ Len(packed) = Need /\ queue' = queue
      /\ rows' = Append(rows, packed) /\ packed' = <<>> /\ segments' = 0 /\ phase' = "pack"
      /\ UNCHANGED <<config, reading, carry, queue>>
  BY DEF PackExactly, Packing, Yield
<1>2. PackedInOrder /\ packed \in Seq(Position \cup {Sep})
  BY <1>1, PackFrame
<1>3. packed \in Seq(Position \cup {Sep, Pad})
  BY <1>2, SeqMonotonic
<1>4. Rising(packed) /\ NoDelimiter(packed) /\ (padTail => Separate(packed))
  BY <1>2 DEF PackedInOrder
<1>5. QED  BY <1>1, <1>3, <1>4, PackedYielded

LEMMA PackPaddedStep ==
  ASSUME StreamInv, PackPadded
  PROVE  StreamInv'
<1>1. PICK d : d = [i \in 1..(Need - Len(packed)) |-> Pad]
  OBVIOUS
<1>2. PICK row : row = packed \o d
  OBVIOUS
<1>3. /\ phase \in {"pack", "fill"} /\ Len(packed) < Need
      /\ rows' = Append(rows, row) /\ packed' = <<>> /\ segments' = 0 /\ phase' = "pack"
      /\ UNCHANGED <<config, reading, carry, queue>>
  BY <1>1, <1>2 DEF PackPadded, Short, Packing, Yield
<1>4. /\ StreamTypes /\ PackedInOrder /\ packed \in Seq(Int) /\ Len(packed) \in Nat
      /\ DOMAIN packed = 1..Len(packed)
      /\ \A i \in DOMAIN packed : packed[i] \in Position \cup {Sep}
  BY <1>3, PackFrame, Sequences
<1>5. PICK n \in Nat : n = Need - Len(packed)
  BY ONLY <1>3, <1>4, RowSizes
<1>6. /\ d \in Seq(Int) /\ Len(d) = n /\ DOMAIN d = 1..n
      /\ \A i \in DOMAIN d : d[i] = Pad
  <2>1. d = [i \in 1..n |-> Pad] /\ Pad \in Int
    BY <1>1, <1>5 DEF Pad
  <2>2. QED  BY <2>1
<1>7. /\ Rising(d) /\ NoDelimiter(d) /\ Separate(d) /\ Precedes(packed, d)
      /\ Text(d) = {} /\ (d # <<>> => ~IsText(d[1])) /\ \A t \in Nat : Below(d, t)
  <2>1. \A i \in DOMAIN d : ~IsText(d[i]) /\ d[i] = -1
    BY <1>6 DEF IsText, Pad
  <2>2. \A j \in 1..(Len(d) - 1) : j \in DOMAIN d
    BY ONLY <1>6, n \in Nat
  <2>3. d # <<>> => 1 \in DOMAIN d
    BY ONLY <1>6, n \in Nat, EmptySeq
  <2>4. \A t \in Nat : Below(d, t)
    BY ONLY <2>1 DEF Below
  <2>5. QED
    BY ONLY <2>1, <2>2, <2>3, <2>4 DEF Rising, NoDelimiter, Separate, Precedes, Text
<1>8. /\ row \in Seq(Int) /\ Len(row) = Len(packed) + Len(d)
      /\ DOMAIN row = 1..(Len(packed) + Len(d))
      /\ \A i \in 1..(Len(packed) + Len(d)) :
           row[i] = IF i <= Len(packed) THEN packed[i] ELSE d[i - Len(packed)]
      /\ Text(row) = Text(packed) \cup Text(d)
  BY ONLY <1>2, <1>4, <1>6, Glued
<1>9. Rising(packed) /\ NoDelimiter(packed) /\ (padTail => Separate(packed))
  BY <1>4 DEF PackedInOrder
<1>10. /\ Rising(row) /\ NoDelimiter(row) /\ (padTail => Separate(row))
       /\ \A t : Below(packed, t) /\ Below(d, t) => Below(row, t)
  BY ONLY <1>2, <1>4, <1>6, <1>7, <1>9, GluedInOrder
<1>11. Len(row) = Need
  BY ONLY <1>4, <1>5, <1>6, <1>8, RowSizes
<1>12. row \in Seq(Position \cup {Sep, Pad})
  <2>1. ASSUME NEW i \in 1..Len(row) PROVE row[i] \in Position \cup {Sep, Pad}
    <3>1. CASE i <= Len(packed)
      <4>1. i \in DOMAIN packed /\ row[i] = packed[i]
        BY ONLY <1>4, <1>6, <1>8, <3>1, i \in 1..Len(row), n \in Nat
      <4>2. QED  BY <1>4, <4>1
    <3>2. CASE ~(i <= Len(packed))
      <4>1. i - Len(packed) \in DOMAIN d /\ row[i] = d[i - Len(packed)]
        BY ONLY <1>4, <1>6, <1>8, <3>2, i \in 1..Len(row), n \in Nat
      <4>2. QED  BY <1>6, <4>1
    <3>3. QED  BY <3>1, <3>2
  <2>2. QED  BY <1>8, <2>1, WithinSet
<1>13. Text(row) = Text(packed) /\ \A t \in Nat : Below(packed, t) => Below(row, t)
  BY <1>7, <1>8, <1>10
<1>14. QED  BY <1>3, <1>10, <1>11, <1>12, <1>13, PackedYielded

\* What was packed is dropped, and nothing is left to pack.
LEMMA PackNothingStep ==
  ASSUME StreamInv, PackNothing
  PROVE  StreamInv'
<1>0. (StreamTypes => \A p : p \in Lost <=> p \in Position /\ ~stream[p] /\ ~Present(p))'
  BY PresentHeld, PTL
<1>1. /\ phase \in {"pack", "fill"} /\ queue = <<>> /\ queue' = queue /\ rows' = rows
      /\ packed = <<>> \/ (Len(packed) < Need /\ ~padTail)
      /\ packed' = <<>> /\ segments' = 0 /\ phase' = "open"
      /\ UNCHANGED <<config, reading, carry>> /\ UNCHANGED config /\ carry' = carry
  BY DEF PackNothing, Packing, Short
<1>2. /\ StreamTypes /\ CarryInOrder /\ QueueInOrder /\ PackedInOrder /\ RowsInOrder
      /\ LossIsExplained /\ Multi /\ Extends /\ CarryInOrder' /\ CarryFrom' = CarryFrom
      /\ mode' = mode /\ padTail' = padTail /\ stream' = stream /\ Position' = Position
      /\ carry \in Seq(Position) /\ rows \in Seq(Seq(Position \cup {Sep, Pad}))
      /\ \A k \in DOMAIN rows : Len(rows[k]) = Need
      /\ CarryFrom \in Nat /\ queue \in Seq(Pieces)
      /\ \A i \in DOMAIN packed : packed[i] \in Position \cup {Sep}
  BY <1>1, PackFrame, Sequences
<1>3. QueueInOrder' /\ \A t \in Nat : Coming(t)' => Coming(t)
  <2>1. CarryFrom \in Int /\ CarryFrom' \in Int /\ CarryFrom <= CarryFrom'
    BY ONLY <1>2
  <2>2. QED  BY <1>1, <1>2, <2>1, QueueKept
<1>4. StreamTypes'
  <2>1. /\ packed' \in Seq(Position \cup {Sep}) /\ Len(packed') <= Need
        /\ segments' \in 0..MaxSegments
    BY <1>1, EmptyTokens, RowSizes
  <2>2. QED  BY <1>1, <1>2, <2>1, TypesStep DEF Phases, Multi
<1>5. PackedInOrder' /\ Text(packed') = {}
  BY <1>1, PackedEmpty
<1>6. RowsInOrder'
  BY <1>1, <1>2, <1>3, <1>5, RowsKept
<1>7. \A p : Present(p) <=> Present(p)' \/ p \in Text(packed)
  BY <1>1, <1>5 DEF Present, Text
<1>8. ASSUME NEW p \in Text(packed), ~Present(p)' PROVE Explained(p)'
  <2>1. packed # <<>> /\ Len(packed) < Need /\ ~padTail
    BY <1>1, <1>8, EmptyTokens
  <2>2. p + 1 \in Text(packed) \/ EndsPiece(p)
    BY <1>2, <2>1 DEF PackedInOrder
  <2>3. CASE EndsPiece(p)
    <3>1. EndsPiece(p)'
      BY <1>1, <2>3, SameStream
    <3>2. QED  BY <1>2, <2>1, <3>1 DEF Explained
  <2>4. CASE p + 1 \in Text(packed)
    <3>1. PICK q : q = p + 1
      OBVIOUS
    <3>2. PICK i \in DOMAIN packed : packed[i] = q /\ IsText(q)
      BY <2>4, <3>1, TextIn
    <3>3. q \in Nat /\ q \in Position
      BY <1>2, <3>2 DEF IsText, Sep, Position
    <3>4. ~Coming(q)'
      <4>1. SUFFICES ASSUME Coming(q)' PROVE FALSE
        OBVIOUS
      <4>2. Below(packed, q)
        BY <1>2, <1>3, <3>3, <4>1 DEF PackedInOrder
      <4>3. q < q
        BY <3>2, <4>2 DEF Below
      <4>4. QED  BY ONLY <3>3, <4>3
    <3>5. ~Present(q)'
      BY <1>1, <1>2, <1>5, <2>4, <3>1, <3>3, <3>4, Gone
    <3>6. ~stream[q]
      BY <1>2, <3>2 DEF PackedInOrder, NoDelimiter
    <3>7. q \in Lost'
      BY <1>0, <1>2, <1>4, <3>3, <3>5, <3>6
    <3>8. (p + 1 \in Lost)'
      BY <3>1, <3>7
    <3>9. QED  BY <1>2, <2>1, <3>8 DEF Explained
  <2>5. QED  BY <2>2, <2>3, <2>4
<1>9. LossIsExplained'
  <2>1. ASSUME NEW p \in Position', ~stream'[p], ~Present(p)'
        PROVE  p \in Lost \/ Explained(p)'
    <3>1. CASE p \in Text(packed)
      BY <1>8, <2>1, <3>1
    <3>2. CASE p \notin Text(packed)
      BY <1>2, <1>7, <2>1, <3>2, PresentHeld
    <3>3. QED  BY <3>1, <3>2
  <2>2. QED  BY <1>1, <1>2, <1>4, <1>7, <2>1, LossStep
<1>10. QED
  BY <1>2, <1>3, <1>4, <1>5, <1>6, <1>9 DEF StreamInv, Multi

--------------------------------------------------------------------------------
(***************************************************************************)
(* The windows.                                                             *)
(***************************************************************************)
\* What is carried over begins where the next window does.
LEMMA CarryWindows ==
  ASSUME StreamInv, mode = "contiguous"
  PROVE  /\ StreamTypes /\ CarryInOrder /\ WindowsInOrder
         /\ Len(rows) \in Nat /\ Len(rows) * SeqLen \in Nat /\ SeqLen \in Nat
         /\ Len(stream) \in Nat /\ Len(carry) = Len(stream) - Len(rows) * SeqLen
         /\ Len(rows) * SeqLen <= Len(stream) /\ CarryFrom = Len(rows) * SeqLen + 1
         /\ Len(carry) \in Nat /\ released \in Nat
<1>1. /\ StreamTypes /\ CarryInOrder /\ WindowsInOrder /\ released \in Nat
      /\ Len(rows) * SeqLen <= Len(stream)
  BY DEF StreamInv, WindowsInOrder, StreamTypes
<1>2. Len(rows) \in Nat /\ SeqLen \in Nat /\ Len(stream) \in Nat
  BY <1>1, Sequences, RowSizes
<1>3. PICK b \in Nat : b = Len(rows) * SeqLen
  BY ONLY <1>2
<1>4. carry = Positions(b + 1, Len(stream)) /\ b <= Len(stream)
  BY <1>1, <1>3 DEF WindowsInOrder, WindowsAsOverwritten
<1>5. /\ b + 1 \in Int /\ Len(stream) \in Int
      /\ Len(stream) - (b + 1) + 1 = Len(stream) - b /\ Len(stream) - (b + 1) + 1 \in Nat
  BY ONLY <1>2, <1>4, b \in Nat
<1>6. Len(carry) = Len(stream) - b
  BY <1>4, <1>5, Positions1
<1>7. CarryFrom = b + 1
  BY ONLY <1>2, <1>6, b \in Nat DEF CarryFrom
<1>8. Len(carry) \in Nat
  BY ONLY <1>2, <1>4, <1>6, b \in Nat
<1>9. QED  BY <1>1, <1>2, <1>3, <1>6, <1>7, <1>8

\* What is carried over is the rest of the stream.
LEMMA CarryIsRest ==
  StreamTypes /\ CarryInOrder /\ CarryFrom = Len(rows) * SeqLen + 1 =>
    /\ carry = Positions(Len(rows) * SeqLen + 1, Len(stream))
    /\ Len(rows) * SeqLen <= Len(stream)
<1> SUFFICES ASSUME StreamTypes, CarryInOrder, CarryFrom = Len(rows) * SeqLen + 1
             PROVE  /\ carry = Positions(Len(rows) * SeqLen + 1, Len(stream))
                    /\ Len(rows) * SeqLen <= Len(stream)
  OBVIOUS
<1>0. PICK b \in Nat : b = Len(rows) * SeqLen
  <2>1. Len(rows) \in Nat
    BY Sequences
  <2>2. QED  BY ONLY <2>1, RowSizes
<1>1. /\ carry \in Seq(Int) /\ Len(carry) \in Nat /\ DOMAIN carry = 1..Len(carry)
      /\ Len(stream) \in Nat /\ Len(carry) <= Len(stream)
      /\ \A i \in DOMAIN carry : carry[i] = b + 1 + i - 1
  BY <1>0, Sequences DEF CarryInOrder
<1>2. /\ Len(carry) = Len(stream) - b /\ b <= Len(stream)
      /\ Len(stream) - (b + 1) + 1 = Len(carry)
  BY ONLY <1>0, <1>1, b \in Nat, CarryFrom = Len(rows) * SeqLen + 1 DEF CarryFrom
<1>3. carry = [i \in 1..Len(carry) |-> carry[i]]
  BY <1>1
<1>4. carry = [i \in 1..Len(carry) |-> b + 1 + i - 1]
  BY <1>1, <1>3
<1>5. carry = Positions(b + 1, Len(stream))
  BY <1>2, <1>4 DEF Positions
<1>6. QED  BY <1>0, <1>2, <1>5

\* A window whose first l tokens are those after window m.
LEMMA OneStretch ==
  ASSUME NEW row \in Seq(Int), Len(row) = Need, NEW m \in Nat, NEW l \in Nat, l >= 1,
         \A i \in 1..Need : row[i] = (IF i <= l THEN m ELSE m - 1) * SeqLen + i
  PROVE  \E n \in 1..Need : row = Stretch(m, n)
<1>1. Need \in Nat /\ Need >= 1
  BY RowSizes DEF Need
<1>2. PICK n \in 1..Need : n = IF l <= Need THEN l ELSE Need
  BY ONLY <1>1, l \in Nat, l >= 1
<1>3. ASSUME NEW i \in 1..Need
      PROVE  row[i] = (IF i <= n THEN m ELSE m - 1) * SeqLen + i
  <2>1. i <= n <=> i <= l
    BY ONLY <1>1, <1>2, l \in Nat, i \in 1..Need
  <2>2. QED  BY <2>1
<1>4. row = [i \in 1..Need |-> row[i]]
  BY LenProperties
<1>5. row = Stretch(m, n)
  BY <1>3, <1>4 DEF Stretch
<1>6. QED  BY <1>5

LEMMA WindowTypes ==
  StreamTypes =>
    /\ Len(carry) \in Nat /\ DOMAIN carry = 1..Len(carry) /\ released \in Nat
    /\ Len(rows) \in Nat /\ DOMAIN rows = 1..Len(rows)
    /\ \A k \in DOMAIN rows : rows[k] \in Seq(Int) /\ Len(rows[k]) = Need
<1> SUFFICES ASSUME StreamTypes
             PROVE  /\ Len(carry) \in Nat /\ DOMAIN carry = 1..Len(carry) /\ released \in Nat
                    /\ Len(rows) \in Nat /\ DOMAIN rows = 1..Len(rows)
                    /\ \A k \in DOMAIN rows : rows[k] \in Seq(Int) /\ Len(rows[k]) = Need
  OBVIOUS
<1>1. released \in Nat
  BY DEF StreamTypes
<1>2. QED  BY <1>1, Sequences

\* The windows after what is carried over was written to the array they are
\* views of: those of this array held what the latest window left there.
LEMMA WindowsWritten ==
  ASSUME StreamTypes', CarryInOrder', NEW windows,
         rows' = WriteThrough(windows, carry'), Len(rows') = Len(windows),
         DOMAIN rows' = DOMAIN windows,
         CarryFrom' = Len(windows) * SeqLen + 1, Len(carry') >= 1,
         released' <= Len(windows),
         \A k \in DOMAIN windows : k <= released' =>
           \E m \in k..Len(windows), n \in 1..Need : windows[k] = Stretch(m, n),
         \A k \in DOMAIN windows : k > released' =>
           \A i \in 1..Need : i > Len(carry') =>
             windows[k][i] = (Len(windows) - 1) * SeqLen + i
  PROVE  WindowsInOrder'
<1>1. /\ Len(carry') \in Nat /\ DOMAIN carry' = 1..Len(carry')
      /\ Len(rows') \in Nat /\ DOMAIN rows' = 1..Len(rows') /\ released' \in Nat
      /\ \A k \in DOMAIN rows' : rows'[k] \in Seq(Int) /\ Len(rows'[k]) = Need
  <2>1. (StreamTypes =>
           /\ Len(carry) \in Nat /\ DOMAIN carry = 1..Len(carry) /\ released \in Nat
           /\ Len(rows) \in Nat /\ DOMAIN rows = 1..Len(rows)
           /\ \A k \in DOMAIN rows : rows[k] \in Seq(Int) /\ Len(rows[k]) = Need)'
    BY WindowTypes, PTL
  <2>2. QED  BY <2>1
<1>2. PICK l \in Nat : l = Len(rows')
  BY <1>1
<1>3. /\ carry' = Positions(l * SeqLen + 1, Len(stream'))
      /\ l * SeqLen <= Len(stream')
  <2>1. (StreamTypes /\ CarryInOrder /\ CarryFrom = Len(rows) * SeqLen + 1 =>
          /\ carry = Positions(Len(rows) * SeqLen + 1, Len(stream))
          /\ Len(rows) * SeqLen <= Len(stream))'
    BY CarryIsRest, PTL
  <2>2. QED  BY <1>2, <2>1
<1>4. \A i \in 1..Len(carry') : carry'[i] = l * SeqLen + i
  <2>1. PICK b \in Nat : b = l * SeqLen
    BY ONLY RowSizes, l \in Nat
  <2>2. \A i \in 1..Len(carry') : carry'[i] = (b + 1) + i - 1
    BY <1>1, <1>2, <2>1 DEF CarryInOrder
  <2>3. QED  BY <1>1, <2>1, <2>2
<1>5. ASSUME NEW k \in DOMAIN rows', k > released', NEW i \in 1..Need
      PROVE  rows'[k][i] = (IF i <= Len(carry') THEN l ELSE l - 1) * SeqLen + i
  <2>1. rows'[k] = Overwritten(windows[k], carry')
    BY <1>5 DEF WriteThrough
  <2>2. rows'[k][i] = IF i <= Len(carry') THEN carry'[i] ELSE windows[k][i]
    BY <2>1 DEF Overwritten
  <2>3. CASE i <= Len(carry')
    <3>1. i \in 1..Len(carry')
      BY ONLY <1>1, <2>3, RowSizes, i \in 1..Need DEF Need
    <3>2. QED  BY <1>4, <2>2, <2>3, <3>1
  <2>4. CASE ~(i <= Len(carry'))
    <3>1. i > Len(carry')
      BY ONLY <1>1, <2>4, RowSizes, i \in 1..Need DEF Need
    <3>2. QED  BY <1>2, <1>5, <2>2, <2>4, <3>1
  <2>5. QED  BY <2>3, <2>4
<1>6. ASSUME NEW k \in DOMAIN rows'
      PROVE  \E m \in k..l, n \in 1..Need : rows'[k] = Stretch(m, n)
  <2>1. CASE k > released'
    <3>1. \E n \in 1..Need : rows'[k] = Stretch(l, n)
      BY <1>1, <1>2, <1>5, <2>1, OneStretch
    <3>2. l \in k..l
      BY ONLY <1>1, <1>2, k \in DOMAIN rows'
    <3>3. QED  BY <3>1, <3>2
  <2>2. CASE ~(k > released')
    <3>1. rows'[k] = windows[k]
      BY <2>2 DEF WriteThrough
    <3>2. k <= released'
      BY ONLY <1>1, <2>2, k \in DOMAIN rows'
    <3>3. QED  BY <1>2, <3>1, <3>2
  <2>3. QED  BY <2>1, <2>2
<1>7. WindowsAsOverwritten'
  <2>1. \A k \in DOMAIN rows' : \E m \in k..Len(rows'), n \in 1..Need :
          rows'[k] = [i \in 1..Need |-> (IF i <= n THEN m ELSE m - 1) * SeqLen + i]
    BY <1>2, <1>6 DEF Stretch
  <2>2. carry' = Positions(Len(rows') * SeqLen + 1, Len(stream'))
    BY <1>2, <1>3
  <2>3. QED  BY <2>1, <2>2 DEF WindowsAsOverwritten
<1>8. carry' # <<>>
  <2>1. Len(carry') # 0
    BY ONLY <1>1, Len(carry') >= 1
  <2>2. QED  BY <2>1, EmptySeq
<1>9. \A k \in DOMAIN rows' : k > released' => \A i \in 1..Need :
        rows'[k][i] = (IF i <= Len(carry') THEN Len(rows') ELSE Len(rows') - 1) * SeqLen + i
  BY <1>2, <1>5
<1>10. Len(rows') * SeqLen <= Len(stream') /\ released' <= Len(rows')
  BY <1>2, <1>3
<1>11. QED  BY <1>7, <1>8, <1>9, <1>10 DEF WindowsInOrder

LEMMA FeedBlockStep ==
  ASSUME StreamInv, FeedBlock
  PROVE  StreamInv'
<1>1. /\ mode = "contiguous" /\ ReadBlock /\ phase' = "window"
      /\ rows' = WriteThrough(rows, carry')
      /\ capacity' = IF Outgrown THEN Larger ELSE capacity
      /\ released' = IF Outgrown THEN Len(rows) ELSE released
  BY DEF FeedBlock
<1>2. /\ StreamTypes /\ CarryInOrder /\ WindowsInOrder /\ Len(rows) \in Nat
      /\ CarryFrom = Len(rows) * SeqLen + 1 /\ Len(carry) \in Nat /\ released \in Nat
      /\ released <= Len(rows)
  BY <1>1, CarryWindows DEF WindowsInOrder
<1>3. /\ CarryFrom' = CarryFrom /\ CarryInOrder' /\ mode' = mode
      /\ Len(carry') \in Nat /\ Len(carry') >= 1 /\ Len(carry') >= Len(carry)
  BY <1>1, <1>2, ReadExtends DEF config
<1>4. capacity' \in Nat /\ released' \in Nat
  <2>1. capacity \in Nat /\ Need \in Nat
    BY <1>2, RowSizes DEF StreamTypes, Need
  <2>2. Larger \in Nat
    BY ONLY <1>3, <2>1 DEF Larger
  <2>3. QED  BY <1>1, <1>2, <2>1, <2>2
<1>5. StreamTypes'
  BY <1>1, <1>2, <1>4, ReadTypes
<1>6. /\ rows \in Seq(Seq(Int)) /\ DOMAIN rows = 1..Len(rows)
      /\ \A k \in DOMAIN rows : Len(rows[k]) = Need
  BY <1>2, Sequences
<1>7. Len(rows') = Len(rows) /\ DOMAIN rows' = DOMAIN rows
  <2>1. carry' \in Seq(Int)
    BY <1>1, <1>2, ChunkRead
  <2>2. rows' = WriteThrough(rows, carry')
    BY <1>1
  <2>3. rows \in Seq(Seq(Int)) /\ \A k \in DOMAIN rows : Len(rows[k]) = Need
    BY <1>6
  <2>4. QED  BY ONLY <2>1, <2>2, <2>3, Rewritten
<1>8. ASSUME NEW k \in DOMAIN rows
      PROVE  \E m \in k..Len(rows), n \in 1..Need : rows[k] = Stretch(m, n)
  BY <1>1, <1>2 DEF WindowsInOrder, WindowsAsOverwritten, Stretch
<1>9. ASSUME NEW k \in DOMAIN rows, k > released', NEW i \in 1..Need, i > Len(carry')
      PROVE  rows[k][i] = (Len(rows) - 1) * SeqLen + i
  <2>1. k > released
    BY ONLY <1>1, <1>2, <1>6, <1>9
  <2>2. ~(i <= Len(carry))
    BY ONLY <1>2, <1>3, <1>9, RowSizes DEF Need
  <2>3. QED  BY <1>2, <2>1, <2>2 DEF WindowsInOrder
<1>10. released' <= Len(rows)
  BY ONLY <1>1, <1>2
<1>11. WindowsInOrder'
  BY <1>1, <1>2, <1>3, <1>5, <1>7, <1>8, <1>9, <1>10, WindowsWritten
<1>12. QED  BY <1>1, <1>3, <1>5, <1>11 DEF StreamInv

LEMMA YieldWindowStep ==
  ASSUME StreamInv, YieldWindow
  PROVE  StreamInv'
<1>1. PICK w : w = SubSeq(carry, 1, Need)
  OBVIOUS
<1>2. /\ phase = "window" /\ Len(carry) >= Need /\ carry' = SubSeq(carry, Need, Len(carry))
      /\ rows' = WriteThrough(Append(rows, w), carry')
      /\ UNCHANGED <<config, reading>> /\ UNCHANGED reading
      /\ phase' = phase /\ queue' = queue /\ packed' = packed /\ segments' = segments
      /\ mode' = mode /\ released' = released
  BY <1>1 DEF YieldWindow, RestOfCarry, config, reading
<1>3. mode = "contiguous" /\ shard # 0
  BY <1>2 DEF StreamInv, StreamTypes
<1>4. /\ StreamTypes /\ CarryInOrder /\ WindowsInOrder
      /\ CarryFrom = Len(rows) * SeqLen + 1 /\ released \in Nat
      /\ Len(rows) \in Nat /\ SeqLen \in Nat /\ Len(rows) * SeqLen \in Nat
      /\ released <= Len(rows)
  BY <1>3, CarryWindows DEF WindowsInOrder
<1>5. /\ Len(carry) \in Nat /\ DOMAIN carry = 1..Len(carry)
      /\ \A i \in DOMAIN carry : carry[i] \in Position
      /\ Position' = Position /\ stream' = stream
  BY <1>2, <1>4, Sequences, SameStream
<1>6. PICK n \in Nat : n = SeqLen
  BY <1>4
<1>7. Need = n + 1 /\ n <= Len(carry) /\ Len(carry) >= n + 1
  BY ONLY <1>2, <1>4, <1>5, <1>6 DEF Need
<1>8. /\ carry' \in Seq(Position) /\ CarryFrom' = CarryFrom + n
      /\ DOMAIN carry' = 1..(Len(carry) - n)
      /\ \A j \in DOMAIN carry' : carry'[j] = CarryFrom + n + j - 1
      /\ Len(carry') <= Len(stream)
  <2>1. carry' = SubSeq(carry, n + 1, Len(carry))
    BY <1>2, <1>7
  <2>2. QED  BY ONLY <1>2, <1>4, <1>7, <2>1, n \in Nat, CarryShorter
<1>9. CarryInOrder'
  <2>1. \A j \in DOMAIN carry' : carry'[j] = CarryFrom' + j - 1
    BY <1>8
  <2>2. QED  BY <1>2, <1>3, <1>5, <1>8, <2>1 DEF CarryInOrder
<1>10. /\ w \in Seq(Position) /\ Len(w) = Need
       /\ \A i \in 1..Need : w[i] = Len(rows) * SeqLen + i
  <2>1. \A i \in 1..Need : i \in DOMAIN carry /\ carry[i] \in Position
    BY ONLY <1>5, <1>7, n \in Nat
  <2>2. /\ w \in Seq(Position)
        /\ Len(w) = IF 1 <= Need THEN Need - 1 + 1 ELSE 0
        /\ \A i \in 1..(Need - 1 + 1) : w[i] = carry[1 + i - 1]
    <3>1. 1 \in Int /\ Need \in Int
      BY <1>7
    <3>2. QED  BY ONLY <1>1, <2>1, <3>1, SubSeqProperties
  <2>3. Len(w) = Need /\ \A i \in 1..Need : w[i] = carry[i]
    BY ONLY <1>7, <2>2, n \in Nat
  <2>4. PICK b \in Nat : b = Len(rows) * SeqLen
    BY <1>4
  <2>5. \A i \in 1..Need : carry[i] = (b + 1) + i - 1
    BY <1>4, <2>1, <2>4 DEF CarryInOrder
  <2>6. \A i \in 1..Need : w[i] = b + i
    BY ONLY <2>3, <2>5, <1>7, b \in Nat, n \in Nat
  <2>7. QED  BY <2>2, <2>3, <2>4, <2>6
<1>11. /\ rows \in Seq(Seq(Position \cup {Sep, Pad}))
       /\ \A k \in DOMAIN rows : Len(rows[k]) = Need
       /\ DOMAIN rows = 1..Len(rows)
       /\ queue \in Seq(Pieces) /\ packed \in Seq(Position \cup {Sep}) /\ Len(packed) <= Need
       /\ segments \in 0..MaxSegments
  BY <1>4, Sequences DEF StreamTypes, Pieces
<1>12. PICK windows : windows = Append(rows, w)
  OBVIOUS
<1>13. /\ windows \in Seq(Seq(Position \cup {Sep, Pad})) /\ Len(windows) = Len(rows) + 1
       /\ DOMAIN windows = 1..(Len(rows) + 1)
       /\ \A k \in 1..Len(rows) : windows[k] = rows[k]
       /\ windows[Len(rows) + 1] = w
       /\ \A k \in DOMAIN windows : k \in 1..Len(rows) \/ k = Len(rows) + 1
       /\ \A k \in DOMAIN windows : Len(windows[k]) = Need
  <2>1. w \in Seq(Position \cup {Sep, Pad})
    BY <1>10, SeqMonotonic
  <2>2. /\ windows \in Seq(Seq(Position \cup {Sep, Pad})) /\ Len(windows) = Len(rows) + 1
        /\ \A k \in 1..Len(rows) : windows[k] = rows[k]
        /\ windows[Len(rows) + 1] = w
    BY <1>11, <1>12, <2>1, AppendProperties
  <2>3. DOMAIN windows = 1..(Len(rows) + 1)
    BY <2>2, LenProperties
  <2>4. \A k \in DOMAIN windows : k \in 1..Len(rows) \/ k = Len(rows) + 1
    BY ONLY <1>4, <2>3
  <2>5. QED  BY <1>10, <1>11, <2>2, <2>3, <2>4
<1>14. /\ rows' \in Seq(Seq(Position \cup {Sep, Pad})) /\ Len(rows') = Len(windows)
       /\ DOMAIN rows' = DOMAIN windows
       /\ \A k \in DOMAIN rows' : Len(rows'[k]) = Need
  <2>1. carry' \in Seq(Position \cup {Sep, Pad})
    BY <1>8, SeqMonotonic
  <2>2. rows' = WriteThrough(windows, carry')
    BY <1>2, <1>12
  <2>3. /\ windows \in Seq(Seq(Position \cup {Sep, Pad}))
        /\ \A k \in DOMAIN windows : Len(windows[k]) = Need
    BY <1>13
  <2>4. QED  BY ONLY <2>1, <2>2, <2>3, Rewritten
<1>15. StreamTypes'
  BY <1>2, <1>3, <1>4, <1>8, <1>11, <1>14, TypesStep DEF Phases
<1>16. CarryFrom' = Len(windows) * SeqLen + 1
  <2>1. PICK a \in Nat : a = Len(rows)
    BY <1>4
  <2>2. (a + 1) * n = a * n + n /\ a * n \in Nat
    BY ONLY a \in Nat, n \in Nat
  <2>3. CarryFrom = a * n + 1 /\ CarryFrom' = CarryFrom + n
    BY <1>4, <1>6, <1>8, <2>1
  <2>4. CarryFrom' = (a + 1) * n + 1
    BY ONLY <2>2, <2>3, n \in Nat
  <2>5. Len(windows) = a + 1
    BY <1>13, <2>1
  <2>6. QED  BY <1>6, <2>4, <2>5
<1>17. Len(carry') \in Nat /\ Len(carry') >= 1
  <2>1. Len(carry') \in Nat /\ DOMAIN carry' = 1..Len(carry')
    BY <1>8, LenProperties
  <2>2. 1 \in DOMAIN carry'
    BY ONLY <1>5, <1>7, <1>8, n \in Nat
  <2>3. QED  BY ONLY <2>1, <2>2
<1>18. Len(windows) - 1 = Len(rows) /\ released' <= Len(windows)
  BY ONLY <1>2, <1>4, <1>13
\* The windows of the array were what the new window is.
<1>19. ASSUME NEW k \in DOMAIN windows, k > released', NEW i \in 1..Need
       PROVE  windows[k][i] = (Len(windows) - 1) * SeqLen + i
  <2>1. CASE k \in 1..Len(rows)
    <3>1. i <= Len(carry)
      BY ONLY <1>5, <1>7, i \in 1..Need, n \in Nat
    <3>2. rows[k][i] = Len(rows) * SeqLen + i
      BY <1>2, <1>4, <1>11, <1>19, <2>1, <3>1 DEF WindowsInOrder
    <3>3. QED  BY <1>13, <1>18, <2>1, <3>2
  <2>2. CASE k = Len(rows) + 1
    BY <1>10, <1>13, <1>18, <2>2
  <2>3. QED  BY <1>13, <2>1, <2>2
<1>20. ASSUME NEW k \in DOMAIN windows, k <= released'
       PROVE  \E m \in k..Len(windows), j \in 1..Need : windows[k] = Stretch(m, j)
  <2>1. CASE k \in 1..Len(rows)
    <3>1. PICK m \in k..Len(rows), j \in 1..Need : rows[k] = Stretch(m, j)
      BY <1>3, <1>4, <1>11, <2>1 DEF WindowsInOrder, WindowsAsOverwritten, Stretch
    <3>2. m \in k..Len(windows)
      BY ONLY <1>4, <1>13, <2>1, m \in k..Len(rows)
    <3>3. QED  BY <1>13, <2>1, <3>1, <3>2
  <2>2. k # Len(rows) + 1
    BY ONLY <1>2, <1>4, <1>20
  <2>3. QED  BY <1>13, <2>1, <2>2
<1>21. WindowsInOrder'
  BY <1>2, <1>9, <1>12, <1>14, <1>15, <1>16, <1>17, <1>18, <1>19, <1>20,
     WindowsWritten
<1>22. QED  BY <1>2, <1>3, <1>9, <1>15, <1>21 DEF StreamInv

--------------------------------------------------------------------------------
LEMMA StreamStep ==
  ASSUME StreamInv, [StreamNext]_streamVars
  PROVE  StreamInv'
<1>1. CASE SkipShard \/ OpenShard \/ EndShard \/ NextBlock
  BY <1>1, ShardStep
<1>2. CASE FeedTokens
  BY <1>2, FeedTokensStep
<1>3. CASE SplitAtDelimiter
  BY <1>3, SplitAtDelimiterStep
<1>4. CASE SplitTail
  BY <1>4, SplitTailStep
<1>5. CASE TakeDocument
  BY <1>5, TakeDocumentStep
<1>6. CASE SplitDocument
  BY <1>6, SplitDocumentStep
<1>7. CASE PackExactly
  BY <1>7, PackExactlyStep
<1>8. CASE PackPadded
  BY <1>8, PackPaddedStep
<1>9. CASE FillRow
  BY <1>9, FillRowStep
<1>10. CASE PackNothing
  BY <1>10, PackNothingStep
<1>11. CASE FeedBlock
  BY <1>11, FeedBlockStep
<1>12. CASE YieldWindow
  BY <1>12, YieldWindowStep
<1>13. CASE UNCHANGED streamVars
  <2>1. /\ mode' = mode /\ padTail' = padTail /\ shards' = shards /\ phase' = phase
        /\ shard' = shard /\ offset' = offset /\ stream' = stream /\ cuts' = cuts
        /\ carry' = carry /\ queue' = queue /\ packed' = packed /\ segments' = segments
        /\ rows' = rows /\ capacity' = capacity /\ released' = released
    BY <1>13 DEF streamVars, config, reading, packing
  <2>2. StreamTypes' /\ CarryInOrder'
    BY <2>1 DEF StreamInv, StreamTypes, Position, CarryInOrder, CarryFrom, StartsPiece
  <2>3. /\ QueueInOrder' = QueueInOrder /\ PackedInOrder' = PackedInOrder
        /\ RowsInOrder' = RowsInOrder /\ WindowsInOrder' = WindowsInOrder
    BY <2>1
    DEF QueueInOrder, PackedInOrder, RowsInOrder, WindowsInOrder, WindowsAsOverwritten,
        PieceInOrder, CarryFrom, EndsPiece, Position, NoDelimiter, Run, Below, Precedes,
        Coming, Rising, Separate, Text
  <2>4. LossIsExplained' = LossIsExplained
    BY <2>1 DEF LossIsExplained, Lost, Held, CutShort, StartsPiece, EndsPiece,
                Position, Text
  <2>5. QED  BY <2>1, <2>2, <2>3, <2>4 DEF StreamInv
<1>14. QED
  BY <1>1, <1>2, <1>3, <1>4, <1>5, <1>6, <1>7, <1>8, <1>9, <1>10, <1>11, <1>12, <1>13
  DEF StreamNext

(* The invariant of the packer: the order of the rows, of what is packed, of  *)
(* the queue and of what is carried over, and what they say of the stream     *)
(* (feed_tokens and pack_one of DynamicSequencePacker, and the two datasets). *)
THEOREM StreamInvariant == StreamSpec => []StreamInv
<1>1. StreamInit => StreamInv
  BY InitStream
<1>2. StreamInv /\ [StreamNext]_streamVars => StreamInv'
  BY StreamStep
<1>3. QED  BY <1>1, <1>2, PTL DEF StreamSpec

(* What was yielded, is packed, queued and carried over, in this order, is in *)
(* the order of the stream, has no token twice and no delimiter for text,     *)
(* whatever feed_tokens and pack_one have done to the documents.              *)
THEOREM StreamInOrderOnce == StreamSpec => []InOrderOnce
<1>1. StreamInv => InOrderOnce
  BY OrderedParts
<1>2. QED  BY <1>1, StreamInvariant, PTL

(* A token is lost only in a piece shorter than min_document_tokens, or at    *)
(* the end of a piece that pack_one truncates or gives up on.                 *)
THEOREM StreamLossIsExplained == StreamSpec => []LossIsExplained
<1>1. StreamInv => LossIsExplained
  BY DEF StreamInv, LossIsExplained
<1>2. QED  BY <1>1, StreamInvariant, PTL

(* Two documents never touch in a row of a packer that pads.                  *)
THEOREM StreamDocumentsAreSeparated == StreamSpec => []DocumentsAreSeparated
<1>1. ASSUME StreamInv PROVE DocumentsAreSeparated
  <2>1. SUFFICES ASSUME padTail, NEW k \in DOMAIN rows, NEW j \in 1..SeqLen,
                        IsText(rows[k][j]), IsText(rows[k][j + 1])
                 PROVE  rows[k][j + 1] = rows[k][j] + 1
    BY DEF DocumentsAreSeparated
  <2>2. StreamTypes /\ RowsInOrder
    BY <1>1, <2>1 DEF StreamInv, StreamTypes
  <2>3. j \in 1..(Len(rows[k]) - 1)
    <3>1. Len(rows[k]) = Need
      BY <2>2 DEF StreamTypes
    <3>2. QED  BY ONLY <3>1, RowSizes, j \in 1..SeqLen DEF Need
  <2>4. Separate(rows[k])
    BY <2>1, <2>2 DEF RowsInOrder
  <2>5. QED  BY <2>1, <2>3, <2>4 DEF Separate
<1>2. QED  BY <1>1, StreamInvariant, PTL

(* The windows of ContiguousPackedDataset advance by seq_len and overlap by   *)
(* one token, and what their tensors hold, views of an array that is moved,   *)
(* written to and given up, is at all times a stretch of a later window up to *)
(* some place and of the one before from there on, token by token.            *)
THEOREM StreamWindowsAsOverwritten == StreamSpec => []WindowsAsOverwritten
<1>1. StreamInv => WindowsAsOverwritten
  BY DEF StreamInv, WindowsInOrder, WindowsAsOverwritten
<1>2. QED  BY <1>1, StreamInvariant, PTL
================================================================================
