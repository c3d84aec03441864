----------------------- MODULE InterleavedSourcesProofs -----------------------
(***************************************************************************)
(* Proofs about InterleavedSources, for any number of sources, weights,     *)
(* lines, contents and sessions: the reader and the checkpoint meet, the    *)
(* counters match the output, nothing is written twice, the mix follows the *)
(* weights, and a merge that completes has every content.                   *)
(*                                                                          *)
(* The first part is about sums and sorted sets, the second about the       *)
(* operators on checkpoints, among them the sharing of rows in              *)
(* reconcile_checkpoint_output; then comes the invariant, one part of it    *)
(* after the other.                                                         *)
(***************************************************************************)
EXTENDS InterleavedSources, FiniteSetTheorems, SequenceTheorems,
        WellFoundedInduction, TLAPS

Fit(x) == x \notin Unfit \cup {Blank}

(* The contents that a checkpoint says were read from s.                    *)
Read(c, s) ==
  {lines[s][i] : i \in {j \in DOMAIN lines[s] : j <= c.row[s].offset}}

(* The first n rows of the output.                                          *)
First(n) == {out[i] : i \in {j \in DOMAIN out : j <= n}}

(* Types, but for the length of the schedule, which bounds tick.            *)
Typed ==
  /\ lines \in [Sources -> Files] /\ present \in (SUBSET Sources) \ {{}}
  /\ out \in Seq(Contents) /\ buffer \in Seq(Contents) /\ Len(buffer) < BufferRows
  /\ saved \in Checkpoints /\ cp \in Checkpoints
  /\ IsInjective(saved.names) /\ IsInjective(cp.names)
  /\ known \subseteq Contents /\ pc \in {"down", "merging", "closed"}
  /\ filter \subseteq present /\ exhausted \subseteq filter
  /\ next \in [Sources -> Nat] /\ begun \in [Sources -> Nat] /\ tick \in Nat
  /\ feed \in Seq([source : Sources, no : Nat]) /\ Len(feed) <= ReadAhead
  /\ foreign \in Int /\ sessions \in 0 .. MaxSessions
  /\ incremental \in BOOLEAN /\ damaged \in BOOLEAN /\ cleared \in BOOLEAN

(* What the reader is at, what waits, and the checkpoint.                   *)
Reading ==
  /\ Alive => filter # {} /\ Range(cp.names) = filter
  /\ ~Alive => filter = {} /\ feed = <<>> /\ buffer = <<>> /\ tick = 0
  /\ pc = "closed" => exhausted = filter /\ feed = <<>> /\ buffer = <<>>
  /\ \A i \in DOMAIN feed :
       feed[i].source \in filter /\ feed[i].no < Len(lines[feed[i].source])
  /\ \A s \in exhausted : next[s] >= Len(lines[s])
  /\ ReaderMeetsCheckpoint

(* A source without a row has a zero row.                                   *)
ZeroElsewhere(c) == \A s \in Sources \ Range(c.names) : c.row[s] = ZeroRow

(* Where rows were kept, something was read.                                *)
KeptWasRead(c) ==
  (\A s \in Sources : c.row[s].offset = 0) => \A s \in Sources : c.row[s].kept = 0

(* The counters on disk may be those of a line in work: it is scanned.      *)
Scanned(c) ==
  \A s \in Sources :
    /\ c.row[s].scanned >= c.row[s].kept + c.row[s].rejected
    /\ c.row[s].offset = 0 => c.row[s].scanned = c.row[s].kept + c.row[s].rejected

Counters ==
  /\ ZeroElsewhere(saved) /\ ZeroElsewhere(cp)
  /\ Scanned(saved)
  /\ Range(saved.names) \subseteq present
  /\ ~incremental => KeptWasRead(saved) /\ KeptWasRead(cp) /\ foreign = 0
  /\ ~cp.complete
  /\ Alive => AddUp(cp) /\ Kept(cp) + foreign = Len(out) + Len(buffer)

Rows == out \o buffer

(* What is known is what was written, or does not fit.                      *)
Knowledge ==
  /\ \A i, j \in DOMAIN Rows : i < j => Rows[i] # Rows[j]
  /\ \A x \in Range(Rows) : Fit(x)
  /\ Alive => Range(Rows) \subseteq known /\ known \subseteq Range(Rows) \cup Unfit

(* No row that the checkpoint counts was cut by an incremental merge.       *)
Uncut == cleared => \A s \in filter : begun[s] = 0

(* What a checkpoint says was read has its rows, those that were lost or    *)
(* cut excepted.                                                            *)
There ==
  /\ Alive /\ ~incremental => Kept(saved) <= Len(out)
  /\ Alive /\ Uncut =>
       \A s \in filter : \A x \in Read(cp, s) : Fit(x) => x \in Range(Rows)
  /\ ~cleared /\ incremental =>
       \A s \in Sources : \A x \in Read(saved, s) : Fit(x) => x \in Range(out)
  /\ ~cleared /\ ~incremental /\ AddUp(saved) /\ Len(out) >= Kept(saved) =>
       \A s \in Sources : \A x \in Read(saved, s) : Fit(x) => x \in First(Kept(saved))

(* In the schedule of the sources F, the turns of s that are behind its      *)
(* position p.                                                              *)
Passed(F, s, p) ==
  LET first == EntriesOf({t \in F : t < s})
  IN IF p <= first THEN 0
     ELSE IF p >= first + Weight[s] THEN Weight[s] ELSE p - first

(* A reader that began at b and has gone r times round the schedule of F    *)
(* and to its position p is at m, for the sources in S.                     *)
At(m, b, F, r, p, S) ==
  \A s \in S : m[s] - b[s] = r * Weight[s] + Passed(F, s, p)

(* When the lines of G up to i are applied, and the reader is at n, what    *)
(* was applied is m.                                                        *)
Mark(m, G, i, n, F) ==
  \A s \in F :
    /\ m[s] <= n[s]
    /\ {G[j].no : j \in {k \in DOMAIN G : k > i /\ G[k].source = s}}
         = m[s] .. n[s] - 1

(* Where the lines of feed up to i were applied, the reader that read the   *)
(* last of them was at a place of the schedule, but for the sources that    *)
(* had no line left.                                                        *)
OnSchedule(i) ==
  \E m \in [Sources -> Nat], r, p \in Nat :
    /\ Mark(m, feed, i, next, filter)
    /\ At(m, begun, filter, r, p, {s \in filter : m[s] < Len(lines[s])})

Mix ==
  /\ Alive => tick \in 0 .. EntriesOf(filter) - 1
  /\ \E r \in Nat : At(next, begun, filter, r, tick, filter \ exhausted)
  /\ \A i \in 0 .. Len(feed) : OnSchedule(i)

IInv == Typed /\ Reading /\ Counters /\ Knowledge /\ There /\ Mix
--------------------------------------------------------------------------------
(***************************************************************************)
(* Sums.                                                                    *)
(***************************************************************************)

(* A set of numbers that is not empty has a least one.                      *)
LEMMA LeastNumber ==
  ASSUME NEW T \in SUBSET Nat, T # {}
  PROVE  \E n \in T : \A m \in T : n <= m
<1> DEFINE R == {ss \in Nat \X Nat : ss[1] < ss[2]}
<1>1. IsWellFoundedOn(R, Nat)
  BY NatLessThanWellFounded DEF OpToRel
<1> HIDE DEF R
<1>2. PICK n \in T : \A m \in T : <<m, n>> \notin R
  BY <1>1, WFMin
<1>3. \A m \in T : ~(m < n)
  BY <1>2 DEF R
<1> QED
  BY <1>3

(* The sums of this module are of finitely many natural numbers.            *)
LEMMA ThingsFinite ==
  ASSUME NEW D, IsFiniteSet(D), NEW f \in [D -> Nat]
  PROVE  IsFiniteSet(Things(f)) /\ Sum(f) \in Nat
<1> DEFINE g == [s \in D |-> {s} \X (1 .. f[s])]
<1>1. g \in Surjection(D, Range(g))
  BY DEF Surjection, Range
<1>2. IsFiniteSet(Range(g))
  BY <1>1, FS_Surjection
<1>3. \A t \in Range(g) : IsFiniteSet(t)
  <2> SUFFICES ASSUME NEW s \in D PROVE IsFiniteSet({s} \X (1 .. f[s]))
    BY DEF Range
  <2>1. IsFiniteSet({s}) /\ f[s] \in Nat
    BY FS_Singleton
  <2>2. IsFiniteSet(1 .. f[s])
    BY <2>1, FS_Interval
  <2> QED
    BY <2>1, <2>2, FS_Product
<1>4. Things(f) = UNION Range(g)
  BY DEF Things, Range
<1> QED
  BY <1>2, <1>3, <1>4, FS_UNION, FS_CardinalityType DEF Sum

(* One number can be taken out of a sum.                                    *)
LEMMA SumSplit ==
  ASSUME NEW D, IsFiniteSet(D), NEW f \in [D -> Nat], NEW x \in D
  PROVE  Sum(f) = Sum([s \in D \ {x} |-> f[s]]) + f[x]
<1> DEFINE rest == [s \in D \ {x} |-> f[s]]
           own == {x} \X (1 .. f[x])
<1>1. IsFiniteSet(D \ {x}) /\ rest \in [D \ {x} -> Nat]
  BY FS_RemoveElement
<1>2. IsFiniteSet(Things(rest)) /\ Sum(rest) \in Nat
  BY <1>1, ThingsFinite
<1>3. IsFiniteSet(own) /\ Cardinality(own) = f[x]
  <2>1. IsFiniteSet({x}) /\ Cardinality({x}) = 1
    BY FS_Singleton
  <2>2. IsFiniteSet(1 .. f[x]) /\ Cardinality(1 .. f[x]) = f[x]
    BY FS_Interval
  <2>3. /\ IsFiniteSet({x} \X (1 .. f[x]))
        /\ Cardinality({x} \X (1 .. f[x])) = Cardinality({x}) * Cardinality(1 .. f[x])
    BY <2>1, <2>2, FS_Product
  <2>4. 1 * f[x] = f[x]
    OBVIOUS
  <2> QED
    BY <2>1, <2>2, <2>3, <2>4
<1>4. Things(f) = Things(rest) \cup own
  <2>1. \A t : t \in Things(f) <=> \E s \in D : t \in {s} \X (1 .. f[s])
    BY DEF Things
  <2>2. \A t : t \in Things(rest) <=> \E s \in D \ {x} : t \in {s} \X (1 .. f[s])
    BY DEF Things
  <2> QED
    BY <2>1, <2>2
<1>5. Things(rest) \cap own = {}
  BY DEF Things
<1>6. Cardinality(Things(rest) \cap own) = 0
  BY <1>5, FS_EmptySet
<1> HIDE DEF own, rest
<1>7. Cardinality(Things(rest) \cup own)
        = Cardinality(Things(rest)) + Cardinality(own) - Cardinality(Things(rest) \cap own)
  BY <1>2, <1>3, FS_Union
<1>8. Sum(f) = Sum(rest) + f[x]
  BY <1>2, <1>3, <1>4, <1>6, <1>7 DEF Sum
<1> QED
  BY <1>8 DEF rest

(* A part of a sum is no greater than the whole, and as great when it       *)
(* leaves out only zeros.                                                   *)
LEMMA SumPart ==
  ASSUME NEW D, IsFiniteSet(D), NEW f \in [D -> Nat], NEW E \in SUBSET D
  PROVE  /\ Sum([s \in E |-> f[s]]) <= Sum(f)
         /\ (\A s \in D \ E : f[s] = 0) => Sum([s \in E |-> f[s]]) = Sum(f)
<1> DEFINE part == [s \in E |-> f[s]]
<1>1. IsFiniteSet(Things(f)) /\ Sum(f) \in Nat
  BY ThingsFinite
<1>2. \A t : t \in Things(f) <=> \E s \in D : t \in {s} \X (1 .. f[s])
  BY DEF Things
<1>3. \A t : t \in Things(part) <=> \E s \in E : t \in {s} \X (1 .. f[s])
  BY DEF Things
<1>4. Things(part) \subseteq Things(f)
  BY <1>2, <1>3
<1>5. ASSUME \A s \in D \ E : f[s] = 0 PROVE Things(part) = Things(f)
  <2>1. \A s \in D \ E : 1 .. f[s] = {}
    BY <1>5
  <2> QED
    BY <1>2, <1>3, <2>1
<1> QED
  BY <1>1, <1>4, <1>5, FS_Subset DEF Sum

(* Sums of greater numbers are greater.                                     *)
LEMMA SumMonotone ==
  ASSUME NEW D, IsFiniteSet(D), NEW f \in [D -> Nat], NEW g \in [D -> Nat],
         \A s \in D : f[s] <= g[s]
  PROVE  Sum(f) <= Sum(g)
<1>1. IsFiniteSet(Things(g))
  BY ThingsFinite
<1>2. \A s \in D : 1 .. f[s] \subseteq 1 .. g[s]
  OBVIOUS
<1>3. Things(f) \subseteq Things(g)
  BY <1>2 DEF Things
<1> QED
  BY <1>1, <1>3, FS_Subset DEF Sum

(* A sum of zeros is zero.                                                  *)
LEMMA SumOfZeros ==
  ASSUME NEW D, NEW f \in [D -> Nat], \A s \in D : f[s] = 0
  PROVE  Sum(f) = 0
<1>1. \A s \in D : 1 .. f[s] = {}
  OBVIOUS
<1>2. Things(f) = {}
  BY <1>1 DEF Things
<1> QED
  BY <1>2, FS_EmptySet DEF Sum

(* A sum in which one number is greater by d is greater by d.               *)
LEMMA SumChange ==
  ASSUME NEW D, IsFiniteSet(D), NEW f \in [D -> Nat], NEW g \in [D -> Nat],
         NEW x \in D, \A s \in D \ {x} : g[s] = f[s]
  PROVE  Sum(g) = Sum(f) + g[x] - f[x]
<1> DEFINE rest == [s \in D \ {x} |-> f[s]]
<1>1. [s \in D \ {x} |-> g[s]] = rest
  OBVIOUS
<1>2. rest \in [D \ {x} -> Nat] /\ IsFiniteSet(D \ {x})
  BY FS_RemoveElement
<1>3. Sum(rest) \in Nat
  BY <1>2, ThingsFinite
<1>4. Sum(f) = Sum(rest) + f[x] /\ Sum(g) = Sum(rest) + g[x]
  BY <1>1, SumSplit
<1> QED
  BY <1>3, <1>4

(* What is in proportion for each number is in proportion for the sums: the *)
(* induction is over the size of the part that is summed.                   *)
LEMMA SumInProportion ==
  ASSUME NEW D, IsFiniteSet(D), NEW f \in [D -> Nat], NEW g \in [D -> Nat],
         NEW a \in Nat, NEW b \in Nat,
         \A s \in D : a * g[s] <= b * f[s]
  PROVE  a * Sum(g) <= b * Sum(f)
<1> DEFINE Of(h, E) == [s \in E |-> h[s]]
           Bad(E) == ~(a * Sum(Of(g, E)) <= b * Sum(Of(f, E)))
           T == {n \in Nat : \E E \in SUBSET D : Bad(E) /\ Cardinality(E) = n}
<1>1. \A E \in SUBSET D :
        /\ IsFiniteSet(E) /\ Cardinality(E) \in Nat
        /\ Of(f, E) \in [E -> Nat] /\ Of(g, E) \in [E -> Nat]
  BY FS_Subset, FS_CardinalityType
<1>2. SUFFICES T = {}
  <2>1. D \in SUBSET D /\ Cardinality(D) \in Nat /\ Of(f, D) = f /\ Of(g, D) = g
    BY <1>1
  <2>2. ~Bad(D)
    BY <1>2, <2>1
  <2> QED
    BY <2>1, <2>2
<1>3. SUFFICES ASSUME NEW n \in T, \A m \in T : n <= m PROVE FALSE
  BY LeastNumber
<1>4. PICK E \in SUBSET D : Bad(E) /\ Cardinality(E) = n
  OBVIOUS
<1>5. IsFiniteSet(E) /\ n \in Nat
  BY <1>1
<1>6. PICK x : x \in E
  <2>1. CASE E = {}
    <3>1. Sum(Of(f, E)) = 0 /\ Sum(Of(g, E)) = 0
      BY <1>1, <2>1, SumOfZeros
    <3> QED
      BY <1>4, <3>1
  <2> QED
    BY <2>1
<1> DEFINE F == E \ {x}
<1>7. F \in SUBSET D /\ Cardinality(F) = n - 1 /\ Cardinality(F) \in Nat
  BY <1>1, <1>4, <1>5, <1>6, FS_RemoveElement
<1>8. ~Bad(F)
  BY <1>3, <1>5, <1>7
<1>9. Sum(Of(f, F)) \in Nat /\ Sum(Of(g, F)) \in Nat
  BY <1>1, <1>7, ThingsFinite
<1>10. \A h \in [D -> Nat] : Sum(Of(h, E)) = Sum(Of(h, F)) + h[x]
  <2> SUFFICES ASSUME NEW h \in [D -> Nat] PROVE Sum(Of(h, E)) = Sum(Of(h, F)) + h[x]
    OBVIOUS
  <2>1. Of(h, E) \in [E -> Nat] /\ Of(h, E)[x] = h[x]
    BY <1>6
  <2>2. [s \in E \ {x} |-> Of(h, E)[s]] = Of(h, F)
    OBVIOUS
  <2> HIDE DEF Of
  <2>3. Sum(Of(h, E)) = Sum([s \in E \ {x} |-> Of(h, E)[s]]) + Of(h, E)[x]
    BY <1>5, <1>6, <2>1, SumSplit
  <2> QED
    BY <2>1, <2>2, <2>3
<1>11. a * g[x] <= b * f[x] /\ f[x] \in Nat /\ g[x] \in Nat
  BY <1>6
<1>12. /\ Sum(Of(f, E)) = Sum(Of(f, F)) + f[x]
       /\ Sum(Of(g, E)) = Sum(Of(g, F)) + g[x]
  BY <1>10
<1>13. a * Sum(Of(g, F)) <= b * Sum(Of(f, F))
  BY <1>8
<1>14. \A u, v, w, z \in Nat :
         a * u <= b * v /\ a * w <= b * z => a * (u + w) <= b * (v + z)
  <2> SUFFICES ASSUME NEW u \in Nat, NEW v \in Nat, NEW w \in Nat, NEW z \in Nat,
                      a * u <= b * v, a * w <= b * z
               PROVE  a * (u + w) <= b * (v + z)
    OBVIOUS
  <2>1. a * (u + w) = a * u + a * w /\ b * (v + z) = b * v + b * z
    OBVIOUS
  <2>2. a * u \in Nat /\ a * w \in Nat /\ b * v \in Nat /\ b * z \in Nat
    OBVIOUS
  <2> QED
    BY <2>1, <2>2
<1>15. a * Sum(Of(g, E)) <= b * Sum(Of(f, E))
  BY <1>9, <1>11, <1>12, <1>13, <1>14
<1> QED
  BY <1>4, <1>15
--------------------------------------------------------------------------------
(***************************************************************************)
(* Numbers in order.                                                        *)
(***************************************************************************)

(* The number of elements below.                                            *)
Rank(S, s) == Cardinality({t \in S : t < s})

(* Ranks increase, and are all the numbers below the size of the set.       *)
LEMMA RankIncreases ==
  ASSUME NEW S \in SUBSET Nat, IsFiniteSet(S), NEW s \in S, NEW t \in S, s < t
  PROVE  Rank(S, s) \in Nat /\ Rank(S, t) \in Nat /\ Rank(S, s) < Rank(S, t)
<1> DEFINE below(u) == {v \in S : v < u}
<1>1. \A u \in S : IsFiniteSet(below(u)) /\ Cardinality(below(u)) \in Nat
  <2> SUFFICES ASSUME NEW u \in S
               PROVE  IsFiniteSet(below(u)) /\ Cardinality(below(u)) \in Nat
    OBVIOUS
  <2>1. below(u) \in SUBSET S
    OBVIOUS
  <2> QED
    BY <2>1, FS_Subset, FS_CardinalityType
<1>2. below(s) \cup {s} \in SUBSET below(t) /\ s \notin below(s)
  <2>1. \A u \in S : u < s => u < t
    OBVIOUS
  <2>2. ~(s < s)
    OBVIOUS
  <2> QED
    BY <2>1, <2>2
<1>3. Cardinality(below(s) \cup {s}) = Cardinality(below(s)) + 1
  BY <1>1, <1>2, FS_AddElement
<1>4. Cardinality(below(s) \cup {s}) <= Cardinality(below(t))
  BY <1>1, <1>2, FS_Subset
<1> QED
  BY <1>1, <1>3, <1>4 DEF Rank

LEMMA RankBounds ==
  ASSUME NEW S \in SUBSET Nat, IsFiniteSet(S), NEW s \in S
  PROVE  Rank(S, s) \in 0 .. Cardinality(S) - 1
<1> DEFINE below == {t \in S : t < s}
<1>1. below \in SUBSET (S \ {s})
  OBVIOUS
<1>2. IsFiniteSet(S \ {s}) /\ Cardinality(S \ {s}) = Cardinality(S) - 1
  BY FS_RemoveElement
<1>3. IsFiniteSet(below) /\ Cardinality(below) <= Cardinality(S) - 1
  BY <1>1, <1>2, FS_Subset
<1> QED
  BY <1>2, <1>3, FS_CardinalityType DEF Rank

(* Every element of S is at one place of Sorted(S).                         *)
LEMMA SortedIsAll ==
  ASSUME NEW S \in SUBSET Nat, IsFiniteSet(S)
  PROVE  /\ Sorted(S) \in Seq(S)
         /\ DOMAIN Sorted(S) = 1 .. Cardinality(S)
         /\ Range(Sorted(S)) = S
         /\ IsInjective(Sorted(S))
<1> DEFINE n == Cardinality(S)
           rank == [s \in S |-> Rank(S, s) + 1]
<1>1. n \in Nat
  BY FS_CardinalityType
<1>2. rank \in [S -> 1 .. n]
  BY <1>1, RankBounds
<1>3. \A s, t \in S : s # t => rank[s] # rank[t]
  <2> SUFFICES ASSUME NEW s \in S, NEW t \in S, s < t PROVE rank[s] # rank[t]
    OBVIOUS
  <2> QED
    BY RankIncreases
<1>4. rank \in Injection(S, 1 .. n)
  BY <1>2, <1>3 DEF Injection, IsInjective
<1>5. IsFiniteSet(1 .. n) /\ Cardinality(1 .. n) = n
  BY <1>1, FS_Interval
<1>6. rank \in Surjection(S, 1 .. n)
  BY <1>4, <1>5, FS_Injection
<1>7. \A i \in 1 .. n : \E s \in S : rank[s] = i
  BY <1>6 DEF Surjection
<1>8. \A i \in 1 .. n : Sorted(S)[i] \in S /\ rank[Sorted(S)[i]] = i
  <2> SUFFICES ASSUME NEW i \in 1 .. n
               PROVE  Sorted(S)[i] \in S /\ rank[Sorted(S)[i]] = i
    OBVIOUS
  <2>1. \E s \in S : Cardinality({t \in S : t < s}) = i - 1
    <3>1. PICK s \in S : rank[s] = i
      BY <1>7
    <3>2. Rank(S, s) \in 0 .. n - 1
      BY RankBounds
    <3>3. Rank(S, s) + 1 = i
      BY <3>1
    <3>4. Rank(S, s) = i - 1
      BY <1>1, <3>2, <3>3
    <3> QED
      BY <3>4 DEF Rank
  <2>2. Sorted(S)[i] = CHOOSE s \in S : Cardinality({t \in S : t < s}) = i - 1
    BY DEF Sorted
  <2>3. Sorted(S)[i] \in S /\ Rank(S, Sorted(S)[i]) = i - 1
    BY <2>1, <2>2 DEF Rank
  <2> QED
    BY <2>3
<1>9. DOMAIN Sorted(S) = 1 .. n
  BY DEF Sorted
<1>10. Sorted(S) \in [1 .. n -> S]
  BY <1>8 DEF Sorted
<1> HIDE DEF rank, n
<1>11. IsInjective(Sorted(S))
  <2> SUFFICES ASSUME NEW i \in 1 .. n, NEW j \in 1 .. n, Sorted(S)[i] = Sorted(S)[j]
               PROVE  i = j
    BY <1>9 DEF IsInjective
  <2> QED
    BY <1>8
<1>12. \A s \in S : Sorted(S)[rank[s]] = s
  BY <1>2, <1>3, <1>8
<1>13. Range(Sorted(S)) = S
  <2>1. \A s \in S : s \in Range(Sorted(S))
    BY <1>2, <1>9, <1>12 DEF Range
  <2>2. \A s \in Range(Sorted(S)) : s \in S
    BY <1>8, <1>9 DEF Range
  <2> QED
    BY <2>1, <2>2
<1>14. Sorted(S) \in Seq(S)
  BY <1>1, <1>10, SeqDef
<1> QED
  BY <1>9, <1>11, <1>13, <1>14 DEF n
--------------------------------------------------------------------------------
(***************************************************************************)
(* Checkpoints.                                                             *)
(***************************************************************************)

LEMMA RowFields ==
  ASSUME NEW c \in Checkpoints
  PROVE  /\ c.names \in Seq(Sources) /\ c.complete \in BOOLEAN
         /\ c.row \in [Sources -> Row]
         /\ \A s \in Sources :
              /\ c.row[s] \in Row
              /\ c.row[s].offset \in Nat /\ c.row[s].scanned \in Nat
              /\ c.row[s].kept \in Nat /\ c.row[s].rejected \in Nat
BY DEF Checkpoints, Row

(* The names of a checkpoint are finitely many sources.                     *)
LEMMA NamesFinite ==
  ASSUME NEW c \in Checkpoints
  PROVE  /\ Range(c.names) \subseteq Sources
         /\ IsFiniteSet(Range(c.names))
<1>1. Range(c.names) \subseteq Sources
  BY RowFields, RangeOfSeq
<1> QED
  BY <1>1, FS_Subset, SourcesAssumption

LEMMA KeptType ==
  ASSUME NEW c \in Checkpoints
  PROVE  Kept(c) \in Nat
<1> DEFINE f == [s \in Range(c.names) |-> c.row[s].kept]
<1>1. IsFiniteSet(Range(c.names)) /\ f \in [Range(c.names) -> Nat]
  BY NamesFinite, RowFields
<1> QED
  BY <1>1, ThingsFinite DEF Kept

(* Sources without a row do not count.                                      *)
KeptOfAll(c) == Sum([s \in Sources |-> c.row[s].kept])

LEMMA KeptIsOfAll ==
  ASSUME NEW c \in Checkpoints, ZeroElsewhere(c)
  PROVE  Kept(c) = KeptOfAll(c)
<1> DEFINE f == [s \in Sources |-> c.row[s].kept]
           D == Range(c.names)
<1>1. f \in [Sources -> Nat] /\ D \in SUBSET Sources
  BY NamesFinite, RowFields
<1>2. \A s \in Sources \ D : f[s] = 0
  BY DEF ZeroElsewhere, ZeroRow
<1>3. [s \in D |-> f[s]] = [s \in D |-> c.row[s].kept]
  BY <1>1
<1> HIDE DEF f, D
<1>4. Sum([s \in D |-> f[s]]) = Sum(f)
  BY <1>1, <1>2, SumPart, SourcesAssumption
<1> QED
  BY <1>3, <1>4 DEF f, D, Kept, KeptOfAll

(* Checkpoints with the same counters keep the same.                        *)
LEMMA SameKept ==
  ASSUME NEW c \in Checkpoints, ZeroElsewhere(c),
         NEW d \in Checkpoints, ZeroElsewhere(d),
         \A s \in Sources : d.row[s].kept = c.row[s].kept
  PROVE  Kept(d) = Kept(c)
<1>1. [s \in Sources |-> d.row[s].kept] = [s \in Sources |-> c.row[s].kept]
  OBVIOUS
<1> QED
  BY <1>1, KeptIsOfAll DEF KeptOfAll

LEMMA NoneKept ==
  ASSUME NEW c \in Checkpoints, \A s \in Sources : c.row[s].kept = 0
  PROVE  Kept(c) = 0
<1> DEFINE f == [s \in Range(c.names) |-> c.row[s].kept]
<1>1. f \in [Range(c.names) -> Nat] /\ \A s \in Range(c.names) : f[s] = 0
  BY NamesFinite
<1> HIDE DEF f
<1>2. Sum(f) = 0
  BY <1>1, SumOfZeros
<1> QED
  BY <1>2 DEF f, Kept

(* A row that keeps d more.                                                 *)
LEMMA KeptChange ==
  ASSUME NEW c \in Checkpoints, ZeroElsewhere(c),
         NEW d \in Checkpoints, ZeroElsewhere(d), NEW x \in Sources,
         \A s \in Sources \ {x} : d.row[s].kept = c.row[s].kept
  PROVE  Kept(d) = Kept(c) + d.row[x].kept - c.row[x].kept
<1> DEFINE f == [s \in Sources |-> c.row[s].kept]
           g == [s \in Sources |-> d.row[s].kept]
<1>1. /\ f \in [Sources -> Nat] /\ g \in [Sources -> Nat]
      /\ \A s \in Sources \ {x} : g[s] = f[s]
      /\ g[x] = d.row[x].kept /\ f[x] = c.row[x].kept
  BY RowFields
<1> HIDE DEF f, g
<1>2. Sum(g) = Sum(f) + g[x] - f[x]
  BY <1>1, SumChange, SourcesAssumption
<1> QED
  BY <1>1, <1>2, KeptIsOfAll DEF f, g, KeptOfAll

LEMMA WithRowsFacts ==
  ASSUME NEW c \in Checkpoints, IsInjective(c.names), NEW S \in SUBSET Sources
  PROVE  /\ WithRows(c, S) \in Checkpoints
         /\ WithRows(c, S).row = c.row
         /\ WithRows(c, S).complete = c.complete
         /\ Range(WithRows(c, S).names) = Range(c.names) \cup S
         /\ IsInjective(WithRows(c, S).names)
<1> DEFINE old == c.names
           new == Sorted(S \ Range(old))
<1>1. old \in Seq(Sources) /\ Range(old) \subseteq Sources
  BY RowFields, NamesFinite
<1>2. S \ Range(old) \in SUBSET Nat /\ IsFiniteSet(S \ Range(old))
  BY <1>1, SourcesAssumption, FS_Subset
<1>3. /\ new \in Seq(S \ Range(old)) /\ Range(new) = S \ Range(old)
      /\ IsInjective(new)
  BY <1>2, SortedIsAll
<1>4. new \in Seq(Sources)
  BY <1>3, SeqMonotonic
<1>5. WithRows(c, S) = [c EXCEPT !.names = old \o new]
  BY DEF WithRows
<1> HIDE DEF new
<1>6. /\ old \o new \in Seq(Sources)
      /\ Len(old \o new) = Len(old) + Len(new)
      /\ \A i \in 1 .. Len(old) + Len(new) :
           (old \o new)[i] = IF i <= Len(old) THEN old[i] ELSE new[i - Len(old)]
  BY <1>1, <1>4, ConcatProperties
<1>7. Range(old \o new) = Range(old) \cup S
  <2>1. Range(old \o new) = Range(old) \cup Range(new)
    BY <1>1, <1>4, RangeConcatenation
  <2> QED
    BY <2>1, <1>3
<1>8. IsInjective(old \o new)
  <2> SUFFICES ASSUME NEW i \in 1 .. Len(old) + Len(new),
                      NEW j \in 1 .. Len(old) + Len(new),
                      (old \o new)[i] = (old \o new)[j]
               PROVE  i = j
    BY <1>6, LenProperties, SMTT(30) DEF IsInjective
  <2>1. Len(old) \in Nat /\ DOMAIN old = 1 .. Len(old)
    BY <1>1, LenProperties
  <2>2. Len(new) \in Nat /\ DOMAIN new = 1 .. Len(new)
    BY <1>4, LenProperties
  <2>3. \A k \in DOMAIN new : new[k] \notin Range(old)
    BY <1>3 DEF Range
  <2>4. \A k \in DOMAIN old : old[k] \in Range(old)
    BY DEF Range
  <2>5. CASE i <= Len(old) /\ j <= Len(old)
    <3>1. i \in DOMAIN old /\ j \in DOMAIN old /\ old[i] = old[j]
      BY <1>6, <2>1, <2>2, <2>5
    <3> QED
      BY <3>1 DEF IsInjective
  <2>6. CASE i > Len(old) /\ j > Len(old)
    <3>1. /\ i - Len(old) \in DOMAIN new /\ j - Len(old) \in DOMAIN new
          /\ new[i - Len(old)] = new[j - Len(old)]
      BY <1>6, <2>1, <2>2, <2>6
    <3>2. i - Len(old) = j - Len(old)
      BY <3>1, <1>3 DEF IsInjective
    <3> QED
      BY <3>2, <2>1
  <2>7. CASE i <= Len(old) /\ j > Len(old)
    <3>1. i \in DOMAIN old /\ j - Len(old) \in DOMAIN new /\ old[i] = new[j - Len(old)]
      BY <1>6, <2>1, <2>2, <2>7
    <3> QED
      BY <3>1, <2>3, <2>4
  <2>8. CASE i > Len(old) /\ j <= Len(old)
    <3>1. j \in DOMAIN old /\ i - Len(old) \in DOMAIN new /\ old[j] = new[i - Len(old)]
      BY <1>6, <2>1, <2>2, <2>8
    <3> QED
      BY <3>1, <2>3, <2>4
  <2> QED
    BY <2>1, <2>2, <2>5, <2>6, <2>7, <2>8
<1>9. /\ WithRows(c, S).names = old \o new /\ WithRows(c, S).row = c.row
      /\ WithRows(c, S).complete = c.complete
  BY <1>5 DEF Checkpoints
<1>10. WithRows(c, S) \in Checkpoints
  BY <1>5, <1>6 DEF Checkpoints
<1> QED
  BY <1>7, <1>8, <1>9, <1>10

LEMMA OnlyFacts ==
  ASSUME NEW names \in Seq(Sources), IsInjective(names), NEW S
  PROVE  /\ Only(names, S) \in Seq(Sources)
         /\ Range(Only(names, S)) = Range(names) \cap S
         /\ IsInjective(Only(names, S))
<1> DEFINE P == {i \in DOMAIN names : names[i] \in S}
           at == Sorted(P)
<1>1. Len(names) \in Nat /\ DOMAIN names = 1 .. Len(names)
  BY LenProperties
<1>2. P \in SUBSET Nat /\ IsFiniteSet(P)
  <2>1. P \in SUBSET (1 .. Len(names)) /\ IsFiniteSet(1 .. Len(names))
    BY <1>1, FS_Interval
  <2> QED
    BY <2>1, FS_Subset
<1>3. /\ at \in Seq(P) /\ Range(at) = P /\ IsInjective(at)
      /\ DOMAIN at = 1 .. Cardinality(P) /\ Cardinality(P) \in Nat
  BY <1>2, SortedIsAll, FS_CardinalityType
<1>4. Only(names, S) = [j \in DOMAIN at |-> names[at[j]]]
  BY DEF Only
<1> HIDE DEF at
<1>5. \A j \in DOMAIN at : at[j] \in P
  BY <1>3 DEF Range
<1>6. \A j \in DOMAIN at : names[at[j]] \in Sources
  BY <1>5, <1>1, ElementOfSeq
<1>7. Only(names, S) \in [1 .. Cardinality(P) -> Sources]
  BY <1>3, <1>4, <1>6
<1>8. Only(names, S) \in Seq(Sources)
  <2> DEFINE n == Cardinality(P)
  <2>1. n \in Nat /\ Only(names, S) \in [1 .. n -> Sources]
    BY <1>3, <1>7
  <2> HIDE DEF n
  <2> QED
    BY <2>1, SeqDef
<1>9. \A i \in P : \E j \in DOMAIN at : at[j] = i
  BY <1>3 DEF Range
<1>10. Range(Only(names, S)) = Range(names) \cap S
  <2>1. \A x : x \in Range(Only(names, S)) <=> \E j \in DOMAIN at : x = names[at[j]]
    BY <1>4 DEF Range
  <2>2. \A x : x \in Range(names) \cap S <=> \E i \in P : x = names[i]
    BY DEF Range
  <2> QED
    BY <1>5, <1>9, <2>1, <2>2
<1>11. IsInjective(Only(names, S))
  BY <1>3, <1>4, <1>5 DEF IsInjective
<1> QED
  BY <1>8, <1>10, <1>11

LEMMA ZeroRowType == ZeroRow \in Row
BY DEF ZeroRow, Row

LEMMA PrunedFacts ==
  ASSUME NEW c \in Checkpoints, IsInjective(c.names), NEW S \in SUBSET Sources
  PROVE  /\ Pruned(c, S) \in Checkpoints
         /\ \A s \in Sources :
              Pruned(c, S).row[s] = IF s \in S THEN c.row[s] ELSE ZeroRow
         /\ Pruned(c, S).complete = c.complete
         /\ Range(Pruned(c, S).names) = Range(c.names) \cap S
         /\ IsInjective(Pruned(c, S).names)
<1> DEFINE row == [s \in Sources |-> IF s \in S THEN c.row[s] ELSE ZeroRow]
<1>1. Pruned(c, S) = [c EXCEPT !.names = Only(c.names, S), !.row = row]
  BY DEF Pruned
<1>2. row \in [Sources -> Row]
  BY RowFields, ZeroRowType
<1>3. /\ Only(c.names, S) \in Seq(Sources)
      /\ Range(Only(c.names, S)) = Range(c.names) \cap S
      /\ IsInjective(Only(c.names, S))
  BY RowFields, OnlyFacts
<1>4. /\ Pruned(c, S).names = Only(c.names, S) /\ Pruned(c, S).row = row
      /\ Pruned(c, S).complete = c.complete
  BY <1>1 DEF Checkpoints
<1>5. Pruned(c, S) \in Checkpoints
  BY <1>1, <1>2, <1>3 DEF Checkpoints
<1> QED
  BY <1>3, <1>4, <1>5

(* The rounded shares are natural numbers, no greater than their parts.     *)
LEMMA RoundedDownFits ==
  ASSUME NEW c \in Checkpoints, NEW n \in Nat, NEW s \in Sources
  PROVE  /\ RoundedDown(c, n, s) \in Nat
         /\ Kept(c) * RoundedDown(c, n, s) <= n * c.row[s].kept
<1> DEFINE K == Kept(c)
           k == c.row[s].kept
<1>1. K \in Nat /\ k \in Nat
  BY KeptType, RowFields
<1>2. CASE K = 0
  BY <1>1, <1>2 DEF RoundedDown
<1>3. CASE K # 0
  <2>1. RoundedDown(c, n, s) = (k * n) \div K
    BY <1>3 DEF RoundedDown
  <2>2. k * n \in Nat /\ k * n = n * k
    BY <1>1
  <2>3. \A a \in Nat, b \in Nat \ {0} : a \div b \in Nat /\ b * (a \div b) <= a
    OBVIOUS
  <2> HIDE DEF K, k
  <2>4. (k * n) \div K \in Nat /\ K * ((k * n) \div K) <= k * n
    BY <1>1, <1>3, <2>2, <2>3
  <2> QED
    BY <2>1, <2>2, <2>4 DEF K, k
<1> QED
  BY <1>2, <1>3

LEMMA ContainsIsRange ==
  ASSUME NEW c \in Checkpoints, NEW s
  PROVE  Contains(c.names, s) <=> s \in Range(c.names)
<1>1. DOMAIN c.names = 1 .. Len(c.names)
  BY RowFields, LenProperties
<1> QED
  BY <1>1 DEF Contains, Range

(* The shares of n rows are natural numbers, and they are all of n: the     *)
(* rounded ones leave something for the last source, or nothing.            *)
LEMMA SharesAreAll ==
  ASSUME NEW c \in Checkpoints, c.names # <<>>, NEW n \in Nat
  PROVE  /\ Shares(c, n) \in [Sources -> Nat]
         /\ \A s \in Sources \ Range(c.names) : Shares(c, n)[s] = 0
         /\ Sum([s \in Range(c.names) |-> Shares(c, n)[s]]) = n
<1> DEFINE D == Range(c.names)
           l == Last(c.names)
           E == D \ {l}
           f == [s \in D |-> c.row[s].kept]
           g == [s \in E |-> RoundedDown(c, n, s)]
           h == [s \in D |-> Shares(c, n)[s]]
<1>1. IsFiniteSet(D) /\ D \subseteq Sources
  BY NamesFinite
<1>2. l \in D
  <2>1. c.names \in Seq(Sources) /\ Len(c.names) \in Nat /\ Len(c.names) # 0
    BY RowFields, EmptySeq, LenProperties
  <2>2. Len(c.names) \in DOMAIN c.names
    BY <2>1, LenProperties
  <2> QED
    BY <2>2 DEF Last, Range
<1>3. f \in [D -> Nat] /\ Sum(f) = Kept(c) /\ Kept(c) \in Nat
  BY <1>1, RowFields, KeptType DEF Kept
<1>4. IsFiniteSet(E) /\ E \in SUBSET D
  BY <1>1, FS_RemoveElement
<1>5. \A s \in E : RoundedDown(c, n, s) \in Nat
  BY <1>1, RoundedDownFits
<1>6. g \in [E -> Nat] /\ Sum(g) \in Nat
  BY <1>4, <1>5, ThingsFinite
<1>7. Sum(g) <= n
  <2>1. CASE Kept(c) = 0
    <3>1. \A s \in E : g[s] = 0
      BY <2>1 DEF RoundedDown
    <3> QED
      BY <1>6, <3>1, SumOfZeros
  <2>2. CASE Kept(c) # 0
    <3> DEFINE fe == [s \in E |-> f[s]]
    <3>1. fe \in [E -> Nat] /\ Sum(fe) \in Nat /\ Sum(fe) <= Kept(c)
      BY <1>1, <1>3, <1>4, SumPart, ThingsFinite
    <3>2. \A s \in E : Kept(c) * g[s] <= n * fe[s]
      BY <1>1, <1>4, RoundedDownFits
    <3> HIDE DEF fe, g
    <3>3. Kept(c) * Sum(g) <= n * Sum(fe)
      BY <1>3, <1>4, <1>6, <3>1, <3>2, SumInProportion
    <3>4. \A a, b, x, y \in Nat : a # 0 /\ a * x <= b * y /\ y <= a => x <= b
      <4> SUFFICES ASSUME NEW a \in Nat, NEW b \in Nat, NEW x \in Nat, NEW y \in Nat,
                          a # 0, a * x <= b * y, y <= a, x > b
                   PROVE  FALSE
        OBVIOUS
      <4>1. b * y <= b * a
        OBVIOUS
      <4>2. a * x >= a * (b + 1)
        OBVIOUS
      <4>3. a * (b + 1) = b * a + a
        OBVIOUS
      <4> QED
        BY <4>1, <4>2, <4>3
    <3> QED
      BY <1>3, <1>6, <2>2, <3>1, <3>3, <3>4
  <2> QED
    BY <2>1, <2>2
<1>8. \A s \in E : Shares(c, n)[s] = RoundedDown(c, n, s)
  <2> SUFFICES ASSUME NEW s \in E PROVE Shares(c, n)[s] = RoundedDown(c, n, s)
    OBVIOUS
  <2>1. Contains(c.names, s) /\ s \in Sources
    BY <1>1, ContainsIsRange
  <2> QED
    BY <2>1 DEF Shares, Share
<1>9. Shares(c, n)[l] = n - Sum(g)
  <2>1. Contains(c.names, l) /\ l \in Sources
    BY <1>1, <1>2, ContainsIsRange
  <2> QED
    BY <2>1 DEF Shares, Share
<1>10. \A s \in Sources \ D : Shares(c, n)[s] = 0
  BY ContainsIsRange DEF Shares
<1> HIDE DEF D, l, f, g
<1>11. \A s \in Sources : Shares(c, n)[s] \in Nat
  <2>1. n - Sum(g) \in Nat
    BY <1>6, <1>7
  <2> QED
    BY <1>5, <1>8, <1>9, <1>10, <2>1
<1>12. Shares(c, n) \in [Sources -> Nat]
  BY <1>11 DEF Shares
<1>13. Sum(h) = n
  <2>1. h \in [D -> Nat] /\ h[l] = Shares(c, n)[l]
    BY <1>1, <1>2, <1>11
  <2>2. [s \in D \ {l} |-> h[s]] = g
    BY <1>8 DEF g
  <2> HIDE DEF h
  <2>3. Sum(h) = Sum(g) + h[l]
    BY <1>1, <1>2, <2>1, <2>2, SumSplit
  <2> QED
    BY <1>6, <1>9, <2>1, <2>3
<1> QED
  BY <1>10, <1>12, <1>13 DEF D

(* What reconcile_checkpoint_output makes of a row.                         *)
Surplus(c, s) ==
  IF Len(out) > Kept(c) THEN Shares(c, Len(out))[s] - c.row[s].kept ELSE 0

LEMMA RowOf ==
  ASSUME NEW a \in Nat, NEW b \in Nat, NEW k \in Nat, NEW r \in Nat
  PROVE  [offset |-> a, scanned |-> b, kept |-> k, rejected |-> r] \in Row
BY DEF Row

LEMMA ReconciledRow ==
  ASSUME NEW c \in Checkpoints, Len(out) # Kept(c)
  PROVE  /\ Reconciled(c).names = c.names
         /\ Reconciled(c).complete = c.complete
         /\ Reconciled(c) = [c EXCEPT !.row = Reconciled(c).row]
         /\ Reconciled(c).row = [s \in Sources |-> Reconciled(c).row[s]]
         /\ \A s \in Sources :
              /\ Reconciled(c).row[s] =
                   [offset |-> c.row[s].offset,
                    scanned |-> c.row[s].scanned + Surplus(c, s),
                    kept |-> Shares(c, Len(out))[s],
                    rejected |-> c.row[s].rejected]
              /\ Reconciled(c).row[s].offset = c.row[s].offset
              /\ Reconciled(c).row[s].scanned = c.row[s].scanned + Surplus(c, s)
              /\ Reconciled(c).row[s].kept = Shares(c, Len(out))[s]
              /\ Reconciled(c).row[s].rejected = c.row[s].rejected
<1> DEFINE kept == Shares(c, Len(out))
           surplus(s) == IF Len(out) > Kept(c) THEN kept[s] - c.row[s].kept ELSE 0
           row == [s \in Sources |->
                     [c.row[s] EXCEPT !.scanned = @ + surplus(s), !.kept = kept[s]]]
<1>1. Reconciled(c) = [c EXCEPT !.row = row]
  BY DEF Reconciled
<1>2. /\ Reconciled(c).names = c.names /\ Reconciled(c).complete = c.complete
      /\ Reconciled(c).row = row
  BY <1>1 DEF Checkpoints
<1>3. \A s \in Sources :
        row[s] = [offset |-> c.row[s].offset, scanned |-> c.row[s].scanned + Surplus(c, s),
                  kept |-> kept[s], rejected |-> c.row[s].rejected]
  <2> SUFFICES ASSUME NEW s \in Sources
               PROVE  row[s] = [offset |-> c.row[s].offset,
                                scanned |-> c.row[s].scanned + Surplus(c, s),
                                kept |-> kept[s], rejected |-> c.row[s].rejected]
    OBVIOUS
  <2>1. c.row[s] \in [offset : Nat, scanned : Nat, kept : Nat, rejected : Nat]
    BY RowFields DEF Row
  <2>2. surplus(s) = Surplus(c, s)
    BY DEF Surplus
  <2> QED
    BY <2>1, <2>2
<1>4. \A s \in Sources :
        /\ row[s].offset = c.row[s].offset
        /\ row[s].scanned = c.row[s].scanned + Surplus(c, s)
        /\ row[s].kept = kept[s] /\ row[s].rejected = c.row[s].rejected
  <2> HIDE DEF row, kept
  <2> SUFFICES ASSUME NEW s \in Sources
               PROVE  /\ row[s].offset = c.row[s].offset
                      /\ row[s].scanned = c.row[s].scanned + Surplus(c, s)
                      /\ row[s].kept = kept[s] /\ row[s].rejected = c.row[s].rejected
    OBVIOUS
  <2> QED
    <3>1. row[s] = [offset |-> c.row[s].offset, scanned |-> c.row[s].scanned + Surplus(c, s),
                    kept |-> kept[s], rejected |-> c.row[s].rejected]
      BY <1>3
    <3> QED
      BY <3>1
<1>5. row = [s \in Sources |-> row[s]]
  OBVIOUS
<1> HIDE DEF row, kept
<1> QED
  BY <1>1, <1>2, <1>3, <1>4, <1>5 DEF kept

(* The sharing gives a checkpoint whose counters sum up to the output.      *)
LEMMA ReconciledFacts ==
  ASSUME NEW c \in Checkpoints, c.names # <<>>, ZeroElsewhere(c), Scanned(c),
         out \in Seq(Contents)
  PROVE  /\ Reconciled(c) \in Checkpoints
         /\ Reconciled(c).names = c.names
         /\ Reconciled(c).complete = c.complete
         /\ \A s \in Sources : Reconciled(c).row[s].offset = c.row[s].offset
         /\ ZeroElsewhere(Reconciled(c))
         /\ Kept(Reconciled(c)) = Len(out)
<1> DEFINE n == Len(out)
           d == Reconciled(c)
<1>1. n \in Nat /\ Kept(c) \in Nat
  BY KeptType, LenProperties
<1>2. CASE n = Kept(c)
  BY <1>2, <1>1 DEF Reconciled
<1>3. CASE n # Kept(c)
  <2>1. /\ Shares(c, n) \in [Sources -> Nat]
        /\ \A s \in Sources \ Range(c.names) : Shares(c, n)[s] = 0
        /\ Sum([s \in Range(c.names) |-> Shares(c, n)[s]]) = n
    BY <1>1, SharesAreAll
  <2>2. /\ d.names = c.names /\ d.complete = c.complete
        /\ d = [c EXCEPT !.row = d.row]
        /\ d.row = [s \in Sources |-> d.row[s]]
    BY <1>3, ReconciledRow
  <2>3. \A s \in Sources :
          /\ d.row[s] = [offset |-> c.row[s].offset,
                         scanned |-> c.row[s].scanned + Surplus(c, s),
                         kept |-> Shares(c, n)[s], rejected |-> c.row[s].rejected]
          /\ d.row[s].offset = c.row[s].offset
          /\ d.row[s].kept = Shares(c, n)[s]
    BY <1>3, ReconciledRow
  <2> HIDE DEF d
  <2>4. d.row \in [Sources -> Row]
    <3> SUFFICES ASSUME NEW s \in Sources PROVE d.row[s] \in Row
      BY <2>2
    <3>1. /\ c.row[s].offset \in Nat /\ c.row[s].scanned \in Nat
          /\ c.row[s].kept \in Nat /\ c.row[s].rejected \in Nat
          /\ c.row[s].scanned >= c.row[s].kept + c.row[s].rejected
      BY RowFields DEF Scanned
    <3>2. Shares(c, n)[s] \in Nat
      BY <2>1
    <3>3. c.row[s].scanned + Surplus(c, s) \in Nat
      <4>1. Surplus(c, s) = Shares(c, n)[s] - c.row[s].kept \/ Surplus(c, s) = 0
        BY DEF Surplus
      <4> QED
        BY <3>1, <3>2, <4>1, SMTT(30)
    <3>4. d.row[s] = [offset |-> c.row[s].offset,
                     scanned |-> c.row[s].scanned + Surplus(c, s),
                     kept |-> Shares(c, n)[s], rejected |-> c.row[s].rejected]
      BY <2>3
    <3> QED
      BY <3>1, <3>2, <3>3, <3>4, RowOf, ZenonT(60)
  <2> HIDE DEF n
  <2>5. d \in Checkpoints
    BY <2>2, <2>4 DEF Checkpoints
  <2>6. \A s \in Sources : d.row[s].offset = c.row[s].offset
                           /\ d.row[s].kept = Shares(c, n)[s]
    BY <2>3
  <2>7. ZeroElsewhere(d)
    <3> SUFFICES ASSUME NEW s \in Sources \ Range(c.names) PROVE d.row[s] = ZeroRow
      BY <2>2 DEF ZeroElsewhere
    <3>1. /\ c.row[s].offset = 0 /\ c.row[s].scanned = 0
          /\ c.row[s].kept = 0 /\ c.row[s].rejected = 0
      BY DEF ZeroElsewhere, ZeroRow
    <3>2. Shares(c, n)[s] = 0
      BY <2>1
    <3>3. Surplus(c, s) = 0
      BY <3>1, <3>2 DEF Surplus, n
    <3>4. d.row[s] = [offset |-> 0, scanned |-> 0 + 0, kept |-> 0, rejected |-> 0]
      BY <2>3, <3>1, <3>2, <3>3
    <3> QED
      BY <3>4 DEF ZeroRow
  <2>8. [s \in Range(d.names) |-> d.row[s].kept]
          = [s \in Range(c.names) |-> Shares(c, n)[s]]
    BY <2>2, <2>6, NamesFinite
  <2>9. Kept(d) = n
    BY <2>1, <2>8 DEF Kept
  <2> QED
    BY <2>2, <2>5, <2>6, <2>7, <2>9 DEF d, n
<1> QED
  BY <1>2, <1>3

(* A checkpoint that is let in after the sharing did not count rows that    *)
(* are not there, and added up before.                                      *)
LEMMA LetInAddsUp ==
  ASSUME NEW c \in Checkpoints, c.names # <<>>, ZeroElsewhere(c), Scanned(c),
         out \in Seq(Contents), Accounted(Reconciled(c))
  PROVE  Kept(c) <= Len(out) /\ AddUp(c)
<1> DEFINE n == Len(out)
           d == Reconciled(c)
           D == Range(c.names)
<1>1. n \in Nat /\ Kept(c) \in Nat /\ D \subseteq Sources /\ IsFiniteSet(D)
  BY KeptType, NamesFinite, LenProperties
<1>2. CASE n = Kept(c)
  BY <1>1, <1>2 DEF Reconciled, Accounted
<1>3. CASE n # Kept(c)
  <2>1. d \in Checkpoints /\ d.names = c.names /\ Kept(d) = n
    BY ReconciledFacts
  <2>3. \A s \in D : d.row[s].scanned = d.row[s].kept + d.row[s].rejected
    BY <2>1 DEF Accounted, AddUp
  <2>4. \A s \in D : /\ c.row[s].scanned \in Nat /\ c.row[s].kept \in Nat
                     /\ c.row[s].rejected \in Nat /\ d.row[s].kept \in Nat
                     /\ c.row[s].scanned >= c.row[s].kept + c.row[s].rejected
    BY <1>1, <2>1, RowFields DEF Scanned
  <2>5. \A s \in D : /\ d.row[s].rejected = c.row[s].rejected
                     /\ d.row[s].kept = Shares(c, n)[s]
                     /\ d.row[s].scanned = c.row[s].scanned + Surplus(c, s)
                     /\ Surplus(c, s) = IF n > Kept(c)
                                        THEN Shares(c, n)[s] - c.row[s].kept ELSE 0
    BY <1>1, <1>3, ReconciledRow DEF Surplus
  <2> HIDE DEF d, n, D
  <2>6. CASE n < Kept(c)
    <3>1. \A s \in D : c.row[s].kept <= d.row[s].kept
      <4> SUFFICES ASSUME NEW s \in D PROVE c.row[s].kept <= d.row[s].kept
        OBVIOUS
      <4>1. d.row[s].scanned = c.row[s].scanned
        BY <1>1, <2>4, <2>5, <2>6
      <4> QED
        BY <2>3, <2>4, <2>5, <4>1
    <3> DEFINE f == [s \in D |-> c.row[s].kept]
               g == [s \in D |-> d.row[s].kept]
    <3>2. f \in [D -> Nat] /\ g \in [D -> Nat] /\ \A s \in D : f[s] <= g[s]
      BY <2>4, <3>1
    <3> HIDE DEF f, g
    <3>3. Sum(f) <= Sum(g)
      BY <1>1, <3>2, SumMonotone
    <3>4. Sum(f) = Kept(c) /\ Sum(g) = Kept(d)
      BY <2>1 DEF f, g, D, Kept
    <3> QED
      BY <1>1, <2>1, <2>6, <3>3, <3>4
  <2>7. CASE n > Kept(c)
    <3>1. \A s \in D : c.row[s].scanned = c.row[s].kept + c.row[s].rejected
      <4> SUFFICES ASSUME NEW s \in D
                   PROVE  c.row[s].scanned = c.row[s].kept + c.row[s].rejected
        OBVIOUS
      <4>1. Surplus(c, s) = d.row[s].kept - c.row[s].kept
        BY <2>5, <2>7
      <4>2. d.row[s].scanned = c.row[s].scanned + (d.row[s].kept - c.row[s].kept)
        BY <2>5, <4>1
      <4> QED
        <5>1. d.row[s].scanned = d.row[s].kept + c.row[s].rejected
          BY <2>3, <2>5
        <5>2. /\ c.row[s].scanned \in Nat /\ c.row[s].kept \in Nat
              /\ c.row[s].rejected \in Nat /\ d.row[s].kept \in Nat
          BY <2>4
        <5> QED
          BY <4>2, <5>1, <5>2, SMTT(30)
    <3> QED
      BY <1>1, <2>7, <3>1 DEF AddUp, D, n
  <2> QED
    BY <1>1, <1>3, <2>6, <2>7
<1> QED
  BY <1>2, <1>3

(* A checkpoint that adds up is let in when the output is ahead of it.      *)
LEMMA AheadIsLetIn ==
  ASSUME NEW c \in Checkpoints, c.names # <<>>, ZeroElsewhere(c), AddUp(c),
         Scanned(c), out \in Seq(Contents), Len(out) >= Kept(c)
  PROVE  Accounted(Reconciled(c))
<1> DEFINE n == Len(out)
           d == Reconciled(c)
<1>1. n \in Nat /\ Kept(c) \in Nat /\ Range(c.names) \subseteq Sources
  BY KeptType, NamesFinite, LenProperties
<1>2. CASE n = Kept(c)
  BY <1>2 DEF Reconciled, Accounted
<1>3. CASE n # Kept(c)
  <2>1. d \in Checkpoints /\ d.names = c.names /\ Kept(d) = n
    BY ReconciledFacts
  <2>2. \A s \in Sources : /\ d.row[s].rejected = c.row[s].rejected
                           /\ d.row[s].kept = Shares(c, n)[s]
                           /\ d.row[s].scanned = c.row[s].scanned + Surplus(c, s)
    BY <1>3, ReconciledRow
  <2> HIDE DEF d
  <2>3. ASSUME NEW s \in Range(c.names)
        PROVE  d.row[s].scanned = d.row[s].kept + d.row[s].rejected
    <3>1. /\ c.row[s].scanned \in Nat /\ c.row[s].kept \in Nat
          /\ c.row[s].rejected \in Nat /\ d.row[s].kept \in Nat
          /\ c.row[s].scanned = c.row[s].kept + c.row[s].rejected
      BY <1>1, <2>1, RowFields DEF AddUp
    <3>2. /\ d.row[s].rejected = c.row[s].rejected
          /\ d.row[s].kept = Shares(c, n)[s]
          /\ d.row[s].scanned = c.row[s].scanned + (Shares(c, n)[s] - c.row[s].kept)
      <4>1. n > Kept(c)
        BY <1>1, <1>3
      <4>2. Surplus(c, s) = Shares(c, n)[s] - c.row[s].kept
        BY <4>1 DEF Surplus
      <4> QED
        BY <1>1, <2>2, <4>2
    <3> QED
      BY <3>1, <3>2
  <2> QED
    BY <2>1, <2>3 DEF Accounted, AddUp, d
<1> QED
  BY <1>2, <1>3
--------------------------------------------------------------------------------
(***************************************************************************)
(* How a session begins.                                                    *)
(***************************************************************************)

(* What all three ways of beginning make of the memory: d is the checkpoint *)
(* that is continued, S the sources of the session.                         *)
Begins(d, S) ==
  /\ ~Alive
  /\ S \subseteq present /\ S # {} /\ (~incremental => S = present)
  /\ d \in Checkpoints /\ IsInjective(d.names) /\ ZeroElsewhere(d)
  /\ Range(d.names) \subseteq S /\ ~d.complete
  /\ \A s \in S : d.row[s].offset = saved.row[s].offset
  /\ AddUp(d)
  /\ cp' \in Checkpoints /\ IsInjective(cp'.names) /\ Range(cp'.names) = S
  /\ cp'.row = d.row /\ cp'.complete = d.complete
  /\ next' = [s \in Sources |-> d.row[s].offset]
  /\ begun' = [s \in Sources |-> d.row[s].offset]
  /\ exhausted' = {} /\ tick' = 0 /\ filter' = S /\ pc' = "merging"
  /\ sessions < MaxSessions /\ sessions' = sessions + 1
  /\ UNCHANGED <<fileVars, saved, buffer, feed>>

(* And what each of them does to the output.                                *)
BeginsEmpty(d, S) ==
  /\ \A s \in S : d.row[s].offset = 0
  /\ \A s \in S : d.row[s] = saved.row[s]
  /\ out' = <<>> /\ known' = {} /\ foreign' = 0 - Kept(d)
  /\ cleared' = (cleared \/ Resuming(saved, Sources))

BeginsAppending(d, S) ==
  /\ incremental
  /\ \A s \in S : d.row[s].offset = 0
  /\ known' = Range(out) /\ foreign' = Len(out) - Kept(d)
  /\ UNCHANGED <<out, cleared>>

BeginsResumed(d, S) ==
  /\ \E s \in S : d.row[s].offset > 0
  /\ Kept(d) = Len(out)
  /\ ~incremental => AddUp(saved) /\ Kept(saved) <= Len(out)
  /\ known' = Range(out) /\ foreign' = 0
  /\ UNCHANGED <<out, cleared>>

(* The part of the checkpoint on disk that a session goes on with.          *)
Loaded(c, S) ==
  /\ c \in Checkpoints /\ IsInjective(c.names) /\ ZeroElsewhere(c)
  /\ Range(c.names) = Range(saved.names) \cap S /\ ~c.complete
  /\ \A s \in S : c.row[s] = saved.row[s]

LEMMA LoadedFacts ==
  ASSUME Typed, Counters, NEW S \in SUBSET Sources
  PROVE  /\ ~saved.complete => Loaded(Pruned(saved, S), S)
         /\ Loaded([Pruned(saved, S) EXCEPT !.complete = FALSE], S)
<1> DEFINE c == Pruned(saved, S)
           d == [c EXCEPT !.complete = FALSE]
<1>1. /\ c \in Checkpoints /\ IsInjective(c.names)
      /\ c.complete = saved.complete
      /\ Range(c.names) = Range(saved.names) \cap S
      /\ \A s \in Sources : c.row[s] = IF s \in S THEN saved.row[s] ELSE ZeroRow
  <2>1. saved \in Checkpoints /\ IsInjective(saved.names)
    BY DEF Typed
  <2> QED
    BY <2>1, PrunedFacts
<1> HIDE DEF c
<1>2. /\ d \in Checkpoints /\ d.names = c.names /\ d.row = c.row /\ ~d.complete
  BY <1>1 DEF Checkpoints
<1>3. ZeroElsewhere(c)
  BY <1>1 DEF ZeroElsewhere, Counters
<1>4. ZeroElsewhere(d)
  BY <1>2, <1>3 DEF ZeroElsewhere
<1>5. \A s \in S : c.row[s] = saved.row[s]
  BY <1>1
<1> HIDE DEF d
<1> QED
  BY <1>1, <1>2, <1>3, <1>4, <1>5 DEF Loaded, c, d

LEMMA LoadedScanned ==
  ASSUME Counters, NEW S \in SUBSET Sources, NEW c, Loaded(c, S)
  PROVE  Scanned(c)
<1> SUFFICES ASSUME NEW s \in Sources
             PROVE  /\ c.row[s].scanned >= c.row[s].kept + c.row[s].rejected
                    /\ c.row[s].offset = 0 =>
                         c.row[s].scanned = c.row[s].kept + c.row[s].rejected
  BY DEF Scanned
<1>1. CASE s \in S
  BY <1>1 DEF Loaded, Counters, Scanned
<1>2. CASE s \notin S
  <2>1. c.row[s] = ZeroRow
    BY <1>2 DEF Loaded, ZeroElsewhere
  <2> QED
    BY <2>1 DEF ZeroRow
<1> QED
  BY <1>1, <1>2

LEMMA BeginMakesSession ==
  ASSUME ~Alive, NEW S \in SUBSET present, present \subseteq Sources, S # {},
         ~incremental => S = present,
         NEW d \in Checkpoints, IsInjective(d.names), ZeroElsewhere(d),
         Range(d.names) \subseteq S, ~d.complete,
         \A s \in S : d.row[s].offset = saved.row[s].offset,
         AddUp(d), Begin(d, S), CanStart(S)
  PROVE  Begins(d, S)
<1>1. cp' = WithRows(d, S) /\ S \in SUBSET Sources
  BY DEF Begin, OpenSources
<1>2. /\ cp' \in Checkpoints /\ cp'.row = d.row /\ cp'.complete = d.complete
      /\ Range(cp'.names) = Range(d.names) \cup S /\ IsInjective(cp'.names)
  BY <1>1, WithRowsFacts
<1>3. Range(cp'.names) = S
  BY <1>2
<1> QED
  BY <1>2, <1>3 DEF Begins, Begin, OpenSources, CanStart

LEMMA NothingReadAddsUp ==
  ASSUME NEW c \in Checkpoints, Scanned(c), NEW S \in SUBSET Sources,
         Range(c.names) \subseteq S, \A s \in S : c.row[s].offset = 0
  PROVE  AddUp(c)
BY DEF AddUp, Scanned

LEMMA ResumingFacts ==
  ASSUME NEW c \in Checkpoints, NEW S \in SUBSET Sources
  PROVE  ~Resuming(c, S) <=> \A s \in S : c.row[s].offset = 0
<1>1. \A s \in S : c.row[s].offset \in Nat
  BY RowFields
<1> QED
  BY <1>1 DEF Resuming

LEMMA AskedForFacts ==
  ASSUME NEW c, NEW S \in SUBSET Sources
  PROVE  AskedFor(c, S) \in SUBSET S
BY DEF AskedFor

(* A checkpoint that is asked for offsets, and continued.                   *)
LEMMA AskedFacts ==
  ASSUME Typed, Counters, NEW S \in SUBSET Sources, NEW c, Loaded(c, S), Resuming(c, S)
  PROVE  LET asked == WithRows(c, AskedFor(c, S))
         IN /\ asked \in Checkpoints /\ asked.names # <<>> /\ asked.row = c.row
            /\ asked.complete = c.complete
            /\ IsInjective(asked.names) /\ ZeroElsewhere(asked) /\ Scanned(asked)
            /\ Range(c.names) \subseteq Range(asked.names)
            /\ Range(asked.names) \subseteq S
<1> DEFINE A == AskedFor(c, S)
           asked == WithRows(c, A)
<1>1. c \in Checkpoints /\ IsInjective(c.names) /\ A \in SUBSET Sources /\ A \subseteq S
  BY AskedForFacts DEF Loaded
<1>2. /\ asked \in Checkpoints /\ asked.row = c.row /\ asked.complete = c.complete
      /\ Range(asked.names) = Range(c.names) \cup A
      /\ IsInjective(asked.names)
  BY <1>1, WithRowsFacts
<1>3. ZeroElsewhere(asked)
  BY <1>2 DEF ZeroElsewhere, Loaded
<1>4. Scanned(asked)
  BY <1>2, LoadedScanned DEF Scanned
<1>5. asked.names # <<>>
  <2>1. PICK s \in S : c.row[s].offset > 0
    BY DEF Resuming
  <2>2. s \in Range(c.names)
    BY <2>1 DEF Loaded, ZeroElsewhere, ZeroRow
  <2>3. Range(<<>>) = {}
    BY DEF Range
  <2> QED
    BY <1>2, <2>2, <2>3
<1>6. Range(asked.names) \subseteq S
  BY <1>1, <1>2 DEF Loaded
<1> QED
  BY <1>2, <1>3, <1>4, <1>5, <1>6

(* A merge that starts begins a session in one of the three ways.           *)
LEMMA SessionBegins ==
  ASSUME Typed, Counters,
         Start \/ \E S \in SUBSET present : StartIncremental(S)
  PROVE  \E S \in SUBSET present, d \in Checkpoints :
           /\ Begins(d, S)
           /\ BeginsEmpty(d, S) \/ BeginsAppending(d, S) \/ BeginsResumed(d, S)
<1>1. PICK S \in SUBSET present, c \in Checkpoints :
        /\ CanStart(S) /\ (~incremental => S = present) /\ Loaded(c, S)
        /\ \/ BeginEmpty(c, S)
           \/ incremental /\ BeginAppending(c, S)
           \/ BeginResumed(c, S)
  <2>1. CASE Start
    <3>1. ~saved.complete /\ CanStart(present)
          /\ (BeginEmpty(Pruned(saved, present), present)
              \/ BeginResumed(Pruned(saved, present), present))
      BY <2>1 DEF Start
    <3>2. Loaded(Pruned(saved, present), present)
      BY <3>1, LoadedFacts DEF Typed
    <3>3. Pruned(saved, present) \in Checkpoints
      BY <3>2 DEF Loaded
    <3> QED
      BY <3>1, <3>2, <3>3
  <2>2. ASSUME NEW T \in SUBSET present, StartIncremental(T)
        PROVE  \E S \in SUBSET present, c \in Checkpoints :
                 /\ CanStart(S) /\ (~incremental => S = present) /\ Loaded(c, S)
                 /\ \/ BeginEmpty(c, S)
                    \/ incremental /\ BeginAppending(c, S)
                    \/ BeginResumed(c, S)
    <3> DEFINE e == [Pruned(saved, T) EXCEPT !.complete = FALSE]
    <3>1. incremental /\ CanStart(T)
          /\ (BeginEmpty(e, T) \/ BeginAppending(e, T) \/ BeginResumed(e, T))
      BY <2>2 DEF StartIncremental
    <3>2. T \in SUBSET Sources
      BY DEF Typed
    <3>3. Loaded(e, T)
      BY <3>2, LoadedFacts
    <3>4. e \in Checkpoints
      BY <3>3 DEF Loaded
    <3> QED
      BY <3>1, <3>3, <3>4
  <2> QED
    BY <2>1, <2>2
<1>2. /\ ~Alive /\ S # {} /\ S \in SUBSET Sources /\ present \subseteq Sources
  BY <1>1 DEF CanStart, Typed
<1>3. /\ IsInjective(c.names) /\ ZeroElsewhere(c) /\ Range(c.names) \subseteq S
      /\ ~c.complete /\ \A s \in S : c.row[s] = saved.row[s]
  BY <1>1 DEF Loaded
<1>4. Scanned(c)
  BY <1>1, <1>2, LoadedScanned
<1>5. CASE BeginEmpty(c, S)
  <2>1. Begin(c, S) /\ \A s \in S : c.row[s].offset = 0
    BY <1>2, <1>5, ResumingFacts DEF BeginEmpty
  <2>2. AddUp(c)
    BY <1>2, <1>3, <1>4, <2>1, NothingReadAddsUp
  <2>3. Begins(c, S)
    BY <1>1, <1>2, <1>3, <2>1, <2>2, BeginMakesSession
  <2>4. BeginsEmpty(c, S)
    BY <1>3, <1>5, <2>1 DEF BeginEmpty, BeginsEmpty
  <2> QED
    BY <2>3, <2>4
<1>6. CASE incremental /\ BeginAppending(c, S)
  <2>1. Begin(c, S) /\ \A s \in S : c.row[s].offset = 0
    BY <1>2, <1>6, ResumingFacts DEF BeginAppending
  <2>2. AddUp(c)
    BY <1>2, <1>3, <1>4, <2>1, NothingReadAddsUp
  <2>3. Begins(c, S)
    BY <1>1, <1>2, <1>3, <2>1, <2>2, BeginMakesSession
  <2>4. BeginsAppending(c, S)
    BY <1>6, <2>1 DEF BeginAppending, BeginsAppending
  <2> QED
    BY <2>3, <2>4
<1>7. CASE BeginResumed(c, S)
  <2> DEFINE asked == WithRows(c, AskedFor(c, S))
             d == Reconciled(asked)
  <2>1. /\ Resuming(c, S) /\ Accounted(d) /\ Begin(d, S)
        /\ known' = Range(out) /\ foreign' = 0 /\ UNCHANGED <<out, cleared>>
    BY <1>7 DEF BeginResumed
  <2>2. /\ asked \in Checkpoints /\ asked.names # <<>> /\ asked.row = c.row
        /\ asked.complete = c.complete
        /\ IsInjective(asked.names) /\ ZeroElsewhere(asked) /\ Scanned(asked)
        /\ Range(c.names) \subseteq Range(asked.names)
        /\ Range(asked.names) \subseteq S
    BY <1>1, <1>2, <2>1, AskedFacts
  <2> HIDE DEF asked
  <2>3. out \in Seq(Contents)
    BY DEF Typed
  <2>4. /\ d \in Checkpoints /\ d.names = asked.names /\ d.complete = asked.complete
        /\ \A s \in Sources : d.row[s].offset = asked.row[s].offset
        /\ ZeroElsewhere(d) /\ Kept(d) = Len(out)
    BY <2>2, <2>3, ReconciledFacts
  <2>5. Kept(asked) <= Len(out) /\ AddUp(asked)
    BY <2>1, <2>2, <2>3, LetInAddsUp
  <2>6. AddUp(d)
    BY <2>1 DEF Accounted
  <2> HIDE DEF d
  <2>7. \A s \in S : d.row[s].offset = saved.row[s].offset
    BY <1>2, <1>3, <2>2, <2>4
  <2>8. Begins(d, S)
    BY <1>1, <1>2, <1>3, <2>1, <2>2, <2>4, <2>6, <2>7, BeginMakesSession
  <2>9. \E s \in S : d.row[s].offset > 0
    BY <1>2, <2>1, <2>2, <2>4 DEF Resuming
  <2>10. ASSUME ~incremental PROVE AddUp(saved) /\ Kept(saved) <= Len(out)
    <3>1. S = present /\ Range(saved.names) \subseteq S
      BY <1>1, <2>10 DEF Counters
    <3>2. Range(saved.names) \subseteq Range(asked.names)
      BY <1>1, <2>2, <3>1 DEF Loaded
    <3>3. \A s \in Sources : asked.row[s] = saved.row[s]
      <4> SUFFICES ASSUME NEW s \in Sources PROVE c.row[s] = saved.row[s]
        BY <2>2
      <4>1. CASE s \in S
        BY <1>3, <4>1
      <4>2. CASE s \notin S
        BY <1>3, <3>1, <4>2 DEF ZeroElsewhere, Counters
      <4> QED
        BY <4>1, <4>2
    <3>4. AddUp(saved)
      <4>1. Range(saved.names) \subseteq Sources
        BY NamesFinite DEF Typed
      <4> QED
        BY <2>5, <3>2, <3>3, <4>1 DEF AddUp
    <3>5. Kept(asked) = Kept(saved)
      BY <2>2, <3>3, SameKept DEF Counters, Typed
    <3> QED
      BY <2>5, <3>4, <3>5
  <2>11. BeginsResumed(d, S)
    BY <2>1, <2>4, <2>9, <2>10 DEF BeginsResumed
  <2> QED
    BY <2>4, <2>8, <2>11
<1> QED
  BY <1>1, <1>5, <1>6, <1>7
--------------------------------------------------------------------------------
(***************************************************************************)
(* The lines between the reader and the checkpoint.                         *)
(***************************************************************************)

Items == [source : Sources, no : Nat]

Waits(F, s) == {i \in DOMAIN F : F[i].source = s}

(* In F, the lines o, ..., n - 1 of s wait in their order.                  *)
Meets(F, s, o, n) ==
  /\ o <= n
  /\ {F[i].no : i \in Waits(F, s)} = o .. n - 1
  /\ \A i, j \in Waits(F, s) : i < j => F[i].no < F[j].no

LEMMA MeetsIsMeeting ==
  /\ ReaderMeetsCheckpoint <=>
       \A s \in filter : Meets(feed, s, cp.row[s].offset, next[s])
  /\ ReaderMeetsCheckpoint' <=>
       \A s \in filter' : Meets(feed', s, cp'.row[s].offset, next'[s])
BY DEF ReaderMeetsCheckpoint, Meets, Waits

LEMMA MeetsNothing ==
  ASSUME NEW s, NEW o \in Nat PROVE Meets(<<>>, s, o, o)
<1>1. Waits(<<>>, s) = {} /\ o .. o - 1 = {}
  BY DEF Waits
<1> QED
  BY <1>1 DEF Meets

LEMMA MeetsAppend ==
  ASSUME NEW F \in Seq(Items), NEW s \in Sources, NEW n \in Nat
  PROVE  LET G == Append(F, [source |-> s, no |-> n])
         IN /\ \A o \in Nat : Meets(F, s, o, n) => Meets(G, s, o, n + 1)
            /\ \A t \in Sources, o, m \in Nat :
                 t # s /\ Meets(F, t, o, m) => Meets(G, t, o, m)
<1> DEFINE e == [source |-> s, no |-> n]
           G == Append(F, e)
           k == Len(F) + 1
<1>1. e \in Items /\ e.source = s /\ e.no = n
  BY DEF Items
<1>2. Len(F) \in Nat /\ DOMAIN F = 1 .. Len(F) /\ \A i \in DOMAIN F : F[i] \in Items
  BY LenProperties, ElementOfSeq
<1> HIDE DEF e
<1>3. /\ DOMAIN G = 1 .. k /\ G[k] = e
      /\ \A i \in 1 .. Len(F) : G[i] = F[i]
  BY <1>1, <1>2, AppendProperties, LenProperties
<1> HIDE DEF G
<1>4. Waits(G, s) = Waits(F, s) \cup {k}
  BY <1>1, <1>2, <1>3 DEF Waits
<1>5. ASSUME NEW o \in Nat, Meets(F, s, o, n) PROVE Meets(G, s, o, n + 1)
  <2>1. {G[i].no : i \in Waits(G, s)} = {F[i].no : i \in Waits(F, s)} \cup {n}
    <3>1. \A i \in Waits(F, s) : G[i].no = F[i].no
      BY <1>2, <1>3 DEF Waits
    <3> QED
      BY <1>1, <1>3, <1>4, <3>1
  <2>2. (o .. n - 1) \cup {n} = o .. (n + 1) - 1
    BY <1>5 DEF Meets
  <2>3. \A i, j \in Waits(G, s) : i < j => G[i].no < G[j].no
    <3> SUFFICES ASSUME NEW i \in Waits(G, s), NEW j \in Waits(G, s), i < j
                 PROVE  G[i].no < G[j].no
      OBVIOUS
    <3>1. i \in Waits(F, s) /\ i \in 1 .. Len(F)
      BY <1>2, <1>4 DEF Waits
    <3>2. CASE j \in Waits(F, s)
      <4>1. F[i].no < F[j].no /\ G[i] = F[i] /\ G[j] = F[j]
        BY <1>2, <1>3, <1>5, <3>1, <3>2 DEF Meets, Waits
      <4> QED
        BY <4>1
    <3>3. CASE j = k
      <4>1. F[i].no \in o .. n - 1
        BY <1>5, <3>1 DEF Meets
      <4> QED
        BY <1>1, <1>3, <3>1, <3>3, <4>1
    <3> QED
      BY <1>4, <3>2, <3>3
  <2>4. o <= n /\ {F[i].no : i \in Waits(F, s)} = o .. n - 1
    BY <1>5, Zenon DEF Meets
  <2>5. o <= n + 1
    BY <2>4
  <2>6. {G[i].no : i \in Waits(G, s)} = o .. (n + 1) - 1
    BY <2>1, <2>2, <2>4, Zenon
  <2> QED
    BY <2>3, <2>5, <2>6, Zenon DEF Meets
<1>6. ASSUME NEW t \in Sources, NEW o \in Nat, NEW m \in Nat, t # s, Meets(F, t, o, m)
      PROVE  Meets(G, t, o, m)
  <2>1. Waits(G, t) = Waits(F, t)
    BY <1>1, <1>2, <1>3, <1>6 DEF Waits
  <2>2. \A i \in Waits(F, t) : G[i] = F[i]
    BY <1>2, <1>3 DEF Waits
  <2>3. {G[i].no : i \in Waits(G, t)} = {F[i].no : i \in Waits(F, t)}
    BY <2>1, <2>2
  <2>4. \A i, j \in Waits(G, t) : i < j => G[i].no < G[j].no
    <3> SUFFICES ASSUME NEW i \in Waits(G, t), NEW j \in Waits(G, t), i < j
                 PROVE  G[i].no < G[j].no
      OBVIOUS
    <3>1. F[i].no < F[j].no
      BY <1>6, <2>1 DEF Meets
    <3> QED
      BY <2>1, <2>2, <3>1
  <2>5. o <= m /\ {F[i].no : i \in Waits(F, t)} = o .. m - 1
    BY <1>6, Zenon DEF Meets
  <2> QED
    BY <2>3, <2>4, <2>5, Zenon DEF Meets
<1> QED
  BY <1>5, <1>6 DEF G, e

(* The head of F is the first line of its source.                           *)
LEMMA MeetsTail ==
  ASSUME NEW F \in Seq(Items), F # <<>>, NEW s \in Sources, NEW o \in Nat, NEW n \in Nat,
         Meets(F, s, o, n)
  PROVE  /\ F[1].source = s => F[1].no = o /\ Meets(Tail(F), s, o + 1, n)
         /\ F[1].source # s => Meets(Tail(F), s, o, n)
<1> DEFINE G == Tail(F)
           W == {i \in Waits(F, s) : i > 1}
<1>1. /\ Len(F) \in Nat /\ Len(F) >= 1 /\ DOMAIN F = 1 .. Len(F)
      /\ \A i \in DOMAIN F : F[i] \in Items
  BY LenProperties, ElementOfSeq, EmptySeq
<1>2. /\ DOMAIN G = 1 .. Len(F) - 1
      /\ \A i \in 1 .. Len(F) - 1 : G[i] = F[i + 1]
  BY <1>1, HeadTailProperties, LenProperties
<1> HIDE DEF G
<1>3. \A i \in Waits(G, s) : i + 1 \in W /\ G[i] = F[i + 1]
  BY <1>1, <1>2 DEF Waits
<1>4. \A j \in W : j - 1 \in Waits(G, s) /\ G[j - 1] = F[j]
  BY <1>1, <1>2 DEF Waits
<1>5. {G[i].no : i \in Waits(G, s)} = {F[j].no : j \in W}
  <2>1. \A i \in Waits(G, s) : \E j \in W : G[i].no = F[j].no
    BY <1>3
  <2>2. \A j \in W : \E i \in Waits(G, s) : G[i].no = F[j].no
    BY <1>4
  <2> QED
    BY <2>1, <2>2
<1>6. \A i, j \in Waits(G, s) : i < j => G[i].no < G[j].no
  <2> SUFFICES ASSUME NEW i \in Waits(G, s), NEW j \in Waits(G, s), i < j
               PROVE  G[i].no < G[j].no
    OBVIOUS
  <2>1. i + 1 \in Waits(F, s) /\ j + 1 \in Waits(F, s)
    BY <1>3
  <2>2. i + 1 < j + 1
    BY <1>2 DEF Waits
  <2>3. F[i + 1].no < F[j + 1].no
    BY <2>1, <2>2 DEF Meets
  <2> QED
    BY <1>3, <2>3
<1>7. ASSUME F[1].source # s PROVE Meets(G, s, o, n)
  <2>1. W = Waits(F, s)
    BY <1>1, <1>7 DEF Waits
  <2> QED
    BY <1>5, <1>6, <2>1 DEF Meets
<1>8. ASSUME F[1].source = s PROVE F[1].no = o /\ Meets(G, s, o + 1, n)
  <2>1. 1 \in Waits(F, s) /\ Waits(F, s) = W \cup {1} /\ 1 \notin W
    BY <1>1, <1>8 DEF Waits
  <2>2. \A j \in W : F[1].no < F[j].no
    BY <2>1 DEF Meets
  <2>3. F[1].no \in o .. n - 1 /\ \A j \in W : F[j].no \in o .. n - 1
    BY <2>1 DEF Meets
  <2>4. o \in {F[i].no : i \in Waits(F, s)}
    <3>1. o \in o .. n - 1
      BY <2>3
    <3>2. {F[i].no : i \in Waits(F, s)} = o .. n - 1
      BY Zenon DEF Meets
    <3> QED
      BY <3>1, <3>2, Zenon
  <2>5. PICK i \in Waits(F, s) : F[i].no = o
    BY <2>4
  <2>6. F[1].no = o
    <3>1. CASE i = 1
      BY <2>5, <3>1
    <3>2. CASE i \in W
      BY <2>2, <2>3, <2>5, <3>2
    <3> QED
      BY <2>1, <3>1, <3>2
  <2>7. {F[j].no : j \in W} = o + 1 .. n - 1
    <3>1. \A j \in W : F[j].no \in o + 1 .. n - 1
      BY <2>2, <2>3, <2>6
    <3>2. \A x \in o + 1 .. n - 1 : \E j \in W : F[j].no = x
      <4> SUFFICES ASSUME NEW x \in o + 1 .. n - 1 PROVE \E j \in W : F[j].no = x
        OBVIOUS
      <4>1. x \in {F[j].no : j \in Waits(F, s)}
        <5>1. x \in o .. n - 1
          OBVIOUS
        <5>2. {F[j].no : j \in Waits(F, s)} = o .. n - 1
          BY Zenon DEF Meets
        <5> QED
          BY <5>1, <5>2, Zenon
      <4>2. PICK j \in Waits(F, s) : F[j].no = x
        BY <4>1
      <4>3. j # 1
        BY <2>6, <4>2
      <4> QED
        BY <2>1, <4>2, <4>3
    <3> QED
      BY <3>1, <3>2
  <2>8. o + 1 <= n
    BY <2>3, <2>6
  <2> QED
    BY <1>5, <1>6, <2>6, <2>7, <2>8 DEF Meets
<1> QED
  BY <1>7, <1>8 DEF G

LEMMA LinesFacts ==
  ASSUME Typed, NEW s \in Sources
  PROVE  /\ Len(lines[s]) \in Nat /\ DOMAIN lines[s] = 1 .. Len(lines[s])
         /\ \A i \in DOMAIN lines[s] : lines[s][i] \in Contents \cup {Blank}
<1>1. lines[s] \in Files
  BY DEF Typed
<1>2. lines[s] \in Seq(Range(lines[s]))
  BY <1>1, FilesAssumption
<1>3. \A i \in DOMAIN lines[s] : lines[s][i] \in Range(lines[s])
  BY DEF Range
<1>4. \A i \in DOMAIN lines[s] : lines[s][i] \in UNION {Range(f) : f \in Files}
  BY <1>1, <1>3, Zenon
<1>5. Len(lines[s]) \in Nat /\ DOMAIN lines[s] = 1 .. Len(lines[s])
  BY <1>2, LenProperties
<1> DEFINE all == UNION {Range(f) : f \in Files}
<1>6. Contents = all \ {Blank}
  BY DEF Contents
<1> HIDE DEF all
<1>7. \A i \in DOMAIN lines[s] : lines[s][i] \in all
  BY <1>4 DEF all
<1> QED
  BY <1>5, <1>6, <1>7

(* The line that is applied next.                                           *)
LEMMA ItemFacts ==
  ASSUME Typed, Reading, pc = "merging", feed # <<>>
  PROVE  /\ Item = feed[1] /\ Item \in Items
         /\ Item.source \in filter /\ Item.source \in Sources
         /\ Item.no = cp.row[Item.source].offset /\ Item.no \in Nat
         /\ Item.no < Len(lines[Item.source])
         /\ Content \in Contents \cup {Blank}
         /\ Content = lines[Item.source][Item.no + 1]
<1>1. feed \in Seq(Items)
  BY DEF Typed, Items
<1>2. 1 \in DOMAIN feed /\ Item = feed[1] /\ Item \in Items
  BY <1>1, LenProperties, ElementOfSeq, EmptySeq, HeadTailProperties DEF Item
<1>3. /\ Item.source \in filter /\ Item.source \in Sources /\ Item.no \in Nat
      /\ Item.no < Len(lines[Item.source])
  BY <1>2 DEF Reading, Items
<1>4. Item.no = cp.row[Item.source].offset
  <2> DEFINE s == Item.source
  <2>1. Meets(feed, s, cp.row[s].offset, next[s])
    BY <1>3, MeetsIsMeeting DEF Reading
  <2>2. cp.row[s].offset \in Nat /\ next[s] \in Nat
    BY <1>3, RowFields DEF Typed
  <2> HIDE DEF s
  <2> QED
    BY <1>1, <1>2, <1>3, <2>1, <2>2, MeetsTail DEF s
<1>5. Content = lines[Item.source][Item.no + 1]
  BY DEF Content
<1>6. Item.no + 1 \in DOMAIN lines[Item.source]
  BY <1>3, LinesFacts
<1> QED
  BY <1>2, <1>3, <1>4, <1>5, <1>6, LinesFacts

(* What the counting of a line makes of the checkpoint.                     *)
LEMMA CountedFacts ==
  ASSUME Typed, Reading, Counters, pc = "merging", feed # <<>>,
         NEW a \in {0, 1}, NEW k \in {0, 1}, NEW r \in {0, 1},
         NEW d, d = Counted(a, k, r)
  PROVE  LET s == Item.source
         IN /\ d \in Checkpoints /\ d.names = cp.names /\ d.complete = cp.complete
            /\ \A t \in Sources \ {s} : d.row[t] = cp.row[t]
            /\ d.row[s].offset = cp.row[s].offset + 1
            /\ d.row[s].scanned = cp.row[s].scanned + a
            /\ d.row[s].kept = cp.row[s].kept + k
            /\ d.row[s].rejected = cp.row[s].rejected + r
            /\ ZeroElsewhere(d)
            /\ Kept(d) = Kept(cp) + k
<1> DEFINE s == Item.source
           q == [offset |-> Item.no + 1, scanned |-> cp.row[s].scanned + a,
                 kept |-> cp.row[s].kept + k, rejected |-> cp.row[s].rejected + r]
<1>1. s \in filter /\ s \in Sources /\ Item.no = cp.row[s].offset /\ Item.no \in Nat
  BY ItemFacts
<1>2. cp \in Checkpoints /\ Range(cp.names) = filter
  BY DEF Typed, Reading, Alive
<1>3. /\ cp.row[s].scanned \in Nat /\ cp.row[s].kept \in Nat /\ cp.row[s].rejected \in Nat
  BY <1>1, <1>2, RowFields
<1>4. d = [cp EXCEPT !.row = [cp.row EXCEPT ![s] = q]]
  BY <1>1, <1>2 DEF Counted, Checkpoints
<1>5. q \in Row
  <2>1. /\ Item.no + 1 \in Nat /\ cp.row[s].scanned + a \in Nat
        /\ cp.row[s].kept + k \in Nat /\ cp.row[s].rejected + r \in Nat
    <3>1. (a = 0 \/ a = 1) /\ (k = 0 \/ k = 1) /\ (r = 0 \/ r = 1)
      OBVIOUS
    <3> QED
      BY <1>1, <1>3, <3>1, SMTT(30)
  <2> QED
    BY <2>1, RowOf
<1>6. q.offset = cp.row[s].offset + 1 /\ q.scanned = cp.row[s].scanned + a
      /\ q.kept = cp.row[s].kept + k /\ q.rejected = cp.row[s].rejected + r
  BY <1>1
<1> HIDE DEF q, s
<1>7. /\ d.names = cp.names /\ d.complete = cp.complete
      /\ d.row = [cp.row EXCEPT ![s] = q]
  BY <1>2, <1>4 DEF Checkpoints
<1>8. d \in Checkpoints
  BY <1>1, <1>2, <1>4, <1>5 DEF Checkpoints
<1>9. d.row[s] = q /\ \A t \in Sources \ {s} : d.row[t] = cp.row[t]
  BY <1>1, <1>2, <1>7 DEF Checkpoints
<1>10. ZeroElsewhere(d)
  <2>1. s \in Range(cp.names) /\ ZeroElsewhere(cp)
    BY <1>1, <1>2 DEF Counters
  <2> QED
    BY <1>7, <1>9, <2>1 DEF ZeroElsewhere
<1>11. Kept(d) = Kept(cp) + k
  <2>1. Kept(d) = Kept(cp) + d.row[s].kept - cp.row[s].kept
    BY <1>1, <1>2, <1>8, <1>9, <1>10, KeptChange DEF Counters
  <2>2. Kept(cp) \in Nat
    BY <1>2, KeptType
  <2> QED
    BY <1>3, <1>6, <1>9, <2>1, <2>2
<1> QED
  BY <1>6, <1>7, <1>8, <1>9, <1>10, <1>11 DEF s
--------------------------------------------------------------------------------
(***************************************************************************)
(* Types.                                                                   *)
(***************************************************************************)

ReaderStep(s) == ReadLine(s) \/ EndOfFile(s) \/ SkipTurn(s)

ReaderFrame ==
  UNCHANGED <<fileVars, out, saved, cleared, cp, buffer, known, pc, sessionVars>>

LEMMA ReaderFrames ==
  ASSUME NEW s \in Sources, ReaderStep(s) PROVE ReaderFrame
BY DEF ReaderStep, ReadLine, EndOfFile, SkipTurn, ReaderFrame

(* The output with the rows that wait.                                      *)
LEMMA RowsType ==
  ASSUME Typed
  PROVE  /\ Rows \in Seq(Contents) /\ Len(out) \in Nat /\ Len(buffer) \in Nat
         /\ Len(Rows) = Len(out) + Len(buffer)
         /\ out \in Seq(Contents) /\ buffer \in Seq(Contents)
<1>1. out \in Seq(Contents) /\ buffer \in Seq(Contents)
  BY DEF Typed
<1> QED
  BY <1>1, ConcatProperties, LenProperties DEF Rows

LEMMA DownTyped ==
  ASSUME Typed, Down
  PROVE  /\ buffer' = <<>> /\ cp' = NewCheckpoint /\ feed' = <<>> /\ filter' = {}
         /\ known' = {} /\ foreign' = 0 /\ pc' = "down" /\ exhausted' = {} /\ tick' = 0
         /\ buffer' \in Seq(Contents) /\ Len(buffer') < BufferRows
         /\ cp' \in Checkpoints /\ IsInjective(cp'.names)
         /\ next' \in [Sources -> Nat] /\ begun' \in [Sources -> Nat]
         /\ feed' \in Seq([source : Sources, no : Nat]) /\ Len(feed') <= ReadAhead
<1>1. BufferRows \in Nat \ {0} /\ ReadAhead \in Nat
  BY BoundsAssumption
<1>2. cp' \in Checkpoints /\ IsInjective(cp'.names)
  <2>1. <<>> \in Seq(Sources) /\ IsInjective(<<>>)
    BY EmptySeq DEF IsInjective
  <2>2. [s \in Sources |-> ZeroRow] \in [Sources -> Row]
    BY ZeroRowType
  <2>3. cp' = NewCheckpoint
    BY DEF Down
  <2> QED
    BY <2>1, <2>2, <2>3 DEF NewCheckpoint, Checkpoints
<1>3. Len(<<>>) = 0 /\ <<>> \in Seq(Contents) /\ <<>> \in Seq([source : Sources, no : Nat])
  BY EmptySeq
<1> QED
  BY <1>1, <1>2, <1>3 DEF Down

LEMMA InitTyped == Init => Typed
<1> SUFFICES ASSUME Init PROVE Typed
  OBVIOUS
<1>1. BufferRows \in Nat \ {0} /\ ReadAhead \in Nat /\ MaxSessions \in Nat
  BY BoundsAssumption
<1>2. NewCheckpoint \in Checkpoints /\ IsInjective(NewCheckpoint.names)
  <2>1. <<>> \in Seq(Sources) /\ IsInjective(<<>>)
    BY EmptySeq DEF IsInjective
  <2>2. [s \in Sources |-> ZeroRow] \in [Sources -> Row]
    BY ZeroRowType
  <2> QED
    BY <2>1, <2>2 DEF NewCheckpoint, Checkpoints
<1>3. Len(<<>>) = 0 /\ <<>> \in Seq(Contents) /\ <<>> \in Seq([source : Sources, no : Nat])
  BY EmptySeq
<1>4. /\ lines \in [Sources -> Files] /\ present \in (SUBSET Sources) \ {{}}
      /\ incremental \in BOOLEAN /\ damaged \in BOOLEAN /\ cleared \in BOOLEAN
      /\ filter = {} /\ exhausted = {} /\ known = {} /\ pc = "down"
      /\ next \in [Sources -> Nat] /\ begun \in [Sources -> Nat] /\ tick \in Nat
      /\ foreign \in Int
  <2>1. next = [s \in Sources |-> 0] /\ begun = [s \in Sources |-> 0]
    BY DEF Init
  <2>2. next \in [Sources -> Nat] /\ begun \in [Sources -> Nat]
    BY <2>1
  <2>3. present \in (SUBSET Sources) \ {{}}
    BY DEF Init
  <2>4. /\ lines \in [Sources -> Files] /\ incremental \in BOOLEAN
        /\ damaged = FALSE /\ cleared = FALSE
        /\ filter = {} /\ exhausted = {} /\ known = {} /\ pc = "down"
        /\ tick = 0 /\ foreign = 0
    BY Zenon DEF Init
  <2>5. damaged \in BOOLEAN /\ cleared \in BOOLEAN
    BY <2>4
  <2>6. tick \in Nat /\ foreign \in Int
    <3>1. tick = 0 /\ foreign = 0
      BY <2>4, Zenon
    <3> QED
      BY <3>1
  <2> QED
    BY <2>2, <2>3, <2>4, <2>5, <2>6, Zenon
<1>5. saved = NewCheckpoint /\ cp = NewCheckpoint /\ out = <<>> /\ buffer = <<>>
      /\ feed = <<>> /\ sessions \in 0 .. MaxSessions
  BY <1>1 DEF Init
<1> QED
  BY <1>1, <1>2, <1>3, <1>4, <1>5 DEF Typed

LEMMA DivisionType ==
  ASSUME NEW a \in Nat, NEW n \in Nat, n # 0 PROVE (a + 1) % n \in 0 .. n - 1
OBVIOUS

(* The schedule of a set of sources is at least as long as a part of it.    *)
LEMMA EntriesType ==
  ASSUME NEW S \in SUBSET Sources
  PROVE  /\ IsFiniteSet(S) /\ EntriesOf(S) \in Nat
         /\ \A s \in S : EntriesOf(S) = EntriesOf(S \ {s}) + Weight[s]
         /\ \A T \in SUBSET S : EntriesOf(T) <= EntriesOf(S)
<1> DEFINE f == [s \in S |-> Entries(s)]
<1>1. IsFiniteSet(S) /\ \A s \in S : Weight[s] \in Nat \ {0}
  BY SourcesAssumption, WeightAssumption, FS_Subset
<1>2. f \in [S -> Nat] /\ \A s \in S : f[s] = Weight[s]
  BY <1>1 DEF Entries
<1>3. \A T \in SUBSET S : [s \in T |-> f[s]] = [s \in T |-> Entries(s)]
  OBVIOUS
<1>4. EntriesOf(S) = Sum(f)
  BY DEF EntriesOf
<1> HIDE DEF f
<1>5. Sum(f) \in Nat
  BY <1>1, <1>2, ThingsFinite
<1>6. \A s \in S : EntriesOf(S) = EntriesOf(S \ {s}) + Weight[s]
  <2> SUFFICES ASSUME NEW s \in S PROVE EntriesOf(S) = EntriesOf(S \ {s}) + Weight[s]
    OBVIOUS
  <2>1. Sum(f) = Sum([t \in S \ {s} |-> f[t]]) + f[s]
    BY <1>1, <1>2, SumSplit
  <2>2. [t \in S \ {s} |-> f[t]] = [t \in S \ {s} |-> Entries(t)]
    BY <1>3
  <2> QED
    BY <1>2, <1>4, <2>1, <2>2 DEF EntriesOf
<1>7. \A T \in SUBSET S : EntriesOf(T) <= EntriesOf(S)
  <2> SUFFICES ASSUME NEW T \in SUBSET S PROVE EntriesOf(T) <= EntriesOf(S)
    OBVIOUS
  <2>1. Sum([t \in T |-> f[t]]) <= Sum(f)
    BY <1>1, <1>2, SumPart
  <2> QED
    BY <1>3, <1>4, <2>1 DEF EntriesOf
<1> QED
  BY <1>1, <1>4, <1>5, <1>6, <1>7

LEMMA RoundPositive ==
  ASSUME NEW S \in SUBSET Sources, NEW s \in S
  PROVE  EntriesOf(S) \in Nat \ {0} /\ Weight[s] \in Nat \ {0}
<1>1. Weight[s] \in Nat \ {0} /\ S \ {s} \in SUBSET Sources
  BY WeightAssumption
<1>2. EntriesOf(S) = EntriesOf(S \ {s}) + Weight[s] /\ EntriesOf(S \ {s}) \in Nat
  BY <1>1, EntriesType
<1> QED
  BY <1>1, <1>2

LEMMA TickType ==
  ASSUME Typed, NEW s \in Sources, Turn(s), NextTurn
  PROVE  tick' \in 0 .. EntriesOf(filter) - 1 /\ tick' \in Nat
<1>1. s \in filter /\ filter \in SUBSET Sources /\ tick \in Nat
  BY DEF Turn, Typed
<1>2. EntriesOf(filter) \in Nat \ {0}
  BY <1>1, RoundPositive
<1> QED
  BY <1>1, <1>2, DivisionType DEF NextTurn

LEMMA ReaderTyped ==
  ASSUME Typed, NEW s \in Sources, ReaderStep(s)
  PROVE  Typed'
<1>1. ReaderFrame /\ s \in filter /\ tick' \in Nat
  <2>1. Turn(s) /\ NextTurn
    BY DEF ReaderStep, ReadLine, EndOfFile, SkipTurn
  <2> QED
    BY <2>1, ReaderFrames, TickType DEF Turn
<1>2. next' \in [Sources -> Nat]
  <2>1. next \in [Sources -> Nat] /\ next[s] + 1 \in Nat
    BY DEF Typed
  <2>2. next' = next \/ next' = [next EXCEPT ![s] = @ + 1]
    BY DEF ReaderStep, ReadLine, EndOfFile, SkipTurn
  <2> QED
    BY <2>1, <2>2
<1>3. exhausted' \subseteq filter
  BY <1>1 DEF ReaderStep, ReadLine, EndOfFile, SkipTurn, Typed
<1>4. feed' \in Seq([source : Sources, no : Nat]) /\ Len(feed') <= ReadAhead
  <2>1. feed \in Seq([source : Sources, no : Nat]) /\ Len(feed) <= ReadAhead
    BY DEF Typed
  <2>2. CASE ReadLine(s)
    <3> DEFINE e == [source |-> s, no |-> next[s]]
    <3>1. e \in [source : Sources, no : Nat] /\ feed' = Append(feed, e)
          /\ Len(feed) < ReadAhead
      BY <2>2 DEF ReadLine, Typed
    <3> HIDE DEF e
    <3>2. ReadAhead \in Nat /\ Len(feed) \in Nat
      BY <2>1, BoundsAssumption, LenProperties
    <3> QED
      BY <2>1, <3>1, <3>2, AppendProperties
  <2>3. CASE EndOfFile(s) \/ SkipTurn(s)
    BY <2>1, <2>3 DEF EndOfFile, SkipTurn
  <2> QED
    BY <2>2, <2>3 DEF ReaderStep
<1> QED
  BY <1>1, <1>2, <1>3, <1>4 DEF ReaderFrame, fileVars, sessionVars, Typed

LEMMA BeginsTyped ==
  ASSUME Typed, Reading, NEW S \in SUBSET present, NEW d \in Checkpoints, Begins(d, S),
         BeginsEmpty(d, S) \/ BeginsAppending(d, S) \/ BeginsResumed(d, S)
  PROVE  Typed'
<1>1. Kept(d) \in Nat /\ Len(out) \in Nat
  BY KeptType, RowsType
<1>2. \A s \in Sources : d.row[s].offset \in Nat
  BY RowFields
<1>3. [s \in Sources |-> d.row[s].offset] \in [Sources -> Nat]
  BY <1>2
<1>4. out' \in Seq(Contents) /\ known' \subseteq Contents /\ foreign' \in Int
  <2>1. Range(out) \subseteq Contents /\ <<>> \in Seq(Contents)
    BY RowsType, RangeOfSeq, EmptySeq
  <2>2. out \in Seq(Contents)
    BY RowsType
  <2>3. CASE BeginsEmpty(d, S)
    BY <1>1, <2>1, <2>3 DEF BeginsEmpty
  <2>4. CASE BeginsAppending(d, S)
    BY <1>1, <2>1, <2>2, <2>4 DEF BeginsAppending
  <2>5. CASE BeginsResumed(d, S)
    BY <2>1, <2>2, <2>5 DEF BeginsResumed
  <2> QED
    BY <2>3, <2>4, <2>5
<1>5. cleared' \in BOOLEAN
  BY DEF BeginsEmpty, BeginsAppending, BeginsResumed, Resuming, Typed
<1>6. sessions' \in 0 .. MaxSessions
  <2>1. MaxSessions \in Nat /\ sessions \in 0 .. MaxSessions
    BY BoundsAssumption DEF Typed
  <2> QED
    BY <2>1 DEF Begins
<1> QED
  BY <1>3, <1>4, <1>5, <1>6 DEF Begins, Typed, fileVars

ApplyStep == ApplyBlank \/ ApplyRejected \/ ApplyKept

LEMMA ApplyTyped ==
  ASSUME Typed, Reading, Counters, ApplyStep
  PROVE  Typed'
<1>1. pc = "merging" /\ feed # <<>> /\ feed' = Tail(feed)
  BY DEF ApplyStep, ApplyBlank, ApplyRejected, ApplyKept, Applying
<1>2. UNCHANGED <<fileVars, pc, readVars, sessionVars>>
  BY DEF ApplyStep, ApplyBlank, ApplyRejected, ApplyKept
<1>3. feed' \in Seq([source : Sources, no : Nat]) /\ Len(feed') <= ReadAhead
  <2>1. feed \in Seq([source : Sources, no : Nat]) /\ Len(feed) <= ReadAhead
    BY DEF Typed
  <2>2. ReadAhead \in Nat /\ Len(feed) \in Nat
    BY <2>1, BoundsAssumption, LenProperties
  <2> QED
    BY <1>1, <2>1, <2>2, HeadTailProperties
<1>4. \A a, k, r \in {0, 1} :
        Counted(a, k, r) \in Checkpoints /\ IsInjective(Counted(a, k, r).names)
  BY <1>1, CountedFacts DEF Typed
<1>5. cp' \in Checkpoints /\ IsInjective(cp'.names)
  BY <1>4 DEF ApplyStep, ApplyBlank, ApplyRejected, ApplyKept
<1>6. Content \in Contents \cup {Blank}
  BY <1>1, ItemFacts
<1>7. known' \subseteq Contents
  BY <1>6 DEF ApplyStep, ApplyBlank, ApplyRejected, ApplyKept, Typed
<1>8. /\ out' \in Seq(Contents) /\ buffer' \in Seq(Contents) /\ Len(buffer') < BufferRows
      /\ saved' \in Checkpoints /\ IsInjective(saved'.names) /\ cleared' \in BOOLEAN
  <2>1. CASE ApplyBlank \/ ApplyRejected
    BY <2>1 DEF ApplyBlank, ApplyRejected, Typed
  <2>2. CASE ApplyKept
    <3>1. Content \in Contents
      BY <1>6, <2>2 DEF ApplyKept
    <3>2. out \in Seq(Contents) /\ buffer \in Seq(Contents) /\ Len(buffer) \in Nat
      BY RowsType
    <3>3. CASE Len(buffer) + 1 < BufferRows
      <4>1. buffer' = Append(buffer, Content) /\ UNCHANGED <<out, saved, cleared>>
        BY <2>2, <3>3 DEF ApplyKept
      <4>2. buffer' \in Seq(Contents) /\ Len(buffer') = Len(buffer) + 1
        BY <3>1, <3>2, <4>1, AppendProperties
      <4> QED
        BY <3>3, <4>1, <4>2 DEF Typed
    <3>4. CASE ~(Len(buffer) + 1 < BufferRows)
      <4>1. /\ out' = Append(out \o buffer, Content) /\ buffer' = <<>>
            /\ UNCHANGED <<saved, cleared>> \/ Save(Counted(1, 0, 0))
        BY <2>2, <3>4 DEF ApplyKept
      <4>2. out \o buffer \in Seq(Contents)
        BY <3>2, ConcatProperties
      <4>3. out' \in Seq(Contents)
        BY <3>1, <4>1, <4>2, AppendProperties
      <4>4. buffer' \in Seq(Contents) /\ Len(buffer') = 0
        BY <4>1, EmptySeq
      <4>5. saved' \in Checkpoints /\ IsInjective(saved'.names) /\ cleared' \in BOOLEAN
        BY <1>4, <4>1 DEF Save, Typed
      <4>6. BufferRows \in Nat \ {0}
        BY BoundsAssumption
      <4> QED
        BY <4>3, <4>4, <4>5, <4>6
    <3> QED
      BY <3>3, <3>4
  <2> QED
    BY <2>1, <2>2 DEF ApplyStep
<1> QED
  BY <1>2, <1>3, <1>5, <1>7, <1>8 DEF Typed, fileVars, readVars, sessionVars

(* The steps that end a session, or close the sink.                         *)
EndStep == Pause \/ CloseSink \/ Complete \/ Fail \/ Crash

LEMMA EndTyped ==
  ASSUME Typed, EndStep
  PROVE  Typed'
<1>1. Rows \in Seq(Contents) /\ out \in Seq(Contents) /\ Rows = out \o buffer
  BY RowsType DEF Rows
<1>2. cleared' \in BOOLEAN
  BY DEF EndStep, Pause, CloseSink, Complete, Fail, Crash, Save, Typed
<1>3. saved' \in Checkpoints /\ IsInjective(saved'.names)
  <2>1. [cp EXCEPT !.complete = TRUE] \in Checkpoints
        /\ [cp EXCEPT !.complete = TRUE].names = cp.names
    BY DEF Typed, Checkpoints
  <2> QED
    BY <2>1 DEF EndStep, Pause, CloseSink, Complete, Fail, Crash, Save, Typed
<1>4. out' \in Seq(Contents)
  BY <1>1 DEF EndStep, Pause, CloseSink, Complete, Fail, Crash
<1>5. CASE CloseSink
  <2>1. buffer' = <<>> /\ Len(<<>>) = 0 /\ <<>> \in Seq(Contents) /\ BufferRows \in Nat \ {0}
    BY <1>5, EmptySeq, BoundsAssumption DEF CloseSink
  <2> QED
    BY <1>2, <1>3, <1>4, <1>5, <2>1 DEF CloseSink, Typed, fileVars, readVars, sessionVars
<1>6. CASE Pause \/ Complete \/ Fail \/ Crash
  <2>1. Down /\ UNCHANGED <<fileVars, sessions>>
    BY <1>6 DEF Pause, Complete, Fail, Crash
  <2> QED
    BY <1>2, <1>3, <1>4, <2>1, DownTyped DEF Typed, fileVars
<1> QED
  BY <1>5, <1>6 DEF EndStep

LEMMA OutsideTyped ==
  ASSUME Typed, LoseRows \/ \E s \in Sources : Download(s)
  PROVE  Typed'
<1>1. CASE LoseRows
  <2>1. PICK n \in 0 .. Len(out) - 1 : out' = SubSeq(out, 1, n)
    BY <1>1 DEF LoseRows
  <2>2. out \in Seq(Contents) /\ Len(out) \in Nat
    BY RowsType
  <2>3. out' \in Seq(Contents)
    BY <2>1, <2>2, SubSeqProperties
  <2> QED
    BY <1>1, <2>3 DEF LoseRows, Typed, readVars, sessionVars
<1>2. ASSUME NEW s \in Sources, Download(s) PROVE Typed'
  <2>1. present' \in (SUBSET Sources) \ {{}} /\ filter \subseteq present'
    <3>1. present' = present \cup {s} /\ filter \subseteq present /\ present \subseteq Sources
      BY <1>2 DEF Download, Typed
    <3>2. s \in present' /\ present' \in SUBSET Sources
      BY <3>1
    <3> QED
      BY <3>1, <3>2
  <2> QED
    BY <1>2, <2>1 DEF Download, Typed, readVars, sessionVars
<1> QED
  BY <1>1, <1>2

OutsideStep == LoseRows \/ \E s \in Sources : Download(s)

LEMMA NextSteps ==
  ASSUME Next
  PROVE  \/ Start \/ \E S \in SUBSET present : StartIncremental(S)
         \/ \E s \in Sources : ReaderStep(s)
         \/ ApplyStep
         \/ EndStep
         \/ OutsideStep
BY DEF Next, ReaderStep, ApplyStep, EndStep, OutsideStep

LEMMA TypedStep ==
  ASSUME Typed, Reading, Counters, [Next]_vars
  PROVE  Typed'
<1>1. CASE Start \/ \E S \in SUBSET present : StartIncremental(S)
  BY <1>1, SessionBegins, BeginsTyped
<1>2. ASSUME NEW s \in Sources, ReaderStep(s) PROVE Typed'
  BY <1>2, ReaderTyped
<1>3. CASE ApplyStep
  BY <1>3, ApplyTyped
<1>4. CASE EndStep
  BY <1>4, EndTyped
<1>5. CASE OutsideStep
  BY <1>5, OutsideTyped DEF OutsideStep
<1>6. CASE UNCHANGED vars
  BY <1>6 DEF vars, fileVars, readVars, sessionVars, Typed
<1> QED
  BY <1>1, <1>2, <1>3, <1>4, <1>5, <1>6, NextSteps
--------------------------------------------------------------------------------
(***************************************************************************)
(* The reader and the checkpoint.                                           *)
(***************************************************************************)

LEMMA InitReading == Init => Reading
<1> SUFFICES ASSUME Init PROVE Reading
  OBVIOUS
<1>1. /\ filter = {} /\ feed = <<>> /\ buffer = <<>> /\ pc = "down" /\ exhausted = {}
      /\ tick = 0
  BY Zenon DEF Init
<1>2. DOMAIN <<>> = {}
  OBVIOUS
<1> QED
  BY <1>1, <1>2 DEF Reading, ReaderMeetsCheckpoint, Alive

LEMMA BeginsReading ==
  ASSUME Reading, NEW S \in SUBSET Sources, NEW d \in Checkpoints, Begins(d, S)
  PROVE  Reading'
<1>1. /\ feed' = <<>> /\ filter' = S /\ S # {} /\ pc' = "merging" /\ exhausted' = {}
      /\ Range(cp'.names) = S /\ cp'.row = d.row
      /\ next' = [s \in Sources |-> d.row[s].offset]
  BY DEF Begins, Reading
<1>2. ReaderMeetsCheckpoint'
  <2> SUFFICES ASSUME NEW s \in S
               PROVE  Meets(feed', s, cp'.row[s].offset, next'[s])
    BY <1>1, MeetsIsMeeting
  <2>1. d.row[s].offset \in Nat /\ next'[s] = d.row[s].offset
    BY <1>1, RowFields
  <2> QED
    BY <1>1, <2>1, MeetsNothing
<1>3. DOMAIN feed' = {}
  BY <1>1
<1> QED
  BY <1>1, <1>2, <1>3 DEF Reading, Alive

LEMMA ReaderReading ==
  ASSUME Typed, Reading, NEW s \in Sources, ReaderStep(s)
  PROVE  Reading'
<1>1. /\ pc = "merging" /\ s \in filter /\ pc' = pc /\ filter' = filter
      /\ cp' = cp /\ buffer' = buffer /\ lines' = lines
  <2>1. Turn(s) /\ ReaderFrame
    BY ReaderFrames DEF ReaderStep, ReadLine, EndOfFile, SkipTurn
  <2> QED
    BY <2>1 DEF Turn, ReaderFrame, sessionVars, fileVars
<1>2. /\ filter # {} /\ Range(cp.names) = filter
      /\ \A t \in filter : Meets(feed, t, cp.row[t].offset, next[t])
      /\ \A t \in exhausted : next[t] >= Len(lines[t])
      /\ filter \subseteq Sources /\ cp \in Checkpoints
      /\ next \in [Sources -> Nat] /\ feed \in Seq(Items)
  BY <1>1, MeetsIsMeeting DEF Reading, Alive, Typed, Items
<1>3. \A t \in filter : cp.row[t].offset \in Nat /\ next[t] \in Nat
  BY <1>2, RowFields
<1>4. CASE ReadLine(s)
  <2> DEFINE e == [source |-> s, no |-> next[s]]
  <2>1. /\ s \notin exhausted /\ next[s] < Len(lines[s]) /\ feed' = Append(feed, e)
        /\ next' = [next EXCEPT ![s] = next[s] + 1] /\ exhausted' = exhausted
    BY <1>4 DEF ReadLine
  <2>2. next'[s] = next[s] + 1 /\ \A t \in filter \ {s} : next'[t] = next[t]
    BY <1>2, <2>1
  <2>3. ReaderMeetsCheckpoint'
    <3> SUFFICES ASSUME NEW t \in filter
                 PROVE  Meets(feed', t, cp.row[t].offset, next'[t])
      BY <1>1, MeetsIsMeeting
    <3>1. CASE t = s
      BY <1>1, <1>2, <1>3, <2>1, <2>2, <3>1, MeetsAppend
    <3>2. CASE t # s
      BY <1>1, <1>2, <1>3, <2>1, <2>2, <3>2, MeetsAppend
    <3> QED
      BY <3>1, <3>2
  <2>4. \A i \in DOMAIN feed' :
          feed'[i].source \in filter /\ feed'[i].no < Len(lines[feed'[i].source])
    <3>1. e \in Items /\ e.source = s /\ e.no = next[s]
      BY <1>1, <1>3 DEF Items
    <3> HIDE DEF e
    <3>2. /\ DOMAIN feed' = 1 .. Len(feed) + 1 /\ feed'[Len(feed) + 1] = e
          /\ \A i \in 1 .. Len(feed) : feed'[i] = feed[i]
      BY <1>2, <2>1, <3>1, AppendProperties, LenProperties
    <3>3. Len(feed) \in Nat /\ DOMAIN feed = 1 .. Len(feed)
      BY <1>2, LenProperties
    <3>4. \A i \in DOMAIN feed :
            feed[i].source \in filter /\ feed[i].no < Len(lines[feed[i].source])
      BY DEF Reading
    <3> SUFFICES ASSUME NEW i \in DOMAIN feed'
                 PROVE  feed'[i].source \in filter
                        /\ feed'[i].no < Len(lines[feed'[i].source])
      OBVIOUS
    <3>5. i \in DOMAIN feed \/ i = Len(feed) + 1
      BY <3>2, <3>3
    <3> QED
      BY <1>1, <2>1, <3>1, <3>2, <3>3, <3>4, <3>5
  <2>5. \A t \in exhausted' : next'[t] >= Len(lines[t])
    BY <1>2, <2>1, <2>2 DEF Typed
  <2> QED
    BY <1>1, <1>2, <2>3, <2>4, <2>5 DEF Reading, Alive
<1>5. CASE EndOfFile(s) \/ SkipTurn(s)
  <2>1. /\ feed' = feed /\ next' = next
        /\ exhausted' \subseteq exhausted \cup {t \in filter : next[t] >= Len(lines[t])}
    BY <1>1, <1>5 DEF EndOfFile, SkipTurn
  <2>2. ReaderMeetsCheckpoint'
    BY <1>1, <1>2, <2>1, MeetsIsMeeting
  <2>3. \A t \in exhausted' : next[t] >= Len(lines[t])
    BY <1>2, <2>1
  <2>4. \A i \in DOMAIN feed :
          feed[i].source \in filter /\ feed[i].no < Len(lines[feed[i].source])
    BY DEF Reading
  <2> QED
    BY <1>1, <1>2, <2>1, <2>2, <2>3, <2>4 DEF Reading, Alive
<1> QED
  BY <1>4, <1>5 DEF ReaderStep

(* The application of a line: what it leaves alone, what it counts.         *)
LEMMA ApplyCounts ==
  ASSUME ApplyStep
  PROVE  /\ pc = "merging" /\ feed # <<>> /\ feed' = Tail(feed)
         /\ UNCHANGED <<fileVars, pc, readVars, sessionVars>>
         /\ \E a, k, r \in {0, 1} : a = k + r /\ cp' = Counted(a, k, r)
<1>1. pc = "merging" /\ feed # <<>> /\ feed' = Tail(feed)
  BY DEF ApplyStep, ApplyBlank, ApplyRejected, ApplyKept, Applying
<1>2. UNCHANGED <<fileVars, pc, readVars, sessionVars>>
  BY DEF ApplyStep, ApplyBlank, ApplyRejected, ApplyKept
<1>3. cp' = Counted(0, 0, 0) \/ cp' = Counted(1, 0, 1) \/ cp' = Counted(1, 1, 0)
  BY DEF ApplyStep, ApplyBlank, ApplyRejected, ApplyKept
<1>4. 0 = 0 + 0 /\ 1 = 0 + 1 /\ 1 = 1 + 0
  OBVIOUS
<1> QED
  BY <1>1, <1>2, <1>3, <1>4, Zenon

LEMMA ApplyReading ==
  ASSUME Typed, Reading, Counters, ApplyStep
  PROVE  Reading'
<1>1. /\ pc = "merging" /\ feed # <<>> /\ feed' = Tail(feed) /\ pc' = pc
      /\ filter' = filter /\ exhausted' = exhausted /\ next' = next /\ lines' = lines
  BY ApplyCounts DEF fileVars, readVars, sessionVars
<1>2. PICK a, k, r \in {0, 1} : cp' = Counted(a, k, r)
  BY ApplyCounts
<1> DEFINE s == Item.source
<1>3. /\ s \in filter /\ Item = feed[1] /\ cp'.names = cp.names
      /\ \A t \in Sources \ {s} : cp'.row[t] = cp.row[t]
      /\ cp'.row[s].offset = cp.row[s].offset + 1
  <2>1. Item.source \in filter /\ Item = feed[1]
    BY <1>1, ItemFacts
  <2>2. /\ cp'.names = cp.names
        /\ \A t \in Sources \ {Item.source} : cp'.row[t] = cp.row[t]
        /\ cp'.row[Item.source].offset = cp.row[Item.source].offset + 1
    BY <1>1, <1>2, CountedFacts
  <2> QED
    BY <2>1, <2>2
<1> HIDE DEF s
<1>4. /\ filter # {} /\ Range(cp.names) = filter
      /\ \A t \in filter : Meets(feed, t, cp.row[t].offset, next[t])
      /\ \A t \in exhausted : next[t] >= Len(lines[t])
      /\ filter \subseteq Sources /\ cp \in Checkpoints
      /\ next \in [Sources -> Nat] /\ feed \in Seq(Items)
  BY <1>1, MeetsIsMeeting DEF Reading, Alive, Typed, Items
<1>5. \A t \in filter : cp.row[t].offset \in Nat /\ next[t] \in Nat
  BY <1>4, RowFields
<1>6. ReaderMeetsCheckpoint'
  <2> SUFFICES ASSUME NEW t \in filter
               PROVE  Meets(feed', t, cp'.row[t].offset, next[t])
    BY <1>1, MeetsIsMeeting
  <2>1. t \in Sources /\ cp.row[t].offset \in Nat /\ next[t] \in Nat
        /\ Meets(feed, t, cp.row[t].offset, next[t])
    BY <1>4, <1>5
  <2>2. CASE t = s
    <3>1. feed[1].source = t /\ cp'.row[t].offset = cp.row[t].offset + 1
      BY <1>3, <2>2 DEF s
    <3> QED
      BY <1>1, <1>4, <2>1, <3>1, MeetsTail
  <2>3. CASE t # s
    <3>1. feed[1].source # t /\ cp'.row[t] = cp.row[t]
      BY <1>3, <2>1, <2>3 DEF s
    <3> QED
      BY <1>1, <1>4, <2>1, <3>1, MeetsTail
  <2> QED
    BY <2>2, <2>3
<1>7. \A i \in DOMAIN feed' :
        feed'[i].source \in filter /\ feed'[i].no < Len(lines[feed'[i].source])
  <2>1. /\ Len(feed) \in Nat /\ DOMAIN feed = 1 .. Len(feed)
        /\ DOMAIN feed' = 1 .. Len(feed) - 1
        /\ \A i \in 1 .. Len(feed) - 1 : feed'[i] = feed[i + 1]
    BY <1>1, <1>4, HeadTailProperties, LenProperties, EmptySeq
  <2>2. \A i \in DOMAIN feed :
          feed[i].source \in filter /\ feed[i].no < Len(lines[feed[i].source])
    BY DEF Reading
  <2>3. \A i \in DOMAIN feed' : i + 1 \in DOMAIN feed /\ feed'[i] = feed[i + 1]
    BY <2>1
  <2> QED
    BY <2>2, <2>3
<1> QED
  BY <1>1, <1>3, <1>4, <1>6, <1>7 DEF Reading, Alive

LEMMA DownReading ==
  ASSUME Down PROVE Reading'
<1>1. /\ filter' = {} /\ feed' = <<>> /\ buffer' = <<>> /\ pc' = "down"
      /\ exhausted' = {} /\ tick' = 0
  BY DEF Down
<1>2. DOMAIN <<>> = {}
  OBVIOUS
<1> QED
  BY <1>1, <1>2 DEF Reading, ReaderMeetsCheckpoint, Alive

LEMMA EndReading ==
  ASSUME Reading, EndStep
  PROVE  Reading'
<1>1. CASE CloseSink
  <2>1. /\ pc = "merging" /\ exhausted = filter /\ feed = <<>>
        /\ buffer' = <<>> /\ pc' = "closed" /\ cp' = cp /\ feed' = feed
        /\ next' = next /\ exhausted' = exhausted /\ filter' = filter /\ lines' = lines
    BY <1>1 DEF CloseSink, fileVars, readVars, sessionVars
  <2> QED
    BY <2>1 DEF Reading, ReaderMeetsCheckpoint, Alive
<1>2. CASE Pause \/ Complete \/ Fail \/ Crash
  <2>1. Down
    BY <1>2 DEF Pause, Complete, Fail, Crash
  <2> QED
    BY <2>1, DownReading
<1> QED
  BY <1>1, <1>2 DEF EndStep

LEMMA OutsideReading ==
  ASSUME Reading, OutsideStep
  PROVE  Reading'
<1>1. UNCHANGED <<lines, cp, buffer, pc, filter, next, exhausted, feed, tick>>
  BY DEF OutsideStep, LoseRows, Download, readVars, sessionVars
<1> QED
  BY <1>1 DEF Reading, ReaderMeetsCheckpoint, Alive

LEMMA ReadingStep ==
  ASSUME Typed, Reading, Counters, [Next]_vars
  PROVE  Reading'
<1>1. CASE Start \/ \E S \in SUBSET present : StartIncremental(S)
  <2>1. PICK S \in SUBSET present, d \in Checkpoints : Begins(d, S)
    BY <1>1, SessionBegins
  <2>2. S \in SUBSET Sources
    BY DEF Typed
  <2> QED
    BY <2>1, <2>2, BeginsReading
<1>2. ASSUME NEW s \in Sources, ReaderStep(s) PROVE Reading'
  BY <1>2, ReaderReading
<1>3. CASE ApplyStep
  BY <1>3, ApplyReading
<1>4. CASE EndStep
  BY <1>4, EndReading
<1>5. CASE OutsideStep
  BY <1>5, OutsideReading
<1>6. CASE UNCHANGED vars
  BY <1>6 DEF vars, fileVars, readVars, sessionVars, Reading, ReaderMeetsCheckpoint, Alive
<1> QED
  BY <1>1, <1>2, <1>3, <1>4, <1>5, <1>6, NextSteps
--------------------------------------------------------------------------------
(***************************************************************************)
(* The counters.                                                            *)
(***************************************************************************)

(* The application of a line adds its content to the rows, or nothing.      *)
LEMMA ApplyRows ==
  ASSUME Typed, Reading, ApplyStep
  PROVE  \/ /\ ApplyBlank \/ ApplyRejected
            /\ Rows' = Rows /\ UNCHANGED <<out, buffer, saved, cleared>>
         \/ /\ ApplyKept /\ Content \in Contents
            /\ Rows' = Append(Rows, Content) /\ Len(out') + Len(buffer') = Len(Rows) + 1
            /\ \/ UNCHANGED <<out, saved, cleared>>
               \/ out' = Rows' /\ UNCHANGED <<saved, cleared>>
               \/ out' = Rows' /\ Save(Counted(1, 0, 0))
<1>1. CASE ApplyBlank \/ ApplyRejected
  BY <1>1 DEF ApplyBlank, ApplyRejected, Rows
<1>2. CASE ApplyKept
  <2>1. pc = "merging" /\ feed # <<>>
    BY ApplyCounts
  <2>2. Content \in Contents
    BY <1>2, <2>1, ItemFacts DEF ApplyKept
  <2>3. /\ out \in Seq(Contents) /\ buffer \in Seq(Contents) /\ Rows \in Seq(Contents)
        /\ Len(out) \in Nat /\ Len(buffer) \in Nat /\ Len(Rows) = Len(out) + Len(buffer)
    BY RowsType
  <2>4. Append(Rows, Content) \in Seq(Contents) /\ Len(Append(Rows, Content)) = Len(Rows) + 1
    BY <2>2, <2>3, AppendProperties
  <2>5. CASE Len(buffer) + 1 < BufferRows
    <3>1. buffer' = Append(buffer, Content) /\ UNCHANGED <<out, saved, cleared>>
      BY <1>2, <2>5 DEF ApplyKept
    <3>2. Rows' = out \o Append(buffer, Content)
      BY <3>1 DEF Rows
    <3>3. <<Content>> \in Seq(Contents)
      BY <2>2
    <3>4. (out \o buffer) \o <<Content>> = out \o (buffer \o <<Content>>)
      BY <2>3, <3>3, ConcatAssociative, SMTT(30)
    <3>5. /\ Append(buffer, Content) = buffer \o <<Content>>
          /\ Append(Rows, Content) = Rows \o <<Content>>
      BY <2>2, <2>3, AppendIsConcat
    <3>6. Rows' = Append(Rows, Content)
      BY <3>2, <3>4, <3>5 DEF Rows
    <3>7. Len(buffer') = Len(buffer) + 1
      BY <2>2, <2>3, <3>1, AppendProperties
    <3> QED
      BY <1>2, <2>2, <2>3, <3>1, <3>6, <3>7
  <2>6. CASE ~(Len(buffer) + 1 < BufferRows)
    <3>1. /\ out' = Append(Rows, Content) /\ buffer' = <<>>
          /\ UNCHANGED <<saved, cleared>> \/ Save(Counted(1, 0, 0))
      BY <1>2, <2>6 DEF ApplyKept, Rows
    <3>2. Rows' = out' \o <<>>
      BY <3>1 DEF Rows
    <3>3. Rows' = Append(Rows, Content)
      BY <2>4, <3>1, <3>2, ConcatEmptySeq
    <3>4. Len(buffer') = 0 /\ Len(out') = Len(Rows) + 1
      BY <2>4, <3>1
    <3>5. Len(out') + Len(buffer') = Len(Rows) + 1
      BY <2>3, <3>4
    <3> QED
      BY <1>2, <2>2, <3>1, <3>3, <3>5
  <2> QED
    BY <2>5, <2>6
<1> QED
  BY <1>1, <1>2 DEF ApplyStep

LEMMA NewCheckpointFacts ==
  /\ ZeroElsewhere(NewCheckpoint) /\ KeptWasRead(NewCheckpoint)
  /\ Scanned(NewCheckpoint) /\ Range(NewCheckpoint.names) = {}
  /\ ~NewCheckpoint.complete
<1>1. /\ \A s \in Sources : NewCheckpoint.row[s] = ZeroRow
      /\ NewCheckpoint.names = <<>> /\ NewCheckpoint.complete = FALSE
  BY DEF NewCheckpoint
<1>2. /\ ZeroRow.offset = 0 /\ ZeroRow.scanned = 0 /\ ZeroRow.kept = 0
      /\ ZeroRow.rejected = 0
  BY DEF ZeroRow
<1>3. Range(<<>>) = {}
  BY DEF Range
<1> QED
  BY <1>1, <1>2, <1>3 DEF ZeroElsewhere, KeptWasRead, Scanned

(* What adds up is scanned.                                                 *)
LEMMA AddUpIsScanned ==
  ASSUME NEW c \in Checkpoints, ZeroElsewhere(c), AddUp(c)
  PROVE  Scanned(c)
<1> SUFFICES ASSUME NEW s \in Sources
             PROVE  c.row[s].scanned = c.row[s].kept + c.row[s].rejected
  <2>1. \A s \in Sources : c.row[s].scanned \in Nat
    BY RowFields
  <2> QED
    BY <2>1 DEF Scanned
<1>1. CASE s \in Range(c.names)
  BY <1>1 DEF AddUp
<1>2. CASE s \notin Range(c.names)
  BY <1>2 DEF ZeroElsewhere, ZeroRow
<1> QED
  BY <1>1, <1>2

LEMMA InitCounters == Init => Counters
<1> SUFFICES ASSUME Init PROVE Counters
  OBVIOUS
<1>1. saved = NewCheckpoint /\ cp = NewCheckpoint /\ foreign = 0 /\ pc = "down"
  BY Zenon DEF Init
<1> QED
  BY <1>1, NewCheckpointFacts DEF Counters, Alive

LEMMA BeginsCounters ==
  ASSUME Typed, Reading, Counters, NEW S \in SUBSET present, NEW d \in Checkpoints,
         Begins(d, S), BeginsEmpty(d, S) \/ BeginsAppending(d, S) \/ BeginsResumed(d, S)
  PROVE  Counters'
<1>1. /\ ~Alive /\ (~incremental => S = present) /\ ZeroElsewhere(d)
      /\ Range(d.names) \subseteq S /\ ~d.complete /\ AddUp(d)
      /\ cp' \in Checkpoints /\ Range(cp'.names) = S
      /\ cp'.row = d.row /\ cp'.complete = d.complete /\ pc' = "merging"
      /\ UNCHANGED <<present, incremental, saved, buffer>>
  BY DEF Begins, fileVars
<1>2. buffer = <<>> /\ Len(buffer) = 0 /\ Len(out) \in Nat /\ present \subseteq Sources
  BY <1>1, RowsType DEF Reading, Typed
<1>3. ZeroElsewhere(cp')
  BY <1>1 DEF ZeroElsewhere
<1>4. AddUp(cp')
  <2> SUFFICES ASSUME NEW s \in S
               PROVE  d.row[s].scanned = d.row[s].kept + d.row[s].rejected
    BY <1>1 DEF AddUp
  <2>1. CASE s \in Range(d.names)
    BY <1>1, <2>1 DEF AddUp
  <2>2. CASE s \notin Range(d.names)
    BY <1>1, <1>2, <2>2 DEF ZeroElsewhere, ZeroRow
  <2> QED
    BY <2>1, <2>2
<1>5. Kept(cp') = Kept(d) /\ Kept(d) \in Nat
  BY <1>1, <1>3, SameKept, KeptType
<1>6. Kept(cp') + foreign' = Len(out') + Len(buffer')
  <2>1. Len(<<>>) = 0
    OBVIOUS
  <2> QED
    BY <1>1, <1>2, <1>5, <2>1 DEF BeginsEmpty, BeginsAppending, BeginsResumed
<1>7. ASSUME ~incremental PROVE KeptWasRead(cp') /\ foreign' = 0
  <2>1. CASE BeginsEmpty(d, S)
    <3>1. \A s \in S : d.row[s].offset = 0 /\ d.row[s] = saved.row[s]
      BY <2>1 DEF BeginsEmpty
    <3>2. S = present /\ Range(saved.names) \subseteq S
      BY <1>1, <1>7 DEF Counters
    <3>3. \A s \in Sources : d.row[s] = saved.row[s] /\ d.row[s].offset = 0
      <4> SUFFICES ASSUME NEW s \in Sources
                   PROVE  d.row[s] = saved.row[s] /\ d.row[s].offset = 0
        OBVIOUS
      <4>1. CASE s \in S
        BY <3>1, <4>1
      <4>2. CASE s \notin S
        BY <1>1, <3>2, <4>2 DEF ZeroElsewhere, Counters, ZeroRow
      <4> QED
        BY <4>1, <4>2
    <3>4. \A s \in Sources : d.row[s].kept = 0
      BY <1>7, <3>3 DEF Counters, KeptWasRead
    <3>5. Kept(d) = 0
      BY <3>4, NoneKept
    <3> QED
      BY <1>1, <2>1, <3>4, <3>5 DEF KeptWasRead, BeginsEmpty
  <2>2. CASE BeginsAppending(d, S)
    BY <1>7, <2>2 DEF BeginsAppending
  <2>3. CASE BeginsResumed(d, S)
    <3>1. PICK s \in S : d.row[s].offset > 0
      BY <2>3 DEF BeginsResumed
    <3>2. s \in Sources /\ ~(d.row[s].offset = 0)
      BY <1>2, <3>1
    <3> QED
      BY <1>1, <2>3, <3>2 DEF KeptWasRead, BeginsResumed
  <2> QED
    BY <2>1, <2>2, <2>3
<1> QED
  BY <1>1, <1>3, <1>4, <1>6, <1>7 DEF Counters

LEMMA ApplyCounters ==
  ASSUME Typed, Reading, Counters, ApplyStep
  PROVE  Counters'
<1> DEFINE s == Item.source
<1>1. /\ pc = "merging" /\ feed # <<>> /\ pc' = pc /\ Alive
      /\ UNCHANGED <<present, incremental, foreign>>
  BY ApplyCounts DEF fileVars, sessionVars, Alive
<1>2. s \in Sources /\ s \in Range(cp.names) /\ Range(cp.names) \subseteq present
  <2>1. s \in filter /\ s \in Sources
    BY <1>1, ItemFacts
  <2> QED
    BY <1>1, <2>1 DEF Reading, Typed
<1>3. AddUp(cp) /\ Kept(cp) + foreign = Len(out) + Len(buffer) /\ ~cp.complete
      /\ ZeroElsewhere(cp) /\ cp \in Checkpoints
  BY <1>1 DEF Counters, Typed
<1>4. /\ Len(out) \in Nat /\ Len(buffer) \in Nat /\ Len(Rows) = Len(out) + Len(buffer)
      /\ Kept(cp) \in Nat /\ foreign \in Int
  BY <1>3, RowsType, KeptType DEF Typed
<1>5. \E a, k, r \in {0, 1} :
        /\ a = k + r /\ cp' = Counted(a, k, r)
        /\ Len(out') + Len(buffer') = Len(out) + Len(buffer) + k
  <2>1. CASE ApplyBlank \/ ApplyRejected
    <3>1. UNCHANGED <<out, buffer>>
      BY <2>1 DEF ApplyBlank, ApplyRejected
    <3>2. cp' = Counted(0, 0, 0) \/ cp' = Counted(1, 0, 1)
      BY <2>1 DEF ApplyBlank, ApplyRejected
    <3>3. /\ 0 = 0 + 0 /\ 1 = 0 + 1
          /\ Len(out') + Len(buffer') = Len(out) + Len(buffer) + 0
      BY <1>4, <3>1
    <3> QED
      BY <3>2, <3>3, Zenon
  <2>2. CASE ApplyKept
    <3>1. cp' = Counted(1, 1, 0)
      BY <2>2 DEF ApplyKept
    <3>2. Len(out') + Len(buffer') = Len(out) + Len(buffer) + 1
      <4>1. UNCHANGED buffer \/ Len(out') + Len(buffer') = Len(Rows) + 1
        BY ApplyRows
      <4>2. ~(ApplyBlank \/ ApplyRejected)
        BY <2>2 DEF ApplyKept, ApplyBlank, ApplyRejected
      <4>3. Len(out') + Len(buffer') = Len(Rows) + 1
        BY <4>2, ApplyRows
      <4> QED
        BY <1>4, <4>3
    <3>3. 1 = 1 + 0
      OBVIOUS
    <3> QED
      BY <3>1, <3>2, <3>3, Zenon
  <2> QED
    BY <2>1, <2>2 DEF ApplyStep
<1>6. PICK a, k, r \in {0, 1} :
        /\ a = k + r /\ cp' = Counted(a, k, r)
        /\ Len(out') + Len(buffer') = Len(out) + Len(buffer) + k
  BY <1>5
<1>7. /\ cp' \in Checkpoints /\ cp'.names = cp.names /\ cp'.complete = cp.complete
      /\ \A t \in Sources \ {s} : cp'.row[t] = cp.row[t]
      /\ cp'.row[s].offset = cp.row[s].offset + 1
      /\ cp'.row[s].scanned = cp.row[s].scanned + a
      /\ cp'.row[s].kept = cp.row[s].kept + k
      /\ cp'.row[s].rejected = cp.row[s].rejected + r
      /\ ZeroElsewhere(cp') /\ Kept(cp') = Kept(cp) + k
  BY <1>1, <1>6, CountedFacts
<1>8. \A t \in Sources : /\ cp.row[t].offset \in Nat /\ cp.row[t].scanned \in Nat
                         /\ cp.row[t].kept \in Nat /\ cp.row[t].rejected \in Nat
  BY <1>3, RowFields
<1>9. a \in Nat /\ k \in Nat /\ r \in Nat
  OBVIOUS
<1> HIDE DEF s
<1>10. AddUp(cp')
  <2> SUFFICES ASSUME NEW t \in Range(cp.names)
               PROVE  cp'.row[t].scanned = cp'.row[t].kept + cp'.row[t].rejected
    BY <1>7 DEF AddUp
  <2>1. t \in Sources /\ cp.row[t].scanned = cp.row[t].kept + cp.row[t].rejected
    BY <1>3, NamesFinite DEF AddUp
  <2>2. CASE t = s
    <3>1. /\ cp'.row[t].scanned = cp.row[t].scanned + a
          /\ cp'.row[t].kept = cp.row[t].kept + k
          /\ cp'.row[t].rejected = cp.row[t].rejected + r
      BY <1>7, <2>2
    <3>2. cp.row[t].kept \in Nat /\ cp.row[t].rejected \in Nat /\ a = k + r
      BY <1>6, <1>8, <2>1
    <3> QED
      BY <1>9, <2>1, <3>1, <3>2
  <2>3. CASE t # s
    BY <1>7, <2>1, <2>3
  <2> QED
    BY <2>2, <2>3
<1>11. KeptWasRead(cp')
  <2>1. ~(cp'.row[s].offset = 0)
    BY <1>2, <1>7, <1>8
  <2> QED
    BY <1>2, <2>1 DEF KeptWasRead
<1>12. Kept(cp') + foreign' = Len(out') + Len(buffer')
  BY <1>1, <1>3, <1>4, <1>6, <1>7, <1>9, SMTT(30)
<1>13. /\ ZeroElsewhere(saved') /\ Scanned(saved') /\ Range(saved'.names) \subseteq present
       /\ ~incremental => KeptWasRead(saved')
  <2>1. CASE saved' = saved
    BY <2>1 DEF Counters
  <2>2. CASE Save(Counted(1, 0, 0))
    <3>1. saved' = Counted(1, 0, 0)
      BY <2>2 DEF Save
    <3>2. /\ saved' \in Checkpoints /\ saved'.names = cp.names
          /\ \A t \in Sources \ {s} : saved'.row[t] = cp.row[t]
          /\ saved'.row[s].offset = cp.row[s].offset + 1
          /\ saved'.row[s].scanned = cp.row[s].scanned + 1
          /\ saved'.row[s].kept = cp.row[s].kept + 0
          /\ saved'.row[s].rejected = cp.row[s].rejected + 0
          /\ ZeroElsewhere(saved')
      BY <1>1, <3>1, CountedFacts DEF s
    <3>3. Scanned(cp)
      BY <1>3, AddUpIsScanned
    <3>4. Scanned(saved')
      <4> SUFFICES ASSUME NEW t \in Sources
                   PROVE  /\ saved'.row[t].scanned
                               >= saved'.row[t].kept + saved'.row[t].rejected
                          /\ saved'.row[t].offset = 0 =>
                               saved'.row[t].scanned
                                 = saved'.row[t].kept + saved'.row[t].rejected
        BY DEF Scanned
      <4>1. CASE t = s
        <5>1. cp.row[t].scanned = cp.row[t].kept + cp.row[t].rejected
          BY <1>2, <1>3, <4>1 DEF AddUp
        <5> QED
          BY <1>8, <3>2, <4>1, <5>1
      <4>2. CASE t # s
        BY <3>2, <3>3, <4>2 DEF Scanned
      <4> QED
        BY <4>1, <4>2
    <3>5. KeptWasRead(saved')
      <4>1. ~(saved'.row[s].offset = 0)
        BY <1>2, <1>8, <3>2
      <4> QED
        BY <1>2, <4>1 DEF KeptWasRead
    <3> QED
      BY <1>2, <3>2, <3>4, <3>5
  <2> QED
    BY <2>1, <2>2, ApplyRows
<1>14. ~cp'.complete
  BY <1>3, <1>7
<1>15. ~incremental => foreign = 0
  BY DEF Counters
<1> QED
  BY <1>1, <1>7, <1>10, <1>11, <1>12, <1>13, <1>14, <1>15 DEF Counters

(* What a session saves is its checkpoint, complete or not.                 *)
LEMMA SavedCounters ==
  ASSUME Typed, Reading, Counters, Alive, NEW c \in Checkpoints,
         c.names = cp.names, c.row = cp.row
  PROVE  /\ ZeroElsewhere(c) /\ Scanned(c) /\ AddUp(c) /\ Range(c.names) \subseteq present
         /\ Range(c.names) = filter
         /\ ~incremental => KeptWasRead(c)
<1>1. ZeroElsewhere(c) /\ AddUp(c)
  BY DEF Counters, ZeroElsewhere, AddUp
<1>2. Scanned(c)
  BY <1>1, AddUpIsScanned
<1>3. ~incremental => KeptWasRead(c)
  BY DEF Counters, KeptWasRead
<1>4. Range(c.names) = filter /\ filter \subseteq present
  BY DEF Reading, Typed
<1> QED
  BY <1>1, <1>2, <1>3, <1>4

(* What the end of a session, or of its sink, saves.                        *)
LEMMA EndSaves ==
  ASSUME Typed, EndStep
  PROVE  /\ Alive
         /\ \/ saved' = saved /\ cleared' = cleared
            \/ \E c \in Checkpoints : Save(c) /\ c.names = cp.names /\ c.row = cp.row
<1>1. /\ cp \in Checkpoints
      /\ [cp EXCEPT !.complete = TRUE] \in Checkpoints
      /\ [cp EXCEPT !.complete = TRUE].names = cp.names
      /\ [cp EXCEPT !.complete = TRUE].row = cp.row
  BY DEF Typed, Checkpoints
<1>2. Alive
  BY DEF EndStep, Pause, CloseSink, Complete, Fail, Crash, Alive
<1>3. \/ saved' = saved /\ cleared' = cleared
      \/ Save(cp) \/ Save([cp EXCEPT !.complete = TRUE])
  BY DEF EndStep, Pause, CloseSink, Complete, Fail, Crash
<1> QED
  BY <1>1, <1>2, <1>3

LEMMA EndCounters ==
  ASSUME Typed, Reading, Counters, EndStep
  PROVE  Counters'
<1>1. /\ ZeroElsewhere(saved') /\ Scanned(saved') /\ Range(saved'.names) \subseteq present
      /\ ~incremental => KeptWasRead(saved')
  BY EndSaves, SavedCounters DEF Save, Counters
<1>2. CASE CloseSink
  <2>1. /\ Alive /\ Alive' /\ out' = Rows /\ buffer' = <<>>
        /\ UNCHANGED <<present, incremental, cp, foreign>>
    BY <1>2 DEF CloseSink, Alive, Rows, fileVars, sessionVars
  <2>2. Len(<<>>) = 0 /\ Len(Rows) = Len(out) + Len(buffer) /\ Len(Rows) \in Nat
    BY RowsType
  <2>3. Len(out') + Len(buffer') = Len(out) + Len(buffer)
    BY <2>1, <2>2
  <2> QED
    BY <1>1, <2>1, <2>3 DEF Counters
<1>3. CASE Pause \/ Complete \/ Fail \/ Crash
  <2>1. Down /\ UNCHANGED <<present, incremental>>
    BY <1>3 DEF Pause, Complete, Fail, Crash, fileVars
  <2>2. cp' = NewCheckpoint /\ foreign' = 0 /\ ~Alive'
    BY <2>1 DEF Down, Alive
  <2> QED
    BY <1>1, <2>1, <2>2, NewCheckpointFacts DEF Counters
<1> QED
  BY <1>2, <1>3 DEF EndStep

LEMMA OutsideCounters ==
  ASSUME Counters, OutsideStep
  PROVE  Counters'
<1>1. /\ UNCHANGED <<saved, cp, incremental, foreign, pc>>
      /\ ~Alive /\ present \subseteq present'
  BY DEF OutsideStep, LoseRows, Download, sessionVars
<1> QED
  BY <1>1 DEF Counters, Alive

LEMMA CountersStep ==
  ASSUME Typed, Reading, Counters, [Next]_vars
  PROVE  Counters'
<1>1. CASE Start \/ \E S \in SUBSET present : StartIncremental(S)
  BY <1>1, SessionBegins, BeginsCounters
<1>2. ASSUME NEW s \in Sources, ReaderStep(s) PROVE Counters'
  <2>1. UNCHANGED <<saved, cp, incremental, present, foreign, pc, out, buffer>>
    BY <1>2, ReaderFrames DEF ReaderFrame, fileVars, sessionVars
  <2> QED
    BY <2>1 DEF Counters, Alive
<1>3. CASE ApplyStep
  BY <1>3, ApplyCounters
<1>4. CASE EndStep
  BY <1>4, EndCounters
<1>5. CASE OutsideStep
  BY <1>5, OutsideCounters
<1>6. CASE UNCHANGED vars
  BY <1>6 DEF vars, fileVars, sessionVars, Counters, Alive
<1> QED
  BY <1>1, <1>2, <1>3, <1>4, <1>5, <1>6, NextSteps
--------------------------------------------------------------------------------
(***************************************************************************)
(* What is known is what was written.                                       *)
(***************************************************************************)

LEMMA RowsPrefix ==
  ASSUME Typed
  PROVE  /\ DOMAIN Rows = 1 .. Len(Rows) /\ DOMAIN out = 1 .. Len(out)
         /\ \A i \in DOMAIN out : i \in DOMAIN Rows /\ Rows[i] = out[i]
         /\ Range(out) \subseteq Range(Rows)
<1>1. /\ Rows \in Seq(Contents) /\ out \in Seq(Contents) /\ buffer \in Seq(Contents)
      /\ Len(out) \in Nat /\ Len(buffer) \in Nat /\ Len(Rows) = Len(out) + Len(buffer)
  BY RowsType
<1>2. DOMAIN Rows = 1 .. Len(Rows) /\ DOMAIN out = 1 .. Len(out)
  BY <1>1, LenProperties
<1>3. \A i \in DOMAIN out : i \in DOMAIN Rows /\ Rows[i] = out[i]
  <2> SUFFICES ASSUME NEW i \in 1 .. Len(out)
               PROVE  i \in 1 .. Len(Rows) /\ Rows[i] = out[i]
    BY <1>2
  <2>1. i \in 1 .. Len(out) + Len(buffer) /\ i <= Len(out)
    BY <1>1
  <2> QED
    BY <1>1, <2>1, ConcatProperties DEF Rows
<1>4. Range(out) \subseteq Range(Rows)
  BY <1>3 DEF Range
<1> QED
  BY <1>2, <1>3, <1>4

(* With an empty buffer, the rows are the output.                           *)
LEMMA RowsAreOut ==
  /\ out \in Seq(Contents) /\ buffer = <<>> => Rows = out
  /\ out' \in Seq(Contents) /\ buffer' = <<>> => Rows' = out'
<1>1. out \in Seq(Contents) /\ buffer = <<>> => Rows = out
  BY ConcatEmptySeq DEF Rows
<1>2. out' \in Seq(Contents) /\ buffer' = <<>> => Rows' = out'
  BY ConcatEmptySeq DEF Rows
<1> QED
  BY <1>1, <1>2

LEMMA RangeOfAppend ==
  ASSUME NEW F \in Seq(Contents), NEW x \in Contents
  PROVE  Range(Append(F, x)) = Range(F) \cup {x}
<1>1. <<x>> \in Seq(Contents) /\ Range(<<x>>) = {x}
  BY DEF Range
<1>2. Append(F, x) = F \o <<x>>
  BY AppendIsConcat
<1>3. Range(F \o <<x>>) = Range(F) \cup Range(<<x>>)
  BY <1>1, RangeConcatenation, ZenonT(60)
<1> QED
  BY <1>1, <1>2, <1>3, Zenon

(* The end of a session leaves the rows, or the output alone.               *)
LEMMA EndRows ==
  ASSUME Typed, EndStep
  PROVE  /\ buffer' = <<>> /\ Rows' = out'
         /\ out' = Rows \/ out' = out
         /\ Pause \/ CloseSink => out' = Rows
<1>1. out' \in Seq(Contents)
  BY EndTyped DEF Typed
<1>2. buffer' = <<>>
  BY DEF EndStep, Pause, CloseSink, Complete, Fail, Crash, Down
<1>3. out' = Rows \/ out' = out
  BY DEF EndStep, Pause, CloseSink, Complete, Fail, Crash, Rows
<1>4. Pause \/ CloseSink => out' = Rows
  BY DEF Pause, CloseSink, Rows
<1> QED
  BY <1>1, <1>2, <1>3, <1>4, RowsAreOut

LEMMA InitKnowledge == Init => Knowledge
<1> SUFFICES ASSUME Init PROVE Knowledge
  OBVIOUS
<1>1. out = <<>> /\ buffer = <<>> /\ pc = "down"
  BY Zenon DEF Init
<1>2. <<>> \in Seq(Contents) /\ Range(<<>>) = {} /\ DOMAIN <<>> = {}
  BY EmptySeq DEF Range
<1>3. Rows = <<>>
  BY <1>1, <1>2, RowsAreOut
<1> QED
  BY <1>1, <1>2, <1>3 DEF Knowledge, Alive

(* When the rows are a first part of what they were, and nothing is known.  *)
LEMMA LessKnowledge ==
  ASSUME Knowledge, ~Alive', NEW n \in Nat, DOMAIN Rows' = 1 .. n,
         \A i \in 1 .. n : i \in DOMAIN Rows /\ Rows'[i] = Rows[i]
  PROVE  Knowledge'
<1>1. \A i, j \in DOMAIN Rows' : i < j => Rows'[i] # Rows'[j]
  BY DEF Knowledge
<1>2. Range(Rows') \subseteq Range(Rows)
  BY DEF Range
<1>3. \A x \in Range(Rows') : Fit(x)
  BY <1>2 DEF Knowledge
<1> QED
  BY <1>1, <1>3 DEF Knowledge, Fit

LEMMA BeginsKnowledge ==
  ASSUME Typed, Reading, Knowledge, NEW S \in SUBSET present, NEW d \in Checkpoints,
         Begins(d, S), BeginsEmpty(d, S) \/ BeginsAppending(d, S) \/ BeginsResumed(d, S)
  PROVE  Knowledge'
<1>1. buffer = <<>> /\ buffer' = <<>> /\ out \in Seq(Contents)
  BY DEF Begins, Reading, Typed
<1>2. Rows = out
  BY <1>1, RowsAreOut
<1>3. CASE BeginsEmpty(d, S)
  <2>1. out' = <<>> /\ known' = {} /\ <<>> \in Seq(Contents)
    BY <1>3, EmptySeq DEF BeginsEmpty
  <2>2. Rows' = <<>>
    BY <1>1, <2>1, RowsAreOut
  <2>3. DOMAIN <<>> = {} /\ Range(<<>>) = {}
    BY DEF Range
  <2> QED
    BY <2>1, <2>2, <2>3 DEF Knowledge
<1>4. CASE BeginsAppending(d, S) \/ BeginsResumed(d, S)
  <2>1. out' = out /\ known' = Range(out)
    BY <1>4 DEF BeginsAppending, BeginsResumed
  <2>2. Rows' = out
    BY <1>1, <2>1, RowsAreOut
  <2> QED
    BY <1>2, <2>1, <2>2 DEF Knowledge
<1> QED
  BY <1>3, <1>4

LEMMA ApplyKnowledge ==
  ASSUME Typed, Reading, Knowledge, ApplyStep
  PROVE  Knowledge'
<1>1. pc = "merging" /\ pc' = pc /\ feed # <<>> /\ Alive /\ Alive'
  BY ApplyCounts DEF Alive
<1>2. Content \in Contents \cup {Blank}
  BY <1>1, ItemFacts
<1>3. Range(Rows) \subseteq known /\ known \subseteq Range(Rows) \cup Unfit
  BY <1>1 DEF Knowledge
<1>4. CASE Rows' = Rows /\ (ApplyBlank \/ ApplyRejected)
  <2>1. known' = known \/ (known' = known \cup {Content} /\ Content \in Unfit \cup known)
    BY <1>4 DEF ApplyBlank, ApplyRejected
  <2>2. known' \subseteq known \cup Unfit /\ known \subseteq known'
    BY <2>1
  <2> QED
    BY <1>1, <1>3, <1>4, <2>2 DEF Knowledge
<1>5. CASE Rows' = Append(Rows, Content) /\ ApplyKept /\ Content \in Contents
  <2>1. Rows \in Seq(Contents)
    BY RowsType
  <2>2. Content \notin known /\ Fit(Content) /\ known' = known \cup {Content}
    BY <1>5 DEF ApplyKept, Fit
  <2>3. Range(Rows') = Range(Rows) \cup {Content}
    BY <1>5, <2>1, RangeOfAppend
  <2>4. /\ DOMAIN Rows' = 1 .. Len(Rows) + 1 /\ DOMAIN Rows = 1 .. Len(Rows)
        /\ \A i \in 1 .. Len(Rows) : Rows'[i] = Rows[i]
        /\ Rows'[Len(Rows) + 1] = Content /\ Len(Rows) \in Nat
    BY <1>5, <2>1, AppendProperties, LenProperties
  <2>5. ASSUME NEW i \in DOMAIN Rows', NEW j \in DOMAIN Rows', i < j
        PROVE  Rows'[i] # Rows'[j]
    <3>1. i \in DOMAIN Rows /\ Rows'[i] = Rows[i] /\ Rows[i] \in known
      <4>1. i \in 1 .. Len(Rows)
        BY <2>4, <2>5
      <4> QED
        BY <1>3, <2>4, <4>1 DEF Range
    <3>2. CASE j \in DOMAIN Rows
      BY <2>4, <2>5, <3>1, <3>2 DEF Knowledge
    <3>3. CASE j = Len(Rows) + 1
      BY <2>2, <2>4, <3>1, <3>3
    <3> QED
      BY <2>4, <3>2, <3>3
  <2>6. \A x \in Range(Rows') : Fit(x)
    BY <2>2, <2>3 DEF Knowledge
  <2>7. Range(Rows') \subseteq known' /\ known' \subseteq Range(Rows') \cup Unfit
    BY <1>3, <2>2, <2>3
  <2> QED
    BY <2>5, <2>6, <2>7 DEF Knowledge, Fit
<1> QED
  BY <1>4, <1>5, ApplyRows

LEMMA EndKnowledge ==
  ASSUME Typed, Reading, Knowledge, EndStep
  PROVE  Knowledge'
<1>1. CASE CloseSink
  <2>1. Rows' = Rows /\ known' = known /\ Alive
    BY <1>1, EndRows DEF EndStep, CloseSink, Alive
  <2> QED
    BY <2>1 DEF Knowledge
<1>2. CASE Pause \/ Complete \/ Fail \/ Crash
  <2>1. ~Alive'
    BY <1>2 DEF Pause, Complete, Fail, Crash, Down, Alive
  <2>2. Rows' = Rows \/ Rows' = out
    BY <1>2, EndRows DEF EndStep
  <2>3. /\ DOMAIN Rows = 1 .. Len(Rows) /\ DOMAIN out = 1 .. Len(out)
        /\ \A i \in DOMAIN out : i \in DOMAIN Rows /\ Rows[i] = out[i]
        /\ Len(Rows) \in Nat /\ Len(out) \in Nat
    BY RowsPrefix, RowsType
  <2>4. CASE Rows' = Rows
    <3>1. /\ DOMAIN Rows' = 1 .. Len(Rows)
          /\ \A i \in 1 .. Len(Rows) : i \in DOMAIN Rows /\ Rows'[i] = Rows[i]
      BY <2>3, <2>4
    <3> QED
      BY <2>1, <2>3, <3>1, LessKnowledge
  <2>5. CASE Rows' = out
    <3>1. /\ DOMAIN Rows' = 1 .. Len(out)
          /\ \A i \in 1 .. Len(out) : i \in DOMAIN Rows /\ Rows'[i] = Rows[i]
      BY <2>3, <2>5
    <3> QED
      BY <2>1, <2>3, <3>1, LessKnowledge
  <2> QED
    BY <2>2, <2>4, <2>5
<1> QED
  BY <1>1, <1>2 DEF EndStep

(* What is lost between two merges is the end of the output.                *)
LEMMA LoseRowsFacts ==
  ASSUME Typed, Reading, LoseRows
  PROVE  /\ out' \in Seq(Contents) /\ Rows = out /\ Rows' = out' /\ ~Alive /\ ~Alive'
         /\ \E n \in Nat :
              /\ n < Len(out) /\ Len(out') = n /\ DOMAIN out' = 1 .. n
              /\ \A i \in 1 .. n : i \in DOMAIN out /\ out'[i] = out[i]
<1>1. ~Alive /\ buffer = <<>> /\ buffer' = <<>> /\ ~Alive'
  BY DEF LoseRows, Reading, Alive
<1>2. out \in Seq(Contents) /\ Len(out) \in Nat /\ DOMAIN out = 1 .. Len(out)
      /\ \A i \in DOMAIN out : out[i] \in Contents
  BY RowsType, LenProperties, ElementOfSeq
<1>3. PICK n \in 0 .. Len(out) - 1 : out' = SubSeq(out, 1, n)
  BY DEF LoseRows
<1>4. n \in Nat /\ n < Len(out) /\ \A i \in 1 .. n : i \in DOMAIN out
  BY <1>2
<1>5. \A i \in 1 .. n : out[i] \in Contents
  BY <1>2, <1>4
<1>6. /\ out' \in Seq(Contents) /\ Len(out') = IF 1 <= n THEN n - 1 + 1 ELSE 0
      /\ \A i \in 1 .. n - 1 + 1 : out'[i] = out[1 + i - 1]
  BY <1>3, <1>4, <1>5, SubSeqProperties
<1>7. Len(out') = n /\ \A i \in 1 .. n : out'[i] = out[i]
  BY <1>4, <1>6
<1>8. DOMAIN out' = 1 .. n
  BY <1>6, <1>7, LenProperties
<1> QED
  BY <1>1, <1>2, <1>4, <1>6, <1>7, <1>8, RowsAreOut

LEMMA OutsideKnowledge ==
  ASSUME Typed, Reading, Knowledge, OutsideStep
  PROVE  Knowledge'
<1>1. CASE LoseRows
  <2>1. /\ Rows = out /\ Rows' = out' /\ ~Alive'
    BY <1>1, LoseRowsFacts
  <2>2. PICK n \in Nat : DOMAIN out' = 1 .. n
                         /\ \A i \in 1 .. n : i \in DOMAIN out /\ out'[i] = out[i]
    BY <1>1, LoseRowsFacts
  <2> QED
    BY <2>1, <2>2, LessKnowledge
<1>2. ASSUME NEW s \in Sources, Download(s) PROVE Knowledge'
  <2>1. UNCHANGED <<out, buffer, known, pc>>
    BY <1>2 DEF Download
  <2>2. Rows' = Rows
    BY <2>1 DEF Rows
  <2> QED
    BY <2>1, <2>2 DEF Knowledge, Alive
<1> QED
  BY <1>1, <1>2 DEF OutsideStep

LEMMA KnowledgeStep ==
  ASSUME Typed, Reading, Counters, Knowledge, [Next]_vars
  PROVE  Knowledge'
<1>1. CASE Start \/ \E S \in SUBSET present : StartIncremental(S)
  BY <1>1, SessionBegins, BeginsKnowledge
<1>2. ASSUME NEW s \in Sources, ReaderStep(s) PROVE Knowledge'
  <2>1. UNCHANGED <<out, buffer, known, pc>>
    BY <1>2, ReaderFrames DEF ReaderFrame
  <2>2. Rows' = Rows
    BY <2>1 DEF Rows
  <2> QED
    BY <2>1, <2>2 DEF Knowledge, Alive
<1>3. CASE ApplyStep
  BY <1>3, ApplyKnowledge
<1>4. CASE EndStep
  BY <1>4, EndKnowledge
<1>5. CASE OutsideStep
  BY <1>5, OutsideKnowledge
<1>6. CASE UNCHANGED vars
  <2>1. UNCHANGED <<out, buffer, known, pc>>
    BY <1>6 DEF vars
  <2>2. Rows' = Rows
    BY <2>1 DEF Rows
  <2> QED
    BY <2>1, <2>2 DEF Knowledge, Alive
<1> QED
  BY <1>1, <1>2, <1>3, <1>4, <1>5, <1>6, NextSteps
--------------------------------------------------------------------------------
(***************************************************************************)
(* What was read is there.                                                  *)
(***************************************************************************)

(* R has the fit contents that c says were read from the sources in S.      *)
HasRead(c, S, R) == \A s \in S : \A x \in Read(c, s) : Fit(x) => x \in R

LEMMA ThereIsRead ==
  /\ There <=>
       /\ Alive /\ ~incremental => Kept(saved) <= Len(out)
       /\ Alive /\ Uncut => HasRead(cp, filter, Range(Rows))
       /\ ~cleared /\ incremental => HasRead(saved, Sources, Range(out))
       /\ ~cleared /\ ~incremental /\ AddUp(saved) /\ Len(out) >= Kept(saved) =>
            HasRead(saved, Sources, First(Kept(saved)))
BY DEF There, HasRead

LEMMA NothingRead ==
  ASSUME Typed, NEW c, NEW s \in Sources, c.row[s].offset = 0
  PROVE  Read(c, s) = {}
<1>1. DOMAIN lines[s] = 1 .. Len(lines[s]) /\ Len(lines[s]) \in Nat
  BY LinesFacts
<1>2. {j \in DOMAIN lines[s] : j <= c.row[s].offset} = {}
  BY <1>1
<1> QED
  BY <1>2 DEF Read

(* A row that is made for a source says that nothing was read from it.      *)
LEMMA HasReadElsewhere ==
  ASSUME Typed, NEW c, ZeroElsewhere(c), NEW R, HasRead(c, Range(c.names), R)
  PROVE  HasRead(c, Sources, R)
<1> SUFFICES ASSUME NEW s \in Sources, NEW x \in Read(c, s), Fit(x)
             PROVE  x \in R
  BY DEF HasRead
<1>1. CASE s \in Range(c.names)
  BY <1>1 DEF HasRead
<1>2. CASE s \notin Range(c.names)
  <2>1. c.row[s].offset = 0
    BY <1>2 DEF ZeroElsewhere, ZeroRow
  <2> QED
    BY <2>1, NothingRead
<1> QED
  BY <1>1, <1>2

LEMMA FirstOfAll ==
  ASSUME out \in Seq(Contents), NEW n \in Nat
  PROVE  /\ First(n) \subseteq Range(out)
         /\ n = Len(out) => First(n) = Range(out)
<1>1. DOMAIN out = 1 .. Len(out) /\ Len(out) \in Nat
  BY LenProperties
<1>2. First(n) \subseteq Range(out)
  BY DEF First, Range
<1>3. ASSUME n = Len(out) PROVE Range(out) \subseteq First(n)
  <2>1. \A i \in DOMAIN out : i <= n
    BY <1>1, <1>3
  <2> QED
    BY <2>1 DEF First, Range
<1> QED
  BY <1>2, <1>3

(* The output that grows keeps its first rows.                              *)
LEMMA FirstStays ==
  ASSUME NEW n, \A i \in DOMAIN out : i <= n => i \in DOMAIN out' /\ out'[i] = out[i]
  PROVE  First(n) \subseteq First(n)'
BY DEF First

(* Whether a cut of the output matters to this session does not change.     *)
LEMMA UncutStays ==
  ASSUME Typed, Alive, UNCHANGED <<filter, begun>>
  PROVE  /\ cleared' = cleared \/ (\E c : Save(c)) => (Uncut' => Uncut)
         /\ (\E c : Save(c)) => (~cleared' => Uncut)
<1>1. \A s \in filter : begun[s] \in Nat
  BY DEF Typed
<1>2. (\E c : Save(c)) => cleared' = (cleared /\ \E s \in filter : begun[s] > 0)
  BY DEF Save
<1>3. Uncut' <=> (cleared' => \A s \in filter : begun[s] = 0)
  BY DEF Uncut
<1>4. (\A s \in filter : begun[s] = 0) <=> ~(\E s \in filter : begun[s] > 0)
  BY <1>1
<1> QED
  BY <1>2, <1>3, <1>4, Zenon DEF Uncut

LEMMA InitThere == Init => There
<1> SUFFICES ASSUME Init PROVE There
  OBVIOUS
<1>1. saved = NewCheckpoint /\ pc = "down"
  BY Zenon DEF Init
<1>2. \A s \in Sources : saved.row[s].offset = 0
  BY <1>1 DEF NewCheckpoint, ZeroRow
<1>3. Typed
  BY InitTyped
<1>4. \A s \in Sources : Read(saved, s) = {}
  BY <1>2, <1>3, NothingRead
<1> QED
  BY <1>1, <1>4 DEF There, Alive

LEMMA BeginsThere ==
  ASSUME Typed, Reading, Counters, There,
         NEW S \in SUBSET present, NEW d \in Checkpoints,
         Begins(d, S), BeginsEmpty(d, S) \/ BeginsAppending(d, S) \/ BeginsResumed(d, S)
  PROVE  There'
<1>1. /\ ~Alive /\ (~incremental => S = present)
      /\ \A s \in S : d.row[s].offset = saved.row[s].offset
      /\ \A s \in S : d.row[s].offset \in Nat /\ s \in Sources
      /\ Range(cp'.names) = S /\ cp'.row = d.row /\ filter' = S
      /\ begun' = [s \in Sources |-> d.row[s].offset]
      /\ UNCHANGED <<lines, incremental, saved, buffer>>
      /\ buffer = <<>> /\ out \in Seq(Contents)
  BY RowFields DEF Begins, fileVars, Reading, Typed
<1>2. \A s \in S : cp'.row[s].offset = saved.row[s].offset /\ begun'[s] = d.row[s].offset
  BY <1>1
<1>3. \A s \in S : Read(cp, s)' = Read(saved, s)
  BY <1>1, <1>2 DEF Read
<1>4. \A s \in Sources : Read(saved, s)' = Read(saved, s)
  BY <1>1 DEF Read
<1>5. CASE BeginsEmpty(d, S)
  <2>1. /\ out' = <<>> /\ \A s \in S : d.row[s].offset = 0
        /\ cleared' = (cleared \/ Resuming(saved, Sources))
    BY <1>5 DEF BeginsEmpty
  <2>2. \A s \in S : Read(saved, s) = {}
    BY <1>1, <2>1, NothingRead
  <2>3. ASSUME ~cleared' PROVE \A s \in Sources : Read(saved, s) = {}
    <3>1. ~Resuming(saved, Sources)
      BY <2>1, <2>3
    <3>2. \A s \in Sources : saved.row[s].offset = 0
      BY <3>1, ResumingFacts DEF Typed
    <3> QED
      BY <3>2, NothingRead
  <2>4. ASSUME ~incremental PROVE Kept(saved) <= Len(out')
    <3>1. \A s \in Sources : saved.row[s].offset = 0
      <4> SUFFICES ASSUME NEW s \in Sources PROVE saved.row[s].offset = 0
        OBVIOUS
      <4>1. CASE s \in S
        BY <1>1, <2>1, <4>1
      <4>2. CASE s \notin S
        <5>1. Range(saved.names) \subseteq S /\ ZeroElsewhere(saved)
          BY <1>1, <2>4 DEF Counters
        <5> QED
          BY <4>2, <5>1 DEF ZeroElsewhere, ZeroRow
      <4> QED
        BY <4>1, <4>2
    <3>2. \A s \in Sources : saved.row[s].kept = 0
      BY <2>4, <3>1 DEF Counters, KeptWasRead
    <3>3. Kept(saved) = 0
      BY <3>2, NoneKept DEF Typed
    <3>4. Len(<<>>) = 0
      OBVIOUS
    <3> QED
      BY <2>1, <3>3, <3>4
  <2>5. \A s \in filter' : Read(cp, s)' = {}
    BY <1>1, <1>3, <2>2
  <2>6. ~cleared' => \A s \in Sources : Read(saved, s)' = {}
    BY <1>4, <2>3
  <2> QED
    BY <1>1, <2>4, <2>5, <2>6 DEF There
<1>6. CASE BeginsAppending(d, S)
  <2>1. /\ out' = out /\ cleared' = cleared /\ incremental
        /\ \A s \in S : d.row[s].offset = 0
    BY <1>6 DEF BeginsAppending
  <2>2. \A s \in S : Read(saved, s) = {}
    BY <1>1, <2>1, NothingRead
  <2>3. \A s \in filter' : Read(cp, s)' = {}
    BY <1>1, <1>3, <2>2
  <2>4. ~cleared => \A s \in Sources : \A x \in Read(saved, s) : Fit(x) => x \in Range(out)
    BY <2>1 DEF There
  <2>5. ~cleared' => \A s \in Sources : \A x \in Read(saved, s)' : Fit(x) => x \in Range(out')
    BY <1>4, <2>1, <2>4
  <2> QED
    BY <1>1, <2>1, <2>3, <2>5 DEF There, Fit
<1>7. CASE BeginsResumed(d, S)
  <2>1. /\ out' = out /\ cleared' = cleared
        /\ ~incremental => AddUp(saved) /\ Kept(saved) <= Len(out)
        /\ \E s \in S : d.row[s].offset > 0
    BY <1>7 DEF BeginsResumed
  <2>2. ~Uncut' \/ ~cleared
    <3>1. PICK s \in S : d.row[s].offset > 0
      BY <2>1
    <3>2. ~(begun'[s] = 0)
      BY <1>1, <1>2, <3>1
    <3> QED
      BY <1>1, <2>1, <3>2 DEF Uncut
  <2>3. Kept(saved) \in Nat /\ Len(out) \in Nat
    BY RowsType, KeptType DEF Typed
  <2>4. ~cleared => HasRead(saved, Sources, Range(out))
    <3>1. CASE incremental
      BY <3>1, ThereIsRead
    <3>2. CASE ~incremental
      <4>1. ~cleared => HasRead(saved, Sources, First(Kept(saved)))
        BY <2>1, <2>3, <3>2, ThereIsRead
      <4>2. First(Kept(saved)) \subseteq Range(out)
        BY <1>1, <2>3, FirstOfAll
      <4> QED
        BY <4>1, <4>2 DEF HasRead
    <3> QED
      BY <3>1, <3>2
  <2>5. Rows' = out
    BY <1>1, <2>1, RowsAreOut
  <2>6. Uncut' => \A s \in filter' : \A x \in Read(cp, s)' : Fit(x) => x \in Range(Rows')
    BY <1>1, <1>3, <2>2, <2>4, <2>5 DEF HasRead
  <2>7. First(Kept(saved))' = First(Kept(saved))
    BY <1>1, <2>1 DEF First
  <2>8. /\ ~cleared /\ incremental =>
             \A s \in Sources : \A x \in Read(saved, s) : Fit(x) => x \in Range(out)
        /\ ~cleared /\ ~incremental /\ AddUp(saved) /\ Len(out) >= Kept(saved) =>
             \A s \in Sources : \A x \in Read(saved, s) : Fit(x) => x \in First(Kept(saved))
    BY DEF There
  <2>9. ~cleared' /\ incremental' =>
          \A s \in Sources : \A x \in Read(saved, s)' : Fit(x) => x \in Range(out')
    BY <1>1, <1>4, <2>1, <2>8
  <2>10. ~cleared' /\ ~incremental' /\ AddUp(saved') /\ Len(out') >= Kept(saved') =>
           \A s \in Sources : \A x \in Read(saved, s)' : Fit(x) => x \in First(Kept(saved))'
    BY <1>1, <1>4, <2>1, <2>7, <2>8
  <2>11. Alive' /\ ~incremental' => Kept(saved') <= Len(out')
    BY <1>1, <2>1
  <2> QED
    BY <2>6, <2>9, <2>10, <2>11 DEF There, Fit
<1> QED
  BY <1>5, <1>6, <1>7

(* The contents that were read and that are there with the applied line.    *)
LEMMA ApplyReads ==
  ASSUME Typed, Reading, Counters, Knowledge, ApplyStep,
         HasRead(cp, filter, Range(Rows)),
         NEW c, c.row[Item.source].offset = cp.row[Item.source].offset + 1,
         \A t \in filter \ {Item.source} : c.row[t].offset = cp.row[t].offset
  PROVE  HasRead(c, filter, Range(Rows'))
<1> DEFINE s == Item.source
<1>1. pc = "merging" /\ feed # <<>> /\ Alive
  BY ApplyCounts DEF Alive
<1>2. /\ s \in filter /\ s \in Sources /\ Item.no = cp.row[s].offset /\ Item.no \in Nat
      /\ Content = lines[s][Item.no + 1] /\ Content \in Contents \cup {Blank}
  BY <1>1, ItemFacts
<1>3. c.row[s].offset = Item.no + 1
  BY <1>2
<1> HIDE DEF s
<1>4. Range(Rows) \subseteq Range(Rows')
  <2>1. CASE Rows' = Rows
    BY <2>1
  <2>2. CASE Content \in Contents /\ Rows' = Append(Rows, Content)
    BY <2>2, RowsType, RangeOfAppend
  <2> QED
    BY <2>1, <2>2, ApplyRows
<1>5. Fit(Content) => Content \in Range(Rows')
  <2>1. CASE ApplyBlank
    BY <2>1 DEF ApplyBlank, Fit
  <2>2. CASE ApplyRejected
    <3>1. Content \in Unfit \cup known /\ known \subseteq Range(Rows) \cup Unfit
      BY <1>1, <2>2 DEF ApplyRejected, Knowledge
    <3> QED
      BY <1>4, <3>1 DEF Fit
  <2>3. CASE ApplyKept
    <3>1. ~(ApplyBlank \/ ApplyRejected)
      BY <2>3 DEF ApplyKept, ApplyBlank, ApplyRejected
    <3>2. Content \in Contents /\ Rows' = Append(Rows, Content)
      BY <3>1, ApplyRows
    <3> QED
      BY <3>2, RowsType, RangeOfAppend
  <2> QED
    BY <2>1, <2>2, <2>3 DEF ApplyStep
<1>6. ASSUME NEW t \in filter PROVE Read(c, t) \subseteq Read(cp, t) \cup {Content}
  <2>1. DOMAIN lines[t] = 1 .. Len(lines[t]) /\ Len(lines[t]) \in Nat
    BY LinesFacts DEF Typed
  <2>2. CASE t = s
    <3> SUFFICES ASSUME NEW i \in DOMAIN lines[t], i <= Item.no + 1
                 PROVE  lines[t][i] \in Read(cp, t) \cup {Content}
      BY <1>3, <2>2 DEF Read
    <3>1. CASE i = Item.no + 1
      BY <1>2, <2>2, <3>1
    <3>2. CASE i <= cp.row[t].offset
      BY <3>2 DEF Read
    <3>3. i = Item.no + 1 \/ i <= Item.no
      BY <1>2, <2>1
    <3> QED
      BY <1>2, <2>2, <3>1, <3>2, <3>3
  <2>3. CASE t # s
    <3>1. c.row[t].offset = cp.row[t].offset
      BY <2>3 DEF s
    <3> QED
      BY <3>1 DEF Read
  <2> QED
    BY <2>2, <2>3
<1> QED
  BY <1>4, <1>5, <1>6 DEF HasRead

LEMMA ApplyThere ==
  ASSUME Typed, Reading, Counters, Knowledge, There, ApplyStep
  PROVE  There'
<1> DEFINE s == Item.source
<1>1. /\ pc = "merging" /\ feed # <<>> /\ Alive
      /\ UNCHANGED <<lines, incremental, filter, begun>>
  BY ApplyCounts DEF Alive, fileVars, sessionVars
<1>2. s \in filter /\ s \in Sources /\ Range(cp.names) = filter /\ filter \subseteq Sources
  BY <1>1, ItemFacts DEF Reading, Typed
<1>3. PICK a, k, r \in {0, 1} : cp' = Counted(a, k, r)
  BY ApplyCounts
<1>4. /\ \A t \in Sources \ {s} : cp'.row[t] = cp.row[t]
      /\ cp'.row[s].offset = cp.row[s].offset + 1
  BY <1>1, <1>3, CountedFacts
<1>5. /\ Len(out) \in Nat /\ Len(buffer) \in Nat /\ Len(Rows) = Len(out) + Len(buffer)
      /\ Kept(saved) \in Nat /\ Kept(cp) \in Nat /\ Rows \in Seq(Contents)
      /\ out \in Seq(Contents)
  BY RowsType, KeptType DEF Typed
<1>6. \A c, t : Read(c, t)' = Read(c', t)
  BY <1>1 DEF Read
<1>7. Alive' /\ Uncut' =>
        \A t \in filter' : \A x \in Read(cp, t)' : Fit(x) => x \in Range(Rows')
  <2> SUFFICES ASSUME Uncut' PROVE HasRead(cp', filter, Range(Rows'))
    BY <1>1 DEF HasRead, Read
  <2>1. cleared' = cleared \/ \E c : Save(c)
    BY ApplyRows
  <2>2. Uncut
    BY <1>1, <2>1, UncutStays
  <2>3. HasRead(cp, filter, Range(Rows))
    BY <1>1, <2>2, ThereIsRead
  <2>4. \A t \in filter \ {s} : cp'.row[t].offset = cp.row[t].offset
    BY <1>2, <1>4
  <2> QED
    BY <1>4, <2>3, <2>4, ApplyReads
<1>8. CASE UNCHANGED <<out, saved, cleared>>
  <2>1. First(Kept(saved))' = First(Kept(saved))
    BY <1>8 DEF First
  <2>2. \A t \in Sources : Read(saved, t)' = Read(saved, t)
    BY <1>1, <1>8 DEF Read
  <2> QED
    BY <1>1, <1>7, <1>8, <2>1, <2>2 DEF There, Fit
<1>9. ASSUME out' = Rows', Rows' = Append(Rows, Content), Content \in Contents
      PROVE  /\ Len(out') = Len(Rows) + 1 /\ Len(out) <= Len(out')
             /\ Range(out) \subseteq Range(out')
             /\ \A n \in Nat : n <= Len(out) => First(n) \subseteq First(n)'
  <2>1. /\ Rows' \in Seq(Contents) /\ Len(Rows') = Len(Rows) + 1
        /\ \A i \in 1 .. Len(Rows) : Rows'[i] = Rows[i]
    <3>1. Rows \in Seq(Contents) /\ Content \in Contents
      BY <1>5, <1>9
    <3>2. /\ Append(Rows, Content) \in Seq(Contents)
          /\ Len(Append(Rows, Content)) = Len(Rows) + 1
          /\ \A i \in 1 .. Len(Rows) : Append(Rows, Content)[i] = Rows[i]
      BY <3>1, AppendProperties, SMT
    <3> QED
      BY <1>9, <3>2, Zenon
  <2>2. /\ DOMAIN Rows = 1 .. Len(Rows) /\ DOMAIN out = 1 .. Len(out)
        /\ \A i \in DOMAIN out : i \in DOMAIN Rows /\ Rows[i] = out[i]
        /\ Range(out) \subseteq Range(Rows)
    BY RowsPrefix
  <2>3. DOMAIN out' = 1 .. Len(Rows) + 1
    BY <1>9, <2>1, LenProperties
  <2>4. \A i \in DOMAIN out : i \in DOMAIN out' /\ out'[i] = out[i]
    BY <1>5, <1>9, <2>1, <2>2, <2>3
  <2>5. \A n \in Nat : n <= Len(out) => First(n) \subseteq First(n)'
    BY <2>4, FirstStays
  <2>6. Range(out) \subseteq Range(out')
    BY <2>4 DEF Range
  <2>7. Len(out') = Len(Rows) + 1
    BY <1>9, <2>1
  <2> QED
    BY <1>5, <2>5, <2>6, <2>7
<1>10. CASE /\ out' = Rows' /\ UNCHANGED <<saved, cleared>>
            /\ Rows' = Append(Rows, Content) /\ Content \in Contents
  <2>1. /\ Len(out') = Len(Rows) + 1 /\ Len(out) <= Len(out')
        /\ Range(out) \subseteq Range(out')
        /\ Kept(saved) <= Len(out) => First(Kept(saved)) \subseteq First(Kept(saved))'
    <3>1. Kept(saved)' = Kept(saved)
      BY <1>10
    <3>2. First(Kept(saved))' = {out'[i] : i \in {j \in DOMAIN out' : j <= Kept(saved)}}
      BY <1>10, <3>1 DEF First
    <3>3. Kept(saved) <= Len(out) =>
            First(Kept(saved)) \subseteq {out'[i] : i \in {j \in DOMAIN out' : j <= Kept(saved)}}
      <4>1. \A n \in Nat : n <= Len(out) =>
               First(n) \subseteq {out'[i] : i \in {j \in DOMAIN out' : j <= n}}
        BY <1>9, <1>10 DEF First
      <4> QED
        BY <1>5, <4>1
    <3> QED
      BY <1>9, <1>10, <3>2, <3>3
  <2>2. \A t \in Sources : Read(saved, t)' = Read(saved, t)
    BY <1>1, <1>10 DEF Read
  <2>3. ~incremental => Kept(saved) <= Len(out)
    BY <1>1 DEF There
  <2>4. ~incremental => Kept(saved) <= Len(out')
    BY <1>5, <2>1, <2>3
  <2>5. ~cleared /\ incremental =>
          \A t \in Sources : \A x \in Read(saved, t) : Fit(x) => x \in Range(out')
    BY <2>1 DEF There
  <2>6. ~cleared /\ ~incremental /\ AddUp(saved) =>
          \A t \in Sources : \A x \in Read(saved, t) : Fit(x) => x \in First(Kept(saved))'
    BY <1>5, <2>1, <2>3 DEF There
  <2>7. /\ Alive' /\ ~incremental' => Kept(saved') <= Len(out')
        /\ ~cleared' /\ incremental' =>
             \A t \in Sources : \A x \in Read(saved, t)' : Fit(x) => x \in Range(out')
    BY <1>1, <1>10, <2>2, <2>4, <2>5
  <2>8. ~cleared' /\ ~incremental' /\ AddUp(saved') /\ Len(out') >= Kept(saved') =>
          \A t \in Sources : \A x \in Read(saved, t)' : Fit(x) => x \in First(Kept(saved))'
    BY <1>1, <1>10, <2>2, <2>6
  <2> QED
    BY <1>7, <2>7, <2>8 DEF There, Fit
<1>11. CASE /\ out' = Rows' /\ Save(Counted(1, 0, 0))
            /\ Rows' = Append(Rows, Content) /\ Content \in Contents
  <2>1. saved' = Counted(1, 0, 0) /\ Len(out') = Len(Rows) + 1
    BY <1>9, <1>11 DEF Save
  <2>2. /\ saved' \in Checkpoints /\ saved'.names = cp.names
        /\ \A t \in Sources \ {s} : saved'.row[t] = cp.row[t]
        /\ saved'.row[s].offset = cp.row[s].offset + 1
        /\ saved'.row[s].scanned = cp.row[s].scanned + 1
        /\ saved'.row[s].kept = cp.row[s].kept + 0
        /\ saved'.row[s].rejected = cp.row[s].rejected + 0
        /\ ZeroElsewhere(saved') /\ Kept(saved') = Kept(cp) + 0
    BY <1>1, <2>1, CountedFacts
  <2>3. ~incremental => Kept(saved') <= Len(out')
    <3>1. ~incremental => Kept(cp) + 0 = Len(Rows)
      BY <1>1, <1>5 DEF Counters
    <3> QED
      BY <1>5, <2>1, <2>2, <3>1
  <2>4. ~AddUp(saved')
    <3>1. cp.row[s].scanned = cp.row[s].kept + cp.row[s].rejected
      BY <1>1, <1>2 DEF Counters, AddUp
    <3>2. cp.row[s].kept \in Nat /\ cp.row[s].rejected \in Nat
      BY <1>2, RowFields DEF Typed
    <3>3. saved'.row[s].scanned # saved'.row[s].kept + saved'.row[s].rejected
      BY <2>2, <3>1, <3>2
    <3> QED
      BY <1>2, <2>2, <3>3 DEF AddUp
  <2>5. ~cleared' => HasRead(saved', Sources, Range(out'))
    <3> SUFFICES ASSUME ~cleared' PROVE HasRead(saved', Sources, Range(out'))
      OBVIOUS
    <3>1. Uncut
      BY <1>1, <1>11, UncutStays
    <3>2. HasRead(cp, filter, Range(Rows))
      BY <1>1, <3>1, ThereIsRead
    <3>3. \A t \in filter \ {s} : saved'.row[t].offset = cp.row[t].offset
      BY <1>2, <2>2
    <3>4. HasRead(saved', filter, Range(Rows'))
      BY <2>2, <3>2, <3>3, ApplyReads
    <3> QED
      BY <1>2, <1>11, <2>2, <3>4, HasReadElsewhere
  <2>6. ~cleared' /\ incremental' =>
          \A t \in Sources : \A x \in Read(saved, t)' : Fit(x) => x \in Range(out')
    BY <1>1, <2>5 DEF HasRead, Read
  <2> QED
    BY <1>1, <1>7, <2>3, <2>4, <2>6 DEF There, Fit
<1> QED
  BY <1>8, <1>10, <1>11, ApplyRows

(* What a session saves goes with the rows that it leaves.                  *)
LEMMA EndLeaves ==
  ASSUME Typed, Reading, EndStep
  PROVE  \/ saved' = saved /\ cleared' = cleared
         \/ /\ out' = Rows
            /\ \E c \in Checkpoints : Save(c) /\ c.names = cp.names /\ c.row = cp.row
<1>1. CASE Pause \/ CloseSink
  BY <1>1, EndRows, EndSaves
<1>2. CASE Complete
  <2>1. out' = out /\ buffer = <<>> /\ out \in Seq(Contents)
    BY <1>2 DEF Complete, Reading, Typed
  <2>2. out' = Rows
    BY <2>1, RowsAreOut
  <2> QED
    BY <2>2, EndSaves
<1>3. CASE Fail \/ Crash
  BY <1>3 DEF Fail, Crash
<1> QED
  BY <1>1, <1>2, <1>3 DEF EndStep

LEMMA EndThere ==
  ASSUME Typed, Reading, Counters, There, EndStep
  PROVE  There'
<1>1. /\ Alive /\ UNCHANGED <<lines, incremental>>
      /\ Range(cp.names) = filter /\ filter \subseteq Sources
  BY EndSaves DEF EndStep, Pause, CloseSink, Complete, Fail, Crash, fileVars,
                  Reading, Typed
<1>2. /\ Len(out) \in Nat /\ Len(buffer) \in Nat /\ Len(Rows) = Len(out) + Len(buffer)
      /\ Kept(saved) \in Nat /\ Kept(cp) \in Nat /\ Rows \in Seq(Contents)
      /\ out \in Seq(Contents) /\ out' \in Seq(Contents)
  BY RowsType, KeptType, EndTyped DEF Typed
<1>3. Rows' = out' /\ (out' = Rows \/ out' = out)
  BY EndRows
<1>4. \A i \in DOMAIN out : i \in DOMAIN out' /\ out'[i] = out[i]
  BY <1>3, RowsPrefix
<1>5. Len(out) <= Len(out') /\ Range(out) \subseteq Range(out')
  <2>1. Range(out) \subseteq Range(out')
    BY <1>4 DEF Range
  <2> QED
    BY <1>2, <1>3, <2>1
<1>6. Alive' /\ Uncut' =>
        \A t \in filter' : \A x \in Read(cp, t)' : Fit(x) => x \in Range(Rows')
  <2> SUFFICES ASSUME Alive', Uncut'
               PROVE  \A t \in filter' : \A x \in Read(cp, t)' : Fit(x) => x \in Range(Rows')
    OBVIOUS
  <2>1. CloseSink
    BY DEF EndStep, Pause, Complete, Fail, Crash, Down, Alive
  <2>2. /\ UNCHANGED <<filter, begun, cp>> /\ out' = Rows
        /\ (UNCHANGED <<saved, cleared>> \/ Save(cp))
    BY <2>1, EndRows DEF CloseSink, sessionVars
  <2>3. Uncut
    BY <1>1, <2>2, UncutStays
  <2>4. HasRead(cp, filter, Range(Rows))
    BY <1>1, <2>3, ThereIsRead
  <2> QED
    BY <1>1, <1>3, <2>2, <2>4 DEF HasRead, Read
<1>7. CASE saved' = saved /\ cleared' = cleared
  <2>1. \A t \in Sources : Read(saved, t)' = Read(saved, t)
    BY <1>1, <1>7 DEF Read
  <2>2. ~incremental => Kept(saved) <= Len(out) /\ Kept(saved) <= Len(out')
    BY <1>1, <1>2, <1>3, <1>5 DEF There
  <2>3. First(Kept(saved)) \subseteq First(Kept(saved))'
    <3>1. First(Kept(saved))' = {out'[i] : i \in {j \in DOMAIN out' : j <= Kept(saved)}}
      BY <1>7 DEF First
    <3> QED
      BY <1>4, <3>1 DEF First
  <2>4. ~cleared /\ incremental =>
          \A t \in Sources : \A x \in Read(saved, t) : Fit(x) => x \in Range(out')
    BY <1>5 DEF There
  <2>5. ~cleared /\ ~incremental /\ AddUp(saved) =>
          \A t \in Sources : \A x \in Read(saved, t) : Fit(x) => x \in First(Kept(saved))'
    BY <1>2, <2>2, <2>3 DEF There
  <2>6. /\ Alive' /\ ~incremental' => Kept(saved') <= Len(out')
        /\ ~cleared' /\ incremental' =>
             \A t \in Sources : \A x \in Read(saved, t)' : Fit(x) => x \in Range(out')
    BY <1>1, <1>7, <2>1, <2>2, <2>4
  <2>7. ~cleared' /\ ~incremental' /\ AddUp(saved') /\ Len(out') >= Kept(saved') =>
          \A t \in Sources : \A x \in Read(saved, t)' : Fit(x) => x \in First(Kept(saved))'
    BY <1>1, <1>7, <2>1, <2>5
  <2> QED
    BY <1>6, <2>6, <2>7 DEF There, Fit
<1>8. ASSUME NEW c \in Checkpoints, Save(c), c.names = cp.names, c.row = cp.row,
             out' = Rows
      PROVE  There'
  <2>1. saved' = c /\ cleared' = (cleared /\ \E s \in filter : begun[s] > 0)
    BY <1>8 DEF Save
  <2>2. ~cleared' => Uncut
    <3>1. \A s \in filter : begun[s] \in Nat
      BY DEF Typed
    <3>2. (\A s \in filter : begun[s] = 0) <=> ~(\E s \in filter : begun[s] > 0)
      BY <3>1
    <3> QED
      BY <2>1, <3>2, Zenon DEF Uncut
  <2>3. Kept(c) = Kept(cp)
    BY <1>8 DEF Kept
  <2>4. ~incremental => Kept(c) = Len(out')
    BY <1>1, <1>2, <1>8, <2>3 DEF Counters
  <2>5. ZeroElsewhere(c) /\ Range(c.names) = filter
    BY <1>1, <1>8, SavedCounters
  <2>6. ~cleared' => HasRead(c, Sources, Range(out'))
    <3> SUFFICES ASSUME ~cleared' PROVE HasRead(c, Sources, Range(out'))
      OBVIOUS
    <3>1. HasRead(cp, filter, Range(Rows))
      BY <1>1, <2>2, ThereIsRead
    <3>2. HasRead(c, filter, Range(out'))
      BY <1>8, <3>1 DEF HasRead, Read
    <3> QED
      BY <2>5, <3>2, HasReadElsewhere
  <2>7. \A t \in Sources : Read(saved, t)' = Read(c, t)
    BY <1>1, <2>1 DEF Read
  <2>8. ~incremental => First(Kept(saved))' = Range(out')
    <3>1. DOMAIN out' = 1 .. Len(out') /\ Len(out') \in Nat
      BY <1>2, LenProperties
    <3>2. First(Kept(saved))' = {out'[i] : i \in {j \in DOMAIN out' : j <= Kept(c)}}
      BY <2>1 DEF First
    <3>3. ~incremental => {j \in DOMAIN out' : j <= Kept(c)} = DOMAIN out'
      BY <2>4, <3>1
    <3> QED
      BY <3>2, <3>3 DEF Range
  <2>9. /\ Alive' /\ ~incremental' => Kept(saved') <= Len(out')
        /\ ~cleared' /\ incremental' =>
             \A t \in Sources : \A x \in Read(saved, t)' : Fit(x) => x \in Range(out')
    <3>1. Len(out') \in Nat
      BY <1>2, LenProperties
    <3> QED
      BY <1>1, <2>1, <2>4, <2>6, <2>7, <3>1 DEF HasRead
  <2>10. ~cleared' /\ ~incremental' /\ AddUp(saved') /\ Len(out') >= Kept(saved') =>
           \A t \in Sources : \A x \in Read(saved, t)' : Fit(x) => x \in First(Kept(saved))'
    BY <1>1, <2>6, <2>7, <2>8 DEF HasRead
  <2> QED
    BY <1>6, <2>9, <2>10 DEF There, Fit
<1> QED
  BY <1>7, <1>8, EndLeaves

LEMMA OutsideThere ==
  ASSUME Typed, Reading, There, OutsideStep
  PROVE  There'
<1>1. UNCHANGED <<lines, incremental, saved, cleared>> /\ ~Alive /\ ~Alive'
  BY DEF OutsideStep, LoseRows, Download, Alive
<1>2. \A t \in Sources : Read(saved, t)' = Read(saved, t)
  BY <1>1 DEF Read
<1>3. CASE LoseRows
  <2>1. ~incremental
    BY <1>3 DEF LoseRows
  <2>2. PICK n \in Nat :
          /\ n < Len(out) /\ Len(out') = n /\ DOMAIN out' = 1 .. n
          /\ \A i \in 1 .. n : i \in DOMAIN out /\ out'[i] = out[i]
    BY <1>3, LoseRowsFacts
  <2>3. Kept(saved) \in Nat /\ Len(out) \in Nat
    BY RowsType, KeptType DEF Typed
  <2>4. DOMAIN out = 1 .. Len(out)
    BY RowsPrefix
  <2>5. Kept(saved) <= n => First(Kept(saved)) \subseteq First(Kept(saved))'
    <3>1. First(Kept(saved))' = {out'[i] : i \in {j \in DOMAIN out' : j <= Kept(saved)}}
      BY <1>1 DEF First
    <3>2. Kept(saved) <= n => \A i \in DOMAIN out : i <= Kept(saved) =>
            i \in DOMAIN out' /\ out'[i] = out[i]
      BY <2>2, <2>3, <2>4
    <3> QED
      BY <3>1, <3>2 DEF First
  <2>6. ~cleared /\ AddUp(saved) /\ Kept(saved) <= n =>
          \A t \in Sources : \A x \in Read(saved, t) : Fit(x) => x \in First(Kept(saved))'
    BY <2>1, <2>2, <2>3, <2>5 DEF There
  <2>7. ~cleared' /\ ~incremental' /\ AddUp(saved') /\ Len(out') >= Kept(saved') =>
          \A t \in Sources : \A x \in Read(saved, t)' : Fit(x) => x \in First(Kept(saved))'
    BY <1>1, <1>2, <2>2, <2>3, <2>6
  <2> QED
    BY <1>1, <2>1, <2>7 DEF There, Fit
<1>4. ASSUME NEW s \in Sources, Download(s) PROVE There'
  <2>1. UNCHANGED <<out, buffer>>
    BY <1>4 DEF Download
  <2>2. First(Kept(saved))' = First(Kept(saved))
    BY <1>1, <2>1 DEF First
  <2> QED
    BY <1>1, <1>2, <2>1, <2>2 DEF There, Fit
<1> QED
  BY <1>3, <1>4 DEF OutsideStep

LEMMA SameThere ==
  ASSUME There,
         UNCHANGED <<lines, incremental, out, saved, cleared, cp, buffer, filter, begun, pc>>
  PROVE  There'
<1>1. /\ \A t \in Sources : Read(saved, t)' = Read(saved, t)
      /\ \A t \in filter : Read(cp, t)' = Read(cp, t)
  BY DEF Read
<1>2. Rows' = Rows /\ First(Kept(saved))' = First(Kept(saved))
  BY DEF Rows, First
<1>3. (Alive' <=> Alive) /\ (Uncut' <=> Uncut)
  BY DEF Alive, Uncut
<1> QED
  BY <1>1, <1>2, <1>3 DEF There, Fit

LEMMA ThereStep ==
  ASSUME Typed, Reading, Counters, Knowledge, There, [Next]_vars
  PROVE  There'
<1>1. CASE Start \/ \E S \in SUBSET present : StartIncremental(S)
  BY <1>1, SessionBegins, BeginsThere
<1>2. ASSUME NEW s \in Sources, ReaderStep(s) PROVE There'
  BY <1>2, ReaderFrames, SameThere DEF ReaderFrame, fileVars, sessionVars
<1>3. CASE ApplyStep
  BY <1>3, ApplyThere
<1>4. CASE EndStep
  BY <1>4, EndThere
<1>5. CASE OutsideStep
  BY <1>5, OutsideThere
<1>6. CASE UNCHANGED vars
  BY <1>6, SameThere DEF vars, fileVars, sessionVars
<1> QED
  BY <1>1, <1>2, <1>3, <1>4, <1>5, <1>6, NextSteps
--------------------------------------------------------------------------------
(***************************************************************************)
(* The mix.                                                                 *)
(***************************************************************************)

(* The turns of the sources do not overlap, and all are in the schedule.    *)
LEMMA TurnsAreApart ==
  ASSUME NEW F \in SUBSET Sources, NEW s \in F
  PROVE  LET first(u) == EntriesOf({t \in F : t < u})
         IN /\ first(s) \in Nat /\ Weight[s] \in Nat \ {0} /\ EntriesOf(F) \in Nat \ {0}
            /\ first(s) + Weight[s] <= EntriesOf(F)
            /\ \A t \in F : s < t => first(s) + Weight[s] <= first(t)
<1> DEFINE below(u) == {t \in F : t < u}
           E == below(s) \cup {s}
<1>1. below(s) \in SUBSET Sources /\ E \in SUBSET Sources /\ E \in SUBSET F
      /\ s \in Sources /\ s \in Nat /\ F \subseteq Nat
  BY SourcesAssumption
<1>2. E \ {s} = below(s) /\ s \in E
  BY <1>1
<1>3. EntriesOf(below(s)) \in Nat /\ EntriesOf(E) \in Nat
  BY <1>1, EntriesType
<1>4. EntriesOf(E) = EntriesOf(below(s)) + Weight[s]
  <2>1. EntriesOf(E) = EntriesOf(E \ {s}) + Weight[s]
    BY <1>1, <1>2, EntriesType
  <2> QED
    BY <1>2, <2>1
<1>5. EntriesOf(E) <= EntriesOf(F)
  BY <1>1, EntriesType
<1>6. ASSUME NEW t \in F, s < t PROVE EntriesOf(E) <= EntriesOf(below(t))
  <2>1. E \in SUBSET below(t) /\ below(t) \in SUBSET Sources
    <3>1. \A u \in E : u \in F /\ u \in Nat /\ (u < s \/ u = s)
      BY <1>1
    <3>2. t \in Nat /\ s \in Nat
      BY <1>1
    <3>3. \A u \in E : u < t
      BY <1>6, <3>1, <3>2
    <3>4. E \in SUBSET below(t)
      BY <3>1, <3>3
    <3>5. below(t) \in SUBSET Sources
      OBVIOUS
    <3> QED
      BY <3>4, <3>5
  <2> HIDE DEF E, below
  <2> QED
    BY <2>1, EntriesType
<1>7. EntriesOf(F) \in Nat \ {0} /\ Weight[s] \in Nat \ {0}
  BY RoundPositive
<1> QED
  BY <1>3, <1>4, <1>5, <1>6, <1>7

LEMMA PassedFacts ==
  ASSUME NEW F \in SUBSET Sources, NEW s \in F, NEW p \in Nat
  PROVE  /\ Passed(F, s, p) \in 0 .. Weight[s] /\ Passed(F, s, 0) = 0
         /\ Passed(F, s, EntriesOf(F)) = Weight[s]
<1> DEFINE first == EntriesOf({t \in F : t < s})
<1>1. /\ first \in Nat /\ Weight[s] \in Nat \ {0} /\ EntriesOf(F) \in Nat
      /\ first + Weight[s] <= EntriesOf(F)
  BY TurnsAreApart
<1>2. \A q : Passed(F, s, q) = IF q <= first THEN 0
                               ELSE IF q >= first + Weight[s] THEN Weight[s]
                                    ELSE q - first
  BY DEF Passed
<1> HIDE DEF first
<1> QED
  BY <1>1, <1>2

(* A turn of s is passed, and no other.                                     *)
LEMMA PassedStep ==
  ASSUME NEW F \in SUBSET Sources, NEW s \in F, NEW p \in Nat,
         p \in EntriesOf({t \in F : t < s})
                 .. EntriesOf({t \in F : t < s}) + Weight[s] - 1
  PROVE  /\ p + 1 \in 1 .. EntriesOf(F)
         /\ Passed(F, s, p + 1) = Passed(F, s, p) + 1
         /\ \A t \in F \ {s} : Passed(F, t, p + 1) = Passed(F, t, p)
<1> DEFINE first(u) == EntriesOf({t \in F : t < u})
<1>1. \A u \in F : first(u) \in Nat /\ Weight[u] \in Nat \ {0}
  BY TurnsAreApart
<1>2. \A t, u \in F : t < u => first(t) + Weight[t] <= first(u)
  BY TurnsAreApart
<1>3. EntriesOf(F) \in Nat /\ first(s) + Weight[s] <= EntriesOf(F)
  BY TurnsAreApart
<1>4. \A u, q : Passed(F, u, q) = IF q <= first(u) THEN 0
                                  ELSE IF q >= first(u) + Weight[u] THEN Weight[u]
                                       ELSE q - first(u)
  BY DEF Passed
<1>5. p \in first(s) .. first(s) + Weight[s] - 1
  OBVIOUS
<1> HIDE DEF first
<1>6. p + 1 \in 1 .. EntriesOf(F)
  BY <1>1, <1>3, <1>5
<1>7. Passed(F, s, p + 1) = Passed(F, s, p) + 1
  BY <1>1, <1>4, <1>5
<1>8. ASSUME NEW t \in F \ {s} PROVE Passed(F, t, p + 1) = Passed(F, t, p)
  <2>1. s < t \/ t < s
    BY SourcesAssumption
  <2>2. CASE s < t
    <3>1. p + 1 <= first(t) /\ p <= first(t)
      BY <1>1, <1>2, <1>5, <2>2
    <3> QED
      BY <1>4, <3>1
  <2>3. CASE t < s
    <3>1. /\ p >= first(t) + Weight[t] /\ p + 1 >= first(t) + Weight[t]
          /\ ~(p <= first(t)) /\ ~(p + 1 <= first(t))
      BY <1>1, <1>2, <1>5, <2>3
    <3> QED
      BY <1>4, <3>1
  <2> QED
    BY <2>1, <2>2, <2>3
<1> QED
  BY <1>6, <1>7, <1>8

LEMMA Wraps ==
  ASSUME NEW n \in Nat, NEW p \in Nat, p + 1 \in 1 .. n
  PROVE  (p + 1) % n = IF p + 1 = n THEN 0 ELSE p + 1
<1>1. p + 1 < n => (p + 1) % n = p + 1
  OBVIOUS
<1>2. n % n = 0
  OBVIOUS
<1> QED
  BY <1>1, <1>2

(* At the end of the schedule, the next round begins.                       *)
LEMMA NextRound ==
  ASSUME NEW m \in [Sources -> Nat], NEW b \in [Sources -> Nat],
         NEW F \in SUBSET Sources, NEW S \in SUBSET F,
         NEW r \in Nat, At(m, b, F, r, EntriesOf(F), S)
  PROVE  At(m, b, F, r + 1, 0, S)
<1> SUFFICES ASSUME NEW s \in S
             PROVE  m[s] - b[s] = (r + 1) * Weight[s] + Passed(F, s, 0)
  BY DEF At
<1>1. s \in F /\ s \in Sources
  OBVIOUS
<1>2. m[s] - b[s] = r * Weight[s] + Weight[s] /\ Passed(F, s, 0) = 0
  BY <1>1, PassedFacts DEF At
<1>3. Weight[s] \in Nat
  BY <1>1, WeightAssumption
<1>4. \A w \in Nat : r * w + w = (r + 1) * w + 0
  OBVIOUS
<1> QED
  BY <1>2, <1>3, <1>4

(* One turn: what is read, and what is not.                                 *)
LEMMA TurnOnSchedule ==
  ASSUME Typed, NEW s \in Sources, Turn(s), NextTurn,
         NEW n \in [Sources -> Nat], NEW S \in SUBSET filter,
         NEW r \in Nat, At(next, begun, filter, r, tick, S),
         \A t \in S \ {s} : n[t] = next[t],
         s \in S => n[s] = next[s] + 1
  PROVE  \E q \in Nat : At(n, begun, filter, q, tick', S)
<1>1. /\ s \in filter /\ filter \in SUBSET Sources /\ tick \in Nat
      /\ tick \in Before(s) .. Before(s) + Weight[s] - 1
      /\ tick' = (tick + 1) % EntriesOf(filter)
      /\ next \in [Sources -> Nat] /\ begun \in [Sources -> Nat]
  BY DEF Turn, Entries, NextTurn, Typed
<1>2. /\ tick + 1 \in 1 .. EntriesOf(filter)
      /\ Passed(filter, s, tick + 1) = Passed(filter, s, tick) + 1
      /\ \A t \in filter \ {s} : Passed(filter, t, tick + 1) = Passed(filter, t, tick)
  BY <1>1, PassedStep DEF Before
<1>3. At(n, begun, filter, r, tick + 1, S)
  <2> SUFFICES ASSUME NEW t \in S
               PROVE  n[t] - begun[t] = r * Weight[t] + Passed(filter, t, tick + 1)
    BY DEF At
  <2>1. next[t] - begun[t] = r * Weight[t] + Passed(filter, t, tick)
    BY DEF At
  <2>2. CASE t # s
    BY <1>2, <2>1, <2>2
  <2>3. CASE t = s
    <3>1. Passed(filter, s, tick) \in Nat /\ Weight[s] \in Nat
      BY <1>1, PassedFacts, WeightAssumption
    <3>2. r * Weight[s] \in Nat /\ next[s] \in Nat /\ begun[s] \in Nat
      BY <1>1, <3>1
    <3>3. n[s] = next[s] + 1
      BY <2>3
    <3>4. \A x, b, w, c \in Nat : x - b = w + c => (x + 1) - b = w + (c + 1)
      OBVIOUS
    <3> QED
      BY <1>2, <2>1, <2>3, <3>1, <3>2, <3>3, <3>4
  <2> QED
    BY <2>2, <2>3
<1>4. EntriesOf(filter) \in Nat
  BY <1>1, EntriesType
<1>5. tick' = IF tick + 1 = EntriesOf(filter) THEN 0 ELSE tick + 1
  BY <1>1, <1>2, <1>4, Wraps
<1>6. CASE tick + 1 = EntriesOf(filter)
  <2>1. At(n, begun, filter, r + 1, 0, S)
    BY <1>1, <1>3, <1>6, NextRound
  <2>2. r + 1 \in Nat
    OBVIOUS
  <2> QED
    BY <1>5, <1>6, <2>1, <2>2
<1>7. CASE tick + 1 # EntriesOf(filter)
  BY <1>3, <1>5, <1>7
<1> QED
  BY <1>6, <1>7

(* The lines that wait behind the end of feed are none.                     *)
LEMMA MarkOfAll ==
  ASSUME NEW G \in Seq(Items), NEW n \in [Sources -> Nat], NEW F \in SUBSET Sources
  PROVE  Mark(n, G, Len(G), n, F)
<1>1. DOMAIN G = 1 .. Len(G) /\ Len(G) \in Nat
  BY LenProperties
<1> SUFFICES ASSUME NEW s \in F
             PROVE  /\ n[s] <= n[s]
                    /\ {G[j].no : j \in {k \in DOMAIN G : k > Len(G) /\ G[k].source = s}}
                         = n[s] .. n[s] - 1
  BY Zenon DEF Mark
<1>2. {k \in DOMAIN G : k > Len(G) /\ G[k].source = s} = {}
  BY <1>1
<1>3. n[s] \in Nat
  OBVIOUS
<1>4. n[s] .. n[s] - 1 = {} /\ n[s] <= n[s]
  BY <1>3
<1> QED
  BY <1>2, <1>4

(* A line that is read waits behind all that are there.                     *)
LEMMA MarkAppend ==
  ASSUME NEW G \in Seq(Items), NEW n \in [Sources -> Nat], NEW F \in SUBSET Sources,
         NEW m \in [Sources -> Nat], NEW i \in 0 .. Len(G), NEW s \in F,
         Mark(m, G, i, n, F)
  PROVE  Mark(m, Append(G, [source |-> s, no |-> n[s]]), i, [n EXCEPT ![s] = n[s] + 1], F)
<1> DEFINE e == [source |-> s, no |-> n[s]]
           H == Append(G, e)
           k == Len(G) + 1
           o == [n EXCEPT ![s] = n[s] + 1]
           W(X, t) == {j \in DOMAIN X : j > i /\ X[j].source = t}
<1>1. s \in Sources /\ n[s] \in Nat /\ e \in Items /\ e.source = s /\ e.no = n[s]
  BY DEF Items
<1>2. DOMAIN G = 1 .. Len(G) /\ Len(G) \in Nat
  BY LenProperties
<1> HIDE DEF e
<1>3. /\ DOMAIN H = 1 .. k /\ H[k] = e /\ \A j \in 1 .. Len(G) : H[j] = G[j]
  BY <1>1, <1>2, AppendProperties, LenProperties
<1> HIDE DEF H
<1>4. W(H, s) = W(G, s) \cup {k} /\ \A t \in F \ {s} : W(H, t) = W(G, t)
  BY <1>1, <1>2, <1>3
<1>5. \A t \in F : \A j \in W(G, t) : H[j] = G[j]
  BY <1>2, <1>3
<1>6. o[s] = n[s] + 1 /\ \A t \in F \ {s} : o[t] = n[t]
  BY <1>1
<1>7. \A t \in F : m[t] <= n[t] /\ {G[j].no : j \in W(G, t)} = m[t] .. n[t] - 1
  BY Zenon DEF Mark
<1> HIDE DEF o, W
<1>8. {H[j].no : j \in W(H, s)} = {G[j].no : j \in W(G, s)} \cup {n[s]}
  <2>1. \A j \in W(H, s) : H[j].no \in {G[l].no : l \in W(G, s)} \cup {n[s]}
    BY <1>1, <1>3, <1>4, <1>5
  <2>2. \A j \in W(G, s) : j \in W(H, s) /\ H[j].no = G[j].no
    BY <1>4, <1>5
  <2>3. k \in W(H, s) /\ H[k].no = n[s]
    BY <1>1, <1>3, <1>4
  <2> QED
    BY <2>1, <2>2, <2>3, ZenonT(60)
<1>9. m[s] <= n[s] /\ {G[j].no : j \in W(G, s)} = m[s] .. n[s] - 1
  BY <1>7, Zenon
<1>10. m[s] <= o[s] /\ {H[j].no : j \in W(H, s)} = m[s] .. o[s] - 1
  <2>1. m[s] \in Nat
    BY <1>1
  <2>2. (m[s] .. n[s] - 1) \cup {n[s]} = m[s] .. o[s] - 1
    BY <1>1, <1>6, <1>9, <2>1
  <2>3. m[s] <= o[s]
    BY <1>1, <1>6, <1>9, <2>1
  <2> QED
    BY <1>8, <1>9, <2>2, <2>3, Zenon
<1>11. \A t \in F \ {s} : m[t] <= o[t] /\ {H[j].no : j \in W(H, t)} = m[t] .. o[t] - 1
  <2> SUFFICES ASSUME NEW t \in F \ {s}
               PROVE  m[t] <= o[t] /\ {H[j].no : j \in W(H, t)} = m[t] .. o[t] - 1
    OBVIOUS
  <2>1. {H[j].no : j \in W(H, t)} = {G[j].no : j \in W(G, t)}
    BY <1>4, <1>5
  <2>2. m[t] <= n[t] /\ {G[j].no : j \in W(G, t)} = m[t] .. n[t] - 1
    BY <1>7, Zenon
  <2> QED
    BY <1>6, <2>1, <2>2
<1>12. \A t \in F : m[t] <= o[t] /\ {H[j].no : j \in W(H, t)} = m[t] .. o[t] - 1
  BY <1>10, <1>11, Zenon
<1> QED
  BY <1>12, Zenon DEF Mark, W, H, e, o

(* When the head of G is applied, the others have one line less before them. *)
LEMMA MarkTail ==
  ASSUME NEW G \in Seq(Items), G # <<>>, NEW n \in [Sources -> Nat],
         NEW F \in SUBSET Sources, NEW m \in [Sources -> Nat], NEW i \in Nat,
         Mark(m, G, i + 1, n, F)
  PROVE  Mark(m, Tail(G), i, n, F)
<1> DEFINE H == Tail(G)
           W(X, t, l) == {j \in DOMAIN X : j > l /\ X[j].source = t}
<1>1. /\ Len(G) \in Nat /\ Len(G) >= 1 /\ DOMAIN G = 1 .. Len(G)
  BY LenProperties, EmptySeq
<1>2. /\ DOMAIN H = 1 .. Len(G) - 1
      /\ \A j \in 1 .. Len(G) - 1 : H[j] = G[j + 1]
  BY <1>1, HeadTailProperties, LenProperties
<1> HIDE DEF H
<1>3. ASSUME NEW t \in F
      PROVE  m[t] <= n[t] /\ {H[j].no : j \in W(H, t, i)} = m[t] .. n[t] - 1
  <2>1. \A j \in W(H, t, i) : j + 1 \in W(G, t, i + 1) /\ H[j] = G[j + 1]
    BY <1>1, <1>2
  <2>2. \A j \in W(G, t, i + 1) : j - 1 \in W(H, t, i) /\ H[j - 1] = G[j]
    BY <1>1, <1>2
  <2>3. m[t] <= n[t] /\ {G[j].no : j \in W(G, t, i + 1)} = m[t] .. n[t] - 1
    BY Zenon DEF Mark
  <2> HIDE DEF W
  <2>4. {H[j].no : j \in W(H, t, i)} = {G[j].no : j \in W(G, t, i + 1)}
    <3>1. \A j \in W(H, t, i) : \E k \in W(G, t, i + 1) : H[j].no = G[k].no
      BY <2>1
    <3>2. \A k \in W(G, t, i + 1) : \E j \in W(H, t, i) : H[j].no = G[k].no
      BY <2>2
    <3>3. {H[j].no : j \in W(H, t, i)} \subseteq {G[j].no : j \in W(G, t, i + 1)}
      BY <3>1, SMTT(30)
    <3>4. {G[j].no : j \in W(G, t, i + 1)} \subseteq {H[j].no : j \in W(H, t, i)}
      BY <3>2
    <3> QED
      BY <3>3, <3>4
  <2> QED
    BY <2>3, <2>4, Zenon
<1> QED
  BY <1>3, Zenon DEF Mark, H

LEMMA InitMix == Init => Mix
<1> SUFFICES ASSUME Init PROVE Mix
  OBVIOUS
<1>1. filter = {} /\ feed = <<>> /\ pc = "down" /\ next = [s \in Sources |-> 0]
  BY Zenon DEF Init
<1>2. next \in [Sources -> Nat] /\ 0 \in Nat /\ Len(feed) = 0
  BY <1>1
<1>3. OnSchedule(0)
  BY <1>1, <1>2 DEF OnSchedule, Mark, At
<1>4. At(next, begun, filter, 0, tick, filter \ exhausted)
  BY <1>1 DEF At
<1> QED
  BY <1>1, <1>2, <1>3, <1>4 DEF Mix, Alive

LEMMA BeginsMix ==
  ASSUME Typed, Reading, NEW S \in SUBSET Sources, NEW d \in Checkpoints, Begins(d, S)
  PROVE  Mix'
<1> DEFINE n == [s \in Sources |-> d.row[s].offset]
<1>1. /\ feed' = <<>> /\ filter' = S /\ S # {} /\ exhausted' = {} /\ tick' = 0
      /\ next' = n /\ begun' = n
  BY DEF Begins, Reading
<1>2. n \in [Sources -> Nat]
  BY RowFields
<1> HIDE DEF n
<1>3. \A T \in SUBSET S : At(n, n, S, 0, 0, T)
  <2> SUFFICES ASSUME NEW s \in S PROVE n[s] - n[s] = 0 * Weight[s] + Passed(S, s, 0)
    BY DEF At
  <2>1. n[s] \in Nat /\ Weight[s] \in Nat /\ Passed(S, s, 0) = 0
    BY <1>2, PassedFacts, WeightAssumption
  <2> QED
    BY <2>1
<1>4. Mark(n, <<>>, 0, n, S)
  <2>1. <<>> \in Seq(Items) /\ Len(<<>>) = 0
    BY EmptySeq
  <2> QED
    BY <1>2, <2>1, MarkOfAll
<1>5. OnSchedule(0)'
  <2>1. \E m \in [Sources -> Nat], r, p \in Nat :
          /\ Mark(m, <<>>, 0, n, S)
          /\ At(m, n, S, r, p, {s \in S : m[s] < Len(lines'[s])})
    <3>1. At(n, n, S, 0, 0, {s \in S : n[s] < Len(lines'[s])})
      BY <1>3
    <3> QED
      BY <1>2, <1>4, <3>1
  <2> QED
    BY <1>1, <2>1 DEF OnSchedule
<1>6. tick' \in 0 .. EntriesOf(filter') - 1
  <2>1. EntriesOf(S) \in Nat \ {0}
    BY <1>1, RoundPositive
  <2> QED
    BY <1>1, <2>1
<1>7. At(next', begun', filter', 0, tick', filter' \ exhausted')
  BY <1>1, <1>3
<1>8. \A i \in 0 .. Len(feed') : OnSchedule(i)'
  <2>1. \A i \in 0 .. Len(feed') : i = 0
    BY <1>1
  <2> QED
    BY <1>5, <2>1
<1> QED
  BY <1>6, <1>7, <1>8 DEF Mix

(* The place of the reader, and what waits, decide where the lines are.     *)
LEMMA SameOnSchedule ==
  ASSUME UNCHANGED <<feed, next, filter, begun, lines>>, NEW i, OnSchedule(i)
  PROVE  OnSchedule(i)'
BY DEF OnSchedule

LEMMA ReaderMix ==
  ASSUME Typed, Reading, Mix, NEW s \in Sources, ReaderStep(s)
  PROVE  Mix'
<1>1. /\ Turn(s) /\ NextTurn /\ pc = "merging" /\ s \in filter
      /\ UNCHANGED <<lines, filter, begun, pc>>
  <2>1. Turn(s) /\ NextTurn
    BY DEF ReaderStep, ReadLine, EndOfFile, SkipTurn
  <2> QED
    BY <2>1, ReaderFrames DEF Turn, ReaderFrame, fileVars, sessionVars
<1>2. tick' \in 0 .. EntriesOf(filter') - 1
  BY <1>1, TickType
<1>3. PICK r \in Nat : At(next, begun, filter, r, tick, filter \ exhausted)
  BY DEF Mix
<1>4. next \in [Sources -> Nat] /\ filter \in SUBSET Sources /\ begun \in [Sources -> Nat]
      /\ feed \in Seq(Items) /\ Len(feed) \in Nat
  BY LenProperties DEF Typed, Items
<1>5. CASE ReadLine(s)
  <2> DEFINE n == [next EXCEPT ![s] = next[s] + 1]
             e == [source |-> s, no |-> next[s]]
  <2>1. /\ s \notin exhausted /\ exhausted' = exhausted /\ next' = n
        /\ feed' = Append(feed, e)
    BY <1>5 DEF ReadLine
  <2>2. n \in [Sources -> Nat] /\ n[s] = next[s] + 1 /\ \A t \in Sources \ {s} : n[t] = next[t]
    BY <1>4
  <2>3. e \in Items
    BY <1>4 DEF Items
  <2> HIDE DEF n
  <2>4. PICK q \in Nat : At(n, begun, filter, q, tick', filter \ exhausted)
    <3> DEFINE S == filter \ exhausted
    <3>1. S \in SUBSET filter /\ \A t \in S \ {s} : n[t] = next[t]
      BY <1>4, <2>2
    <3> HIDE DEF S
    <3>2. At(next, begun, filter, r, tick, S)
      BY <1>3 DEF S
    <3>3. \E q \in Nat : At(n, begun, filter, q, tick', S)
      BY <1>1, <2>2, <3>1, <3>2, TurnOnSchedule
    <3> QED
      BY <3>3 DEF S
  <2>5. At(next', begun', filter', q, tick', filter' \ exhausted')
    BY <1>1, <2>1, <2>4
  <2>6. feed' \in Seq(Items) /\ Len(feed') = Len(feed) + 1
    BY <1>4, <2>1, <2>3, AppendProperties
  <2>7. ASSUME NEW i \in 0 .. Len(feed) PROVE OnSchedule(i)'
    <3>1. PICK m \in [Sources -> Nat], u \in Nat, p \in Nat :
            /\ Mark(m, feed, i, next, filter)
            /\ At(m, begun, filter, u, p, {t \in filter : m[t] < Len(lines[t])})
      BY DEF OnSchedule, Mix
    <3>2. Mark(m, feed', i, next', filter)
      BY <1>1, <1>4, <2>1, <3>1, MarkAppend DEF n
    <3>3. /\ Mark(m, feed', i, next', filter')
          /\ At(m, begun', filter', u, p, {t \in filter' : m[t] < Len(lines'[t])})
      BY <1>1, <3>1, <3>2
    <3> QED
      BY <3>3 DEF OnSchedule
  <2>8. ASSUME NEW l, l = Len(feed') PROVE OnSchedule(l)'
    <3>1. Mark(n, feed', Len(feed'), n, filter)
      BY <1>4, <2>2, <2>6, MarkOfAll
    <3>2. {t \in filter : n[t] < Len(lines[t])} \subseteq filter \ exhausted
      <4> SUFFICES ASSUME NEW t \in filter, t \in exhausted PROVE ~(n[t] < Len(lines[t]))
        OBVIOUS
      <4>1. t # s /\ next[t] >= Len(lines[t]) /\ t \in Sources
        BY <1>4, <2>1 DEF Reading
      <4>2. Len(lines[t]) \in Nat /\ n[t] = next[t] /\ next[t] \in Nat
        BY <1>4, <2>2, <4>1, LinesFacts
      <4> QED
        BY <4>1, <4>2
    <3>3. At(n, begun, filter, q, tick', {t \in filter : n[t] < Len(lines[t])})
      BY <2>4, <3>2 DEF At
    <3>4. /\ Mark(n, feed', l, next', filter')
          /\ At(n, begun', filter', q, tick', {t \in filter' : n[t] < Len(lines'[t])})
      BY <1>1, <2>1, <2>8, <3>1, <3>3
    <3>5. tick' \in Nat
      BY <1>1, TickType
    <3> QED
      BY <2>2, <3>4, <3>5 DEF OnSchedule
  <2>9. \A i \in 0 .. Len(feed') : OnSchedule(i)'
    <3> SUFFICES ASSUME NEW i \in 0 .. Len(feed') PROVE OnSchedule(i)'
      OBVIOUS
    <3>1. i \in 0 .. Len(feed) \/ i = Len(feed')
      BY <1>4, <2>6
    <3> QED
      BY <2>7, <2>8, <3>1
  <2> QED
    BY <1>2, <2>5, <2>9 DEF Mix
<1>6. CASE EndOfFile(s) \/ SkipTurn(s)
  <2>1. /\ feed' = feed /\ next' = next /\ s \in exhausted' /\ exhausted \subseteq exhausted'
    BY <1>6 DEF EndOfFile, SkipTurn
  <2>2. \A i \in 0 .. Len(feed') : OnSchedule(i)'
    BY <1>1, <2>1, SameOnSchedule DEF Mix
  <2>3. \E q \in Nat : At(next, begun, filter, q, tick', filter \ exhausted')
    <3> DEFINE S == filter \ exhausted'
    <3>1. S \in SUBSET filter /\ s \notin S /\ S \subseteq filter \ exhausted
      BY <2>1
    <3> HIDE DEF S
    <3>2. At(next, begun, filter, r, tick, S)
      BY <1>3, <3>1 DEF At
    <3>3. \E q \in Nat : At(next, begun, filter, q, tick', S)
      BY <1>1, <1>4, <3>1, <3>2, TurnOnSchedule
    <3> QED
      BY <3>3 DEF S
  <2> QED
    BY <1>1, <1>2, <2>1, <2>2, <2>3 DEF Mix
<1> QED
  BY <1>5, <1>6 DEF ReaderStep

LEMMA ApplyMix ==
  ASSUME Typed, Mix, ApplyStep
  PROVE  Mix'
<1>1. /\ pc = "merging" /\ feed # <<>> /\ feed' = Tail(feed)
      /\ UNCHANGED <<lines, pc, next, exhausted, tick, filter, begun>>
  BY ApplyCounts DEF fileVars, readVars, sessionVars
<1>2. /\ feed \in Seq(Items) /\ Len(feed) \in Nat /\ next \in [Sources -> Nat]
      /\ filter \in SUBSET Sources
  BY LenProperties DEF Typed, Items
<1>3. Len(feed') = Len(feed) - 1
  BY <1>1, <1>2, HeadTailProperties
<1>4. ASSUME NEW i \in 0 .. Len(feed') PROVE OnSchedule(i)'
  <2>1. i \in Nat /\ i + 1 \in 0 .. Len(feed)
    BY <1>2, <1>3
  <2>2. OnSchedule(i + 1)
    BY <2>1 DEF Mix
  <2>3. PICK m \in [Sources -> Nat], u \in Nat, p \in Nat :
          /\ Mark(m, feed, i + 1, next, filter)
          /\ At(m, begun, filter, u, p, {t \in filter : m[t] < Len(lines[t])})
    BY <2>2 DEF OnSchedule
  <2>4. Mark(m, feed', i, next, filter)
    BY <1>1, <1>2, <2>1, <2>3, MarkTail
  <2>5. /\ Mark(m, feed', i, next', filter')
        /\ At(m, begun', filter', u, p, {t \in filter' : m[t] < Len(lines'[t])})
    BY <1>1, <2>3, <2>4
  <2> QED
    BY <2>5 DEF OnSchedule
<1> QED
  BY <1>1, <1>4 DEF Mix, Alive

LEMMA DownMix ==
  ASSUME Typed, Down
  PROVE  Mix'
<1>1. /\ feed' = <<>> /\ filter' = {} /\ pc' = "down" /\ next' \in [Sources -> Nat]
  BY DownTyped
<1>2. OnSchedule(0)'
  <2>1. Mark(next', feed', 0, next', filter')
    BY <1>1 DEF Mark
  <2>2. At(next', begun', filter', 0, 0, {t \in filter' : next'[t] < Len(lines'[t])})
    BY <1>1 DEF At
  <2> QED
    BY <1>1, <2>1, <2>2 DEF OnSchedule
<1>3. At(next', begun', filter', 0, tick', filter' \ exhausted')
  BY <1>1 DEF At
<1>4. \A i \in 0 .. Len(feed') : i = 0
  BY <1>1
<1> QED
  BY <1>1, <1>2, <1>3, <1>4 DEF Mix, Alive

LEMMA SameMix ==
  ASSUME Mix, UNCHANGED <<lines, feed, next, exhausted, tick, filter, begun>>, Alive' => Alive
  PROVE  Mix'
<1>1. \A i \in 0 .. Len(feed') : OnSchedule(i)'
  BY SameOnSchedule DEF Mix
<1> QED
  BY <1>1 DEF Mix

LEMMA MixStep ==
  ASSUME Typed, Reading, Counters, Mix, [Next]_vars
  PROVE  Mix'
<1>1. CASE Start \/ \E S \in SUBSET present : StartIncremental(S)
  <2>1. PICK S \in SUBSET present, d \in Checkpoints : Begins(d, S)
    BY <1>1, SessionBegins
  <2>2. S \in SUBSET Sources
    BY DEF Typed
  <2> QED
    BY <2>1, <2>2, BeginsMix
<1>2. ASSUME NEW s \in Sources, ReaderStep(s) PROVE Mix'
  BY <1>2, ReaderMix
<1>3. CASE ApplyStep
  BY <1>3, ApplyMix
<1>4. CASE EndStep
  <2>1. CASE CloseSink
    BY <2>1, SameMix DEF CloseSink, Alive, fileVars, readVars, sessionVars
  <2>2. CASE Pause \/ Complete \/ Fail \/ Crash
    BY <2>2, DownMix DEF Pause, Complete, Fail, Crash
  <2> QED
    BY <1>4, <2>1, <2>2 DEF EndStep
<1>5. CASE OutsideStep
  <2>1. UNCHANGED <<lines, feed, next, exhausted, tick, filter, begun, pc>>
    BY <1>5 DEF OutsideStep, LoseRows, Download, readVars, sessionVars
  <2> QED
    BY <2>1, SameMix DEF Alive
<1>6. CASE UNCHANGED vars
  BY <1>6, SameMix DEF vars, Alive, fileVars, readVars, sessionVars
<1> QED
  BY <1>1, <1>2, <1>3, <1>4, <1>5, <1>6, NextSteps
--------------------------------------------------------------------------------
(***************************************************************************)
(* The invariant, and what it says.                                         *)
(***************************************************************************)

(* The invariant holds in every state of every run.                         *)
THEOREM Invariance == Spec => []IInv
<1>1. Init => IInv
  BY InitTyped, InitReading, InitCounters, InitKnowledge, InitThere, InitMix DEF IInv
<1>2. IInv /\ [Next]_vars => IInv'
  BY TypedStep, ReadingStep, CountersStep, KnowledgeStep, ThereStep, MixStep DEF IInv
<1> QED
  BY <1>1, <1>2, PTL DEF Spec

(* The variables have their types, in particular tick stays in the schedule *)
(* of all sources (_InterleavedSources.__iter__), and a buffer is never     *)
(* full.                                                                    *)
THEOREM TypeCorrect == Spec => []TypeOK
<1>1. IInv => TypeOK
  <2> SUFFICES ASSUME IInv PROVE TypeOK
    OBVIOUS
  <2>1. Typed /\ Reading /\ Mix
    BY DEF IInv
  <2>2. filter \in SUBSET Sources /\ Sources # {} /\ Sources \in SUBSET Sources
    <3>1. filter \subseteq present /\ present \subseteq Sources /\ present # {}
      BY <2>1 DEF Typed
    <3> QED
      BY <3>1
  <2>3. EntriesOf(Sources) \in Nat \ {0} /\ EntriesOf(filter) \in Nat
        /\ EntriesOf(filter) <= EntriesOf(Sources)
    BY <2>2, RoundPositive, EntriesType
  <2>4. tick \in 0 .. EntriesOf(Sources) - 1
    <3>1. CASE Alive
      BY <2>1, <2>3, <3>1 DEF Mix
    <3>2. CASE ~Alive
      BY <2>1, <2>3, <3>2 DEF Reading
    <3> QED
      BY <3>1, <3>2
  <2> QED
    BY <2>1, <2>4 DEF TypeOK, Typed
<1> QED
  BY <1>1, Invariance, PTL

(* What was applied, what waits and where the reader stands meet without    *)
(* gap or overlap (_InterleavedSources.open, checkpoint.record).            *)
THEOREM ReaderMeets == Spec => []ReaderMeetsCheckpoint
<1>1. IInv => ReaderMeetsCheckpoint
  BY DEF IInv, Reading
<1> QED
  BY <1>1, Invariance, PTL

(* The counters of a merge that was let in add up and match the output, and *)
(* a checkpoint that adds up is let in when the output is ahead of it       *)
(* (reconcile_checkpoint_output, validate_merge_accounting).                *)
THEOREM CountersMatch == Spec => []CountersMatchOutput
<1>1. IInv => CountersMatchOutput
  <2> SUFFICES ASSUME IInv PROVE CountersMatchOutput
    OBVIOUS
  <2>1. Typed /\ Reading /\ Counters
    BY DEF IInv
  <2>2. Alive => AddUp(cp) /\ Kept(cp) + foreign = Len(out \o buffer)
    <3>1. Len(out \o buffer) = Len(out) + Len(buffer)
      BY <2>1, RowsType DEF Rows
    <3> QED
      BY <2>1, <3>1 DEF Counters
  <2>3. LET loaded == WithRows(Pruned(saved, present), AskedFor(saved, present))
        IN loaded.names # <<>> /\ AddUp(loaded) /\ Len(out) >= Kept(loaded) =>
             Accounted(Reconciled(loaded))
    <3> DEFINE c == Pruned(saved, present)
               loaded == WithRows(c, AskedFor(saved, present))
    <3>1. saved \in Checkpoints /\ IsInjective(saved.names) /\ present \in SUBSET Sources
          /\ ZeroElsewhere(saved) /\ out \in Seq(Contents)
      BY <2>1 DEF Typed, Counters
    <3>2. /\ c \in Checkpoints /\ IsInjective(c.names)
          /\ \A s \in Sources : c.row[s] = IF s \in present THEN saved.row[s] ELSE ZeroRow
          /\ Range(c.names) = Range(saved.names) \cap present
      BY <3>1, PrunedFacts
    <3>3. AskedFor(saved, present) \in SUBSET Sources
      BY <3>1 DEF AskedFor
    <3> HIDE DEF c
    <3>4. /\ loaded \in Checkpoints /\ loaded.row = c.row
          /\ Range(loaded.names) = Range(c.names) \cup AskedFor(saved, present)
      BY <3>2, <3>3, WithRowsFacts
    <3>5. ZeroElsewhere(loaded)
      BY <3>1, <3>2, <3>4 DEF ZeroElsewhere
    <3> HIDE DEF loaded
    <3> SUFFICES ASSUME loaded.names # <<>>, AddUp(loaded), Len(out) >= Kept(loaded)
                 PROVE  Accounted(Reconciled(loaded))
      BY DEF loaded, c
    <3>6. Scanned(loaded)
      BY <3>4, <3>5, AddUpIsScanned
    <3> QED
      BY <3>1, <3>4, <3>5, <3>6, AheadIsLetIn
  <2> QED
    BY <2>2, <2>3 DEF CountersMatchOutput
<1> QED
  BY <1>1, Invariance, PTL

(* No content is written twice, in whatever sources it is, and however often *)
(* the merge was interrupted (seed_session_known_hashes, record_kept).      *)
THEOREM NoContentTwice == Spec => []NoRepeats
<1>1. IInv => NoRepeats
  BY RowsPrefix DEF IInv, Knowledge, NoRepeats
<1> QED
  BY <1>1, Invariance, PTL

(* What the places of two sources in the schedule say of what was applied.  *)
LEMMA Proportion ==
  ASSUME NEW v \in Nat, NEW w \in Nat, NEW r \in Nat, NEW x \in 0 .. v, NEW y \in 0 .. w,
         y > 0 => x = v
  PROVE  (r * v + x) * w - (r * w + y) * v \in 0 .. v * w
<1>1. x \in Nat /\ y \in Nat
  OBVIOUS
<1>2. (r * v + x) * w - (r * w + y) * v = x * w - y * v
  <2>1. (r * v + x) * w = r * v * w + x * w
    BY <1>1
  <2>2. (r * w + y) * v = r * v * w + y * v
    BY <1>1
  <2>3. r * v * w \in Nat /\ x * w \in Nat /\ y * v \in Nat
    BY <1>1
  <2> QED
    BY <2>1, <2>2, <2>3
<1>3. CASE y = 0
  <2>1. x * w <= v * w /\ x * w \in Nat /\ y * v = 0 /\ v * w \in Nat
    BY <1>1, <1>3
  <2> QED
    BY <1>2, <2>1
<1>4. CASE y > 0
  <2>1. x * w = v * w /\ y * v <= v * w /\ y * v \in Nat /\ v * w \in Nat
    <3>1. x = v
      BY <1>4
    <3>2. y * v <= w * v /\ w * v = v * w
      BY <1>1
    <3> QED
      BY <1>1, <3>1, <3>2
  <2> QED
    BY <1>2, <2>1
<1> QED
  BY <1>1, <1>3, <1>4

(* Of two sources with lines left, a session applies lines in the ratio of  *)
(* their weights, to within one turn of each, for any weights               *)
(* (build_schedule, _InterleavedSources.__iter__).                          *)
THEOREM MixFollows == Spec => []MixFollowsWeights
<1>1. IInv => MixFollowsWeights
  <2> SUFFICES ASSUME IInv, pc = "merging", NEW s \in filter, NEW t \in filter, s < t,
                      cp.row[s].offset < Len(lines[s]),
                      cp.row[t].offset < Len(lines[t])
               PROVE  (cp.row[s].offset - begun[s]) * Weight[t]
                        - (cp.row[t].offset - begun[t]) * Weight[s]
                          \in 0 .. Weight[s] * Weight[t]
    BY DEF MixFollowsWeights
  <2>1. Typed /\ Reading /\ Mix /\ filter \in SUBSET Sources
    BY DEF IInv, Typed
  <2>2. /\ cp \in Checkpoints /\ next \in [Sources -> Nat] /\ feed \in Seq(Items)
        /\ begun \in [Sources -> Nat] /\ Len(feed) \in Nat
    BY <2>1, LenProperties DEF Typed, Items
  <2>3. OnSchedule(0)
    BY <2>1, <2>2 DEF Mix
  <2>4. PICK m \in [Sources -> Nat], r \in Nat, p \in Nat :
          /\ Mark(m, feed, 0, next, filter)
          /\ At(m, begun, filter, r, p, {u \in filter : m[u] < Len(lines[u])})
    BY <2>3 DEF OnSchedule
  <2>5. ASSUME NEW u \in filter PROVE m[u] = cp.row[u].offset
    <3>1. Meets(feed, u, cp.row[u].offset, next[u])
      BY <2>1, MeetsIsMeeting DEF Reading
    <3>2. cp.row[u].offset \in Nat /\ next[u] \in Nat /\ m[u] \in Nat
      BY <2>1, <2>2, RowFields
    <3>3. {k \in DOMAIN feed : k > 0 /\ feed[k].source = u} = Waits(feed, u)
      <4>1. DOMAIN feed = 1 .. Len(feed)
        BY <2>2, LenProperties
      <4> QED
        BY <2>2, <4>1 DEF Waits
    <3>4. cp.row[u].offset <= next[u]
          /\ {feed[i].no : i \in Waits(feed, u)} = cp.row[u].offset .. next[u] - 1
      BY <3>1, Zenon DEF Meets
    <3>5. m[u] <= next[u]
          /\ {feed[j].no : j \in {k \in DOMAIN feed : k > 0 /\ feed[k].source = u}}
               = m[u] .. next[u] - 1
      BY <2>4, Zenon DEF Mark
    <3>6. m[u] .. next[u] - 1 = cp.row[u].offset .. next[u] - 1
      BY <3>3, <3>4, <3>5, Zenon
    <3>7. \A a, b, n \in Nat : a <= n /\ b <= n /\ a .. n - 1 = b .. n - 1 => a = b
      <4> SUFFICES ASSUME NEW a \in Nat, NEW b \in Nat, NEW n \in Nat, a <= n, b <= n,
                          a .. n - 1 = b .. n - 1
                   PROVE  a = b
        OBVIOUS
      <4>1. CASE a < n
        <5>1. a \in b .. n - 1
          BY <4>1
        <5>2. b < n
          BY <5>1
        <5>3. b \in a .. n - 1
          BY <5>2
        <5> QED
          BY <5>1, <5>3
      <4>2. CASE a = n
        <5>1. ~(b < n)
          <6> SUFFICES ASSUME b < n PROVE FALSE
            OBVIOUS
          <6>1. b \in a .. n - 1
            OBVIOUS
          <6> QED
            BY <4>2, <6>1
        <5> QED
          BY <4>2, <5>1
      <4> QED
        BY <4>1, <4>2
    <3> QED
      BY <3>2, <3>4, <3>5, <3>6, <3>7
  <2>6. /\ m[s] = cp.row[s].offset /\ m[t] = cp.row[t].offset
        /\ s \in Sources /\ t \in Sources
    BY <2>1, <2>5
  <2>7. /\ m[s] - begun[s] = r * Weight[s] + Passed(filter, s, p)
        /\ m[t] - begun[t] = r * Weight[t] + Passed(filter, t, p)
    BY <2>4, <2>6 DEF At
  <2>8. /\ Passed(filter, s, p) \in 0 .. Weight[s]
        /\ Passed(filter, t, p) \in 0 .. Weight[t]
        /\ Weight[s] \in Nat /\ Weight[t] \in Nat
    BY <2>1, <2>6, PassedFacts, WeightAssumption
  <2>9. Passed(filter, t, p) > 0 => Passed(filter, s, p) = Weight[s]
    <3> DEFINE first(u) == EntriesOf({v \in filter : v < u})
    <3>1. /\ first(s) \in Nat /\ first(t) \in Nat /\ first(s) + Weight[s] <= first(t)
          /\ Weight[s] \in Nat \ {0}
      BY <2>1, TurnsAreApart
    <3>2. \A u : Passed(filter, u, p) = IF p <= first(u) THEN 0
                                        ELSE IF p >= first(u) + Weight[u] THEN Weight[u]
                                             ELSE p - first(u)
      BY DEF Passed
    <3> HIDE DEF first
    <3>3. p > first(t) => Passed(filter, s, p) = Weight[s]
      BY <3>1, <3>2
    <3>4. ~(p > first(t)) => Passed(filter, t, p) = 0
      BY <3>1, <3>2
    <3> QED
      BY <3>3, <3>4
  <2>10. (r * Weight[s] + Passed(filter, s, p)) * Weight[t]
           - (r * Weight[t] + Passed(filter, t, p)) * Weight[s] \in 0 .. Weight[s] * Weight[t]
    BY <2>8, <2>9, Proportion
  <2> QED
    BY <2>6, <2>7, <2>10
<1> QED
  BY <1>1, Invariance, PTL

(* A merge that completes has every content of every source it counts, save *)
(* where an incremental merge had cut the output that was counted           *)
(* (complete_merge_run).                                                    *)
THEOREM CompleteHasAll == Spec => CompletesWithEveryContent
<1>1. ASSUME IInv, [Next]_vars, saved'.complete, saved' # saved, ~cleared,
             NEW s \in Range(saved'.names)
      PROVE  Wanted(s) \subseteq Range(out')
  <2>1. Typed /\ Reading /\ Counters /\ Knowledge /\ There
    BY <1>1 DEF IInv
  <2>2. Complete
    <3>1. ~(UNCHANGED vars)
      BY <1>1 DEF vars
    <3>2. CASE Start \/ \E S \in SUBSET present : StartIncremental(S)
      <4>1. saved' = saved
        BY <3>2 DEF Start, StartIncremental, CanStart
      <4> QED
        BY <1>1, <4>1
    <3>3. CASE \E u \in Sources : ReaderStep(u)
      <4>1. saved' = saved
        BY <3>3, ReaderFrames DEF ReaderFrame
      <4> QED
        BY <1>1, <4>1
    <3>4. CASE ApplyStep
      <4>1. saved' = saved \/ saved' = Counted(1, 0, 0)
        BY <2>1, <3>4, ApplyRows DEF Save
      <4>2. pc = "merging" /\ feed # <<>> /\ Alive
        BY <3>4, ApplyCounts DEF Alive
      <4>3. Counted(1, 0, 0).complete = cp.complete
        BY <2>1, <4>2, CountedFacts
      <4>4. ~cp.complete
        BY <2>1 DEF Counters
      <4> QED
        BY <1>1, <4>1, <4>3, <4>4
    <3>5. CASE EndStep
      <4>1. saved' = saved \/ saved' = cp \/ Complete
        BY <3>5 DEF EndStep, Pause, CloseSink, Fail, Crash, Save
      <4>2. ~cp.complete
        BY <2>1 DEF Counters
      <4> QED
        BY <1>1, <4>1, <4>2
    <3>6. CASE OutsideStep
      <4>1. saved' = saved
        BY <3>6 DEF OutsideStep, LoseRows, Download
      <4> QED
        BY <1>1, <4>1
    <3> QED
      BY <1>1, <3>1, <3>2, <3>3, <3>4, <3>5, <3>6, NextSteps
  <2>3. /\ pc = "closed" /\ out' = out /\ saved' = [cp EXCEPT !.complete = TRUE]
    BY <2>2 DEF Complete, Save
  <2>4. /\ Alive /\ Uncut /\ buffer = <<>> /\ feed = <<>> /\ exhausted = filter
        /\ Range(cp.names) = filter /\ cp \in Checkpoints /\ filter \subseteq Sources
        /\ next \in [Sources -> Nat] /\ out \in Seq(Contents)
    BY <1>1, <2>1, <2>3 DEF Alive, Uncut, Reading, Typed
  <2>5. saved'.names = cp.names
    BY <2>3, <2>4 DEF Checkpoints
  <2>6. s \in filter /\ s \in Sources
    BY <2>4, <2>5
  <2>7. cp.row[s].offset >= Len(lines[s])
    <3>1. Meets(feed, s, cp.row[s].offset, next[s])
      BY <2>1, <2>6, MeetsIsMeeting DEF Reading
    <3>2. Waits(feed, s) = {}
      BY <2>4 DEF Waits
    <3>3. cp.row[s].offset .. next[s] - 1 = {} /\ cp.row[s].offset <= next[s]
      BY <3>1, <3>2 DEF Meets
    <3>4. cp.row[s].offset \in Nat /\ next[s] \in Nat /\ Len(lines[s]) \in Nat
      BY <2>1, <2>4, <2>6, RowFields, LinesFacts
    <3>5. next[s] >= Len(lines[s])
      BY <2>1, <2>4, <2>6 DEF Reading
    <3>6. cp.row[s].offset >= next[s]
      <4> SUFFICES ASSUME cp.row[s].offset < next[s] PROVE FALSE
        BY <3>4
      <4>1. cp.row[s].offset \in cp.row[s].offset .. next[s] - 1
        BY <3>4
      <4> QED
        BY <3>3, <4>1
    <3> QED
      BY <3>4, <3>5, <3>6
  <2>8. HasRead(cp, filter, Range(Rows)) /\ Rows = out
    BY <2>1, <2>4, ThereIsRead, RowsAreOut
  <2>9. Range(lines[s]) \subseteq Read(cp, s)
    <3>1. DOMAIN lines[s] = 1 .. Len(lines[s]) /\ Len(lines[s]) \in Nat
          /\ cp.row[s].offset \in Nat
      BY <2>1, <2>4, <2>6, RowFields, LinesFacts
    <3>2. \A i \in DOMAIN lines[s] : i <= cp.row[s].offset
      BY <2>7, <3>1
    <3> QED
      BY <3>2 DEF Range, Read
  <2> QED
    BY <2>3, <2>6, <2>8, <2>9 DEF Wanted, HasRead, Fit
<1>2. IInv /\ [Next]_vars =>
        [saved'.complete /\ saved' # saved /\ ~cleared =>
           \A s \in Range(saved'.names) : Wanted(s) \subseteq Range(out')]_vars
  BY <1>1
<1> QED
  BY <1>2, Invariance, PTL DEF Spec, CompletesWithEveryContent
================================================================================
