--------------------------- MODULE CompressorProofs ---------------------------
(***************************************************************************)
(* Machine-checked proofs about Compressor, for texts of every length and  *)
(* all sizes of the lists: the five properties that MCCompressor checks.   *)
(*                                                                         *)
(* Redaction goes through stages, one for each pattern.  The matches of a  *)
(* pattern lie apart, so that each leaves one mark; what is gone lies      *)
(* behind a mark, so that taking words out never brings a keyword and a    *)
(* word that follows it together; and no stage writes anything but marks   *)
(* and "torn".  A line is read from places of the text in their order, and *)
(* the compressors draw lines and say where they are.                      *)
(***************************************************************************)
EXTENDS MCCompressor, FiniteSetTheorems, SequenceTheorems, WellFoundedInduction, TLAPS

-----------------------------------------------------------------------------
(* Numbers and recursive functions.                                        *)

(* A set of numbers that is not empty has a least one.                     *)
LEMMA LeastNumber ==
  ASSUME NEW T \in SUBSET Nat, T # {}
  PROVE  \E n \in T : \A m \in T : n <= m
<1>1. \E n \in T : \A m \in T : ~(<<m, n>> \in OpToRel(<, Nat))
  BY NatLessThanWellFounded, WFMin
<1>2. PICK n \in T : \A m \in T : ~(<<m, n>> \in OpToRel(<, Nat))
  BY <1>1
<1>3. \A m \in T : ~(m < n)
  BY <1>2 DEF OpToRel
<1> QED
  BY <1>3

(* What Min chooses.                                                       *)
LEMMA MinIsLeast ==
  ASSUME NEW T \in SUBSET Nat, T # {}
  PROVE  Min(T) \in T /\ \A m \in T : Min(T) <= m
<1>1. \E n \in T : \A m \in T : n =< m
  BY LeastNumber
<1> QED
  BY <1>1 DEF Min

(* Induction over 0 .. n, for a set: what the provers can instantiate.     *)
LEMMA UpTo ==
  ASSUME NEW n \in Nat, NEW S, 0 \in S,
         \A i \in 0 .. (n - 1) : i \in S => i + 1 \in S
  PROVE  0 .. n \subseteq S
<1> SUFFICES ASSUME (0 .. n) \ S # {} PROVE FALSE
  OBVIOUS
<1>0. (0 .. n) \ S \in SUBSET Nat
  OBVIOUS
<1>1. PICK i \in (0 .. n) \ S : \A j \in (0 .. n) \ S : i <= j
  BY <1>0, LeastNumber
<1>2. i - 1 \in 0 .. (n - 1) /\ i - 1 \in S
  BY <1>1
<1> QED
  BY <1>1, <1>2

(* f is a run of the first m steps from base.                              *)
Run(f, S, base, m, step) ==
  /\ f \in [0 .. m -> S] /\ f[0] = base
  /\ \A i \in 1 .. m : f[i] = step[<<i, f[i - 1]>>]

(* A step function can be repeated, starting from base.                    *)
LEMMA Repeated ==
  ASSUME NEW S, NEW base \in S, NEW n \in Nat, NEW step \in [(1 .. n) \X S -> S]
  PROVE  \E f : Run(f, S, base, n, step)
<1> DEFINE M == {m \in 0 .. n : \E f : Run(f, S, base, m, step)}
<1>1. 0 \in M
  <2>1. Run([i \in 0 .. 0 |-> base], S, base, 0, step)
    BY DEF Run
  <2>2. \E f : Run(f, S, base, 0, step)
    BY <2>1
  <2>3. 0 \in 0 .. n
    OBVIOUS
  <2> QED
    BY <2>2, <2>3
<1>2. ASSUME NEW m \in 0 .. (n - 1), m \in M PROVE m + 1 \in M
  <2>1. PICK f : Run(f, S, base, m, step)
    BY <1>2
  <2> DEFINE g == [i \in 0 .. (m + 1) |-> IF i = m + 1 THEN step[<<i, f[m]>>] ELSE f[i]]
  <2>2. f[m] \in S /\ step[<<m + 1, f[m]>>] \in S
    BY <2>1 DEF Run
  <2>3. g \in [0 .. (m + 1) -> S] /\ g[0] = base
    BY <2>1, <2>2 DEF Run
  <2>4. \A i \in 1 .. (m + 1) : g[i] = step[<<i, g[i - 1]>>]
    BY <2>1 DEF Run
  <2>5. Run(g, S, base, m + 1, step)
    BY <2>3, <2>4 DEF Run
  <2>6. \E h : Run(h, S, base, m + 1, step)
    BY <2>5
  <2>7. m + 1 \in 0 .. n
    OBVIOUS
  <2> QED
    BY <2>6, <2>7
<1> HIDE DEF M
<1>3. 0 .. n \subseteq M
  BY <1>1, <1>2, UpTo
<1>4. n \in M
  BY <1>3
<1> QED
  BY <1>4 DEF M

-----------------------------------------------------------------------------
(* Sorting: a finite set under a strict order has one enumeration that     *)
(* follows the order.                                                      *)

StrictOrder(R, S) ==
  /\ \A a \in S : <<a, a>> \notin R
  /\ \A a, b, c \in S : <<a, b>> \in R /\ <<b, c>> \in R => <<a, c>> \in R
  /\ \A a, b \in S : a = b \/ <<a, b>> \in R \/ <<b, a>> \in R

Sorts(s, S, R) ==
  /\ s \in [1 .. Cardinality(S) -> S]
  /\ \A i, j \in 1 .. Cardinality(S) : i < j => <<s[i], s[j]>> \in R

Before(S, R, x) == {y \in S : <<y, x>> \in R}

Rank(S, R, x) == Cardinality(Before(S, R, x)) + 1

(* Ranks tell elements apart and are places in an enumeration.             *)
LEMMA RankIsPlace ==
  ASSUME NEW S, IsFiniteSet(S), NEW R, StrictOrder(R, S)
  PROVE  /\ \A x \in S : Rank(S, R, x) \in 1 .. Cardinality(S)
         /\ \A x, y \in S : <<x, y>> \in R => Rank(S, R, x) < Rank(S, R, y)
<1>1. \A x \in S : IsFiniteSet(Before(S, R, x))
  BY FS_Subset DEF Before
<1>2. ASSUME NEW x \in S PROVE Rank(S, R, x) \in 1 .. Cardinality(S)
  <2>1. Before(S, R, x) \in SUBSET (S \ {x})
    BY DEF Before, StrictOrder
  <2>2. IsFiniteSet(S \ {x}) /\ Cardinality(S \ {x}) = Cardinality(S) - 1
    BY FS_RemoveElement
  <2>3. Cardinality(Before(S, R, x)) <= Cardinality(S) - 1
    BY <2>1, <2>2, FS_Subset
  <2> QED
    BY <1>1, <2>3, FS_CardinalityType DEF Rank
<1>3. ASSUME NEW x \in S, NEW y \in S, <<x, y>> \in R
      PROVE  Rank(S, R, x) < Rank(S, R, y)
  <2>1. Before(S, R, x) \in SUBSET Before(S, R, y)
    BY <1>3 DEF Before, StrictOrder
  <2>2. x \in Before(S, R, y) /\ x \notin Before(S, R, x)
    BY <1>3 DEF Before, StrictOrder
  <2>3. /\ Cardinality(Before(S, R, x)) <= Cardinality(Before(S, R, y))
        /\ Cardinality(Before(S, R, x)) # Cardinality(Before(S, R, y))
    BY <1>1, <2>1, <2>2, FS_Subset
  <2> QED
    BY <1>1, <2>3, FS_CardinalityType DEF Rank
<1> QED
  BY <1>2, <1>3

(* An enumeration exists: each element at its rank.                        *)
LEMMA Sortable ==
  ASSUME NEW S, IsFiniteSet(S), NEW R, StrictOrder(R, S)
  PROVE  \E s : Sorts(s, S, R)
<1> DEFINE n == Cardinality(S)
           rank == [x \in S |-> Rank(S, R, x)]
<1>0. n \in Nat
  BY FS_CardinalityType
<1>1. rank \in [S -> 1 .. n]
  BY RankIsPlace
<1>2. \A x, y \in S : x # y => rank[x] # rank[y]
  <2> SUFFICES ASSUME NEW x \in S, NEW y \in S, x # y PROVE rank[x] # rank[y]
    OBVIOUS
  <2>1. <<x, y>> \in R \/ <<y, x>> \in R
    BY DEF StrictOrder
  <2>2. rank[x] < rank[y] \/ rank[y] < rank[x]
    BY <2>1, RankIsPlace
  <2>3. rank[x] \in 1 .. n /\ rank[y] \in 1 .. n
    BY <1>1
  <2> HIDE DEF rank, n
  <2> QED
    BY <1>0, <2>2, <2>3
<1>3. IsFiniteSet(1 .. n) /\ Cardinality(1 .. n) = n
  BY <1>0, FS_Interval
<1>4. rank \in Surjection(S, 1 .. n)
  <2> HIDE DEF rank
  <2>1. rank \in Injection(S, 1 .. n)
    BY <1>1, <1>2 DEF Injection, IsInjective
  <2> QED
    BY <1>3, <2>1, FS_Injection
<1>5. \A i \in 1 .. n : \E x \in S : rank[x] = i
  BY <1>4 DEF Surjection
<1> DEFINE s == [i \in 1 .. n |-> CHOOSE x \in S : rank[x] = i]
<1>6. \A i \in 1 .. n : s[i] \in S /\ rank[s[i]] = i
  BY <1>5
<1>7. \A i, j \in 1 .. n : i < j => <<s[i], s[j]>> \in R
  <2> SUFFICES ASSUME NEW i \in 1 .. n, NEW j \in 1 .. n, i < j
               PROVE  <<s[i], s[j]>> \in R
    OBVIOUS
  <2>1. s[i] \in S /\ s[j] \in S /\ rank[s[i]] = i /\ rank[s[j]] = j
    BY <1>6
  <2>2. s[i] # s[j]
    BY <1>0, <2>1
  <2>3. CASE <<s[j], s[i]>> \in R
    <3>1. rank[s[j]] < rank[s[i]]
      BY <2>1, <2>3, RankIsPlace
    <3> HIDE DEF rank, s, n
    <3> QED
      BY <1>0, <2>1, <3>1
  <2> HIDE DEF s, rank
  <2> QED
    BY <2>1, <2>2, <2>3 DEF StrictOrder
<1>8. s \in [1 .. n -> S]
  BY <1>6
<1> HIDE DEF s
<1>9. Sorts(s, S, R)
  BY <1>7, <1>8 DEF Sorts
<1> QED
  BY <1>9

(* In every enumeration an element is at its rank.                         *)
LEMMA SortedByRank ==
  ASSUME NEW S, IsFiniteSet(S), NEW R, StrictOrder(R, S), NEW s, Sorts(s, S, R)
  PROVE  /\ \A i \in 1 .. Cardinality(S) : Rank(S, R, s[i]) = i
         /\ \A x \in S : \E i \in 1 .. Cardinality(S) : s[i] = x
<1> DEFINE n == Cardinality(S)
<1>0. n \in Nat
  BY FS_CardinalityType
<1>1. IsFiniteSet(1 .. n) /\ Cardinality(1 .. n) = n
  BY <1>0, FS_Interval
<1>2. \A i, j \in 1 .. n : i # j => s[i] # s[j]
  <2> SUFFICES ASSUME NEW i \in 1 .. n, NEW j \in 1 .. n, i # j PROVE s[i] # s[j]
    OBVIOUS
  <2>1. i < j \/ j < i
    BY <1>0
  <2>2. s[i] \in S /\ s[j] \in S
    BY DEF Sorts
  <2> QED
    BY <2>1, <2>2 DEF Sorts, StrictOrder
<1>3. s \in Injection(1 .. n, S)
  BY <1>2 DEF Injection, IsInjective, Sorts
<1>4. s \in Surjection(1 .. n, S)
  BY <1>1, <1>3, FS_Injection
<1>5. \A x \in S : \E i \in 1 .. n : s[i] = x
  BY <1>4 DEF Surjection
<1>6. ASSUME NEW i \in 1 .. n PROVE Rank(S, R, s[i]) = i
  <2>1. \A j \in 1 .. n : <<s[j], s[i]>> \in R <=> j < i
    <3> SUFFICES ASSUME NEW j \in 1 .. n PROVE <<s[j], s[i]>> \in R <=> j < i
      OBVIOUS
    <3>1. s[i] \in S /\ s[j] \in S
      BY DEF Sorts
    <3>2. j < i \/ j = i \/ i < j
      BY <1>0
    <3>3. j < i => <<s[j], s[i]>> \in R
      BY DEF Sorts
    <3>4. j = i => <<s[j], s[i]>> \notin R
      BY <3>1 DEF StrictOrder
    <3>5. i < j => <<s[j], s[i]>> \notin R
      <4>1. i < j => <<s[i], s[j]>> \in R
        BY DEF Sorts
      <4> QED
        BY <3>1, <4>1 DEF StrictOrder
    <3> QED
      BY <1>0, <3>2, <3>3, <3>4, <3>5
  <2> DEFINE f == [j \in 1 .. (i - 1) |-> s[j]]
  <2>2. f \in [1 .. (i - 1) -> Before(S, R, s[i])]
    BY <1>0, <2>1 DEF Before, Sorts
  <2>3. \A x \in Before(S, R, s[i]) : \E j \in 1 .. (i - 1) : f[j] = x
    BY <1>0, <1>5, <2>1 DEF Before
  <2>4. \A j, k \in 1 .. (i - 1) : f[j] = f[k] => j = k
    BY <1>0, <1>2
  <2> HIDE DEF f
  <2>5. f \in Bijection(1 .. (i - 1), Before(S, R, s[i]))
    BY <2>2, <2>3, <2>4 DEF Bijection, Injection, Surjection, IsInjective
  <2>6. ExistsBijection(1 .. (i - 1), Before(S, R, s[i]))
    BY <2>5 DEF ExistsBijection
  <2>7. Cardinality(Before(S, R, s[i])) = i - 1
    BY <1>0, <2>6, FS_CountingElements
  <2> QED
    BY <1>0, <2>7 DEF Rank
<1> QED
  BY <1>5, <1>6

(* And so there is only one.                                               *)
LEMMA SortedOnce ==
  ASSUME NEW S, IsFiniteSet(S), NEW R, StrictOrder(R, S),
         NEW s, Sorts(s, S, R), NEW t, Sorts(t, S, R)
  PROVE  s = t
<1> DEFINE n == Cardinality(S)
<1>1. ASSUME NEW i \in 1 .. n PROVE s[i] = t[i]
  <2>1. s[i] \in S
    BY DEF Sorts
  <2>2. PICK j \in 1 .. n : t[j] = s[i]
    BY <2>1, SortedByRank
  <2>3. Rank(S, R, s[i]) = i /\ Rank(S, R, t[j]) = j
    BY SortedByRank
  <2> QED
    BY <2>2, <2>3
<1>2. s \in [1 .. n -> S] /\ t \in [1 .. n -> S]
  BY DEF Sorts
<1>3. \A i \in 1 .. n : s[i] = t[i]
  BY <1>1
<1>4. s = [i \in 1 .. n |-> s[i]] /\ t = [i \in 1 .. n |-> t[i]]
  BY <1>2
<1> HIDE DEF n
<1> QED
  BY <1>3, <1>4

-----------------------------------------------------------------------------
(* Sets of numbers, sorted.                                                *)

LessThan == {p \in Nat \X Nat : p[1] < p[2]}

LEMMA LessThanOrders ==
  ASSUME NEW S \in SUBSET Nat
  PROVE  StrictOrder(LessThan, S) /\ \A i, j \in S : <<i, j>> \in LessThan <=> i < j
BY DEF StrictOrder, LessThan

(* Ascending lists the set, each number once, from the least.              *)
LEMMA AscendingSorts ==
  ASSUME NEW S \in SUBSET Nat, IsFiniteSet(S)
  PROVE  /\ Cardinality(S) \in Nat
         /\ Ascending(S) \in [1 .. Cardinality(S) -> S]
         /\ Ascending(S) \in Seq(S) /\ Len(Ascending(S)) = Cardinality(S)
         /\ DOMAIN Ascending(S) = 1 .. Cardinality(S)
         /\ \A i, j \in 1 .. Cardinality(S) : i < j => Ascending(S)[i] < Ascending(S)[j]
         /\ \A x \in S : \E i \in 1 .. Cardinality(S) : Ascending(S)[i] = x
<1> DEFINE n == Cardinality(S)
           below(x) == {y \in S : y < x}
           A == [k \in 1 .. n |-> CHOOSE x \in S : Cardinality(below(x)) = k - 1]
<1>0. n \in Nat
  BY FS_CardinalityType
<1>1. PICK t : Sorts(t, S, LessThan)
  BY LessThanOrders, Sortable
<1>2. /\ \A k \in 1 .. n : Rank(S, LessThan, t[k]) = k
      /\ \A x \in S : \E i \in 1 .. n : t[i] = x
  BY <1>1, LessThanOrders, SortedByRank
<1>3. t \in [1 .. n -> S] /\ \A i, j \in 1 .. n : i < j => t[i] < t[j]
  BY <1>1, LessThanOrders DEF Sorts
<1>4. ASSUME NEW x \in S
      PROVE  Cardinality(below(x)) \in Nat /\ Rank(S, LessThan, x) = Cardinality(below(x)) + 1
  <2>1. Before(S, LessThan, x) = below(x)
    BY DEF Before, LessThan
  <2>2. below(x) \in SUBSET S
    OBVIOUS
  <2>3. IsFiniteSet(below(x))
    BY <2>2, FS_Subset
  <2>4. Cardinality(below(x)) \in Nat
    BY <2>3, FS_CardinalityType
  <2> QED
    BY <2>1, <2>4 DEF Rank
<1> HIDE DEF below
<1>5. ASSUME NEW k \in 1 .. n PROVE A[k] = t[k]
  <2>0. t[k] \in S /\ Rank(S, LessThan, t[k]) = k
    BY <1>2, <1>3
  <2>1. Cardinality(below(t[k])) = k - 1
    <3>1. Cardinality(below(t[k])) \in Nat /\ Rank(S, LessThan, t[k]) = Cardinality(below(t[k])) + 1
      BY <1>4, <2>0
    <3> QED
      BY <1>0, <2>0, <3>1
  <2>2. A[k] \in S /\ Cardinality(below(A[k])) = k - 1
    BY <2>0, <2>1
  <2> HIDE DEF A
  <2>3. Rank(S, LessThan, A[k]) = k
    <3>1. Rank(S, LessThan, A[k]) = Cardinality(below(A[k])) + 1
      BY <1>4, <2>2
    <3> QED
      BY <1>0, <2>2, <3>1
  <2>4. PICK j \in 1 .. n : t[j] = A[k]
    BY <1>2, <2>2
  <2> QED
    BY <1>2, <2>3, <2>4
<1>6. A = t
  <2>1. A = [k \in 1 .. n |-> A[k]] /\ t = [k \in 1 .. n |-> t[k]]
    BY <1>3
  <2> HIDE DEF A
  <2> QED
    BY <1>5, <2>1
<1>7. Ascending(S) = A
  BY DEF Ascending, below, A
<1>8. Ascending(S) = t
  BY <1>6, <1>7
<1>9. t \in Seq(S) /\ Len(t) = n /\ DOMAIN t = 1 .. n
  BY <1>0, <1>3
<1> HIDE DEF n, A
<1>10. Ascending(S) \in [1 .. n -> S] /\ Ascending(S) \in Seq(S) /\ Len(Ascending(S)) = n
  BY <1>3, <1>8, <1>9
<1> QED
  BY <1>0, <1>2, <1>3, <1>8, <1>9, <1>10 DEF n

-----------------------------------------------------------------------------
(* One pattern on one text.                                                *)

Texts == Seq(Items)

Starts(p, T) == {m[1] : m \in Matches(p, T)}

(* Place k is in match m.                                                  *)
Covers(m, k) == m[1] <= k /\ k <= m[2]

Covered(p, T, k) == \E m \in Matches(p, T) : Covers(m, k)

(* What the lemmas below use of a pattern.                                 *)
Proper(p) ==
  /\ p.from \in Items \ (Marks \cup {"gone", "torn"})
  /\ p.mark \in Marks
  /\ p.to \subseteq Words /\ p.to \cap p.skip = {}

LEMMA ComputedIs ==
  ASSUME NEW S, NEW s \in Seq(S)
  PROVE  Computed(s) = s
BY DEF Computed

(* Opening is what its definition says, item by item.                      *)
LEMMA OpeningSteps ==
  ASSUME NEW p, NEW T \in Texts
  PROVE  /\ Opening(p, T)[0] = 0
         /\ \A i \in 1 .. Len(T) :
              /\ Opening(p, T)[i] = Open(p, T, Opening(p, T)[i - 1], i)
              /\ Opening(p, T)[i - 1] \in Nat
<1> DEFINE n == Len(T)
           step == [q \in (1 .. n) \X (0 .. n) |-> Open(p, T, q[2], q[1])]
<1>0. n \in Nat
  BY DEF Texts
<1>1. step \in [(1 .. n) \X (0 .. n) -> 0 .. n]
  BY <1>0 DEF Open
<1>2. \A i \in 1 .. n, o \in 0 .. n : step[<<i, o>>] = Open(p, T, o, i)
  OBVIOUS
<1> HIDE DEF step
<1>3. 0 \in 0 .. n
  BY <1>0
<1>4. PICK f : Run(f, 0 .. n, 0, n, step)
  BY <1>0, <1>1, <1>3, Repeated
<1>5. /\ f \in [0 .. n -> 0 .. n] /\ f[0] = 0
      /\ \A i \in 1 .. n : f[i] = Open(p, T, f[i - 1], i)
  <2>1. f \in [0 .. n -> 0 .. n] /\ f[0] = 0 /\ \A i \in 1 .. n : f[i] = step[<<i, f[i - 1]>>]
    BY <1>4 DEF Run
  <2>2. \A i \in 1 .. n : i - 1 \in 0 .. n
    BY <1>0
  <2> HIDE DEF n
  <2>3. \A i \in 1 .. n : f[i - 1] \in 0 .. n
    BY <2>1, <2>2
  <2> QED
    BY <1>2, <2>1, <2>3
<1>6. f = [i \in 0 .. n |-> IF i = 0 THEN 0 ELSE Open(p, T, f[i - 1], i)]
  BY <1>0, <1>5
<1> DEFINE O == Opening(p, T)
           chosen == CHOOSE g : g = [i \in 0 .. n |-> IF i = 0 THEN 0 ELSE Open(p, T, g[i - 1], i)]
<1>7. chosen = [i \in 0 .. n |-> IF i = 0 THEN 0 ELSE Open(p, T, chosen[i - 1], i)]
  BY <1>6
<1>8. O = chosen
  BY DEF Opening
<1>9. O = [i \in 0 .. n |-> IF i = 0 THEN 0 ELSE Open(p, T, O[i - 1], i)]
  BY <1>7, <1>8
<1> HIDE DEF n, O, chosen
<1>10. O[0] = 0 /\ \A i \in 1 .. n : O[i] = Open(p, T, O[i - 1], i)
  BY <1>0, <1>9
<1> DEFINE Good == {i \in 0 .. n : O[i] \in Nat}
<1>11. 0 .. n \subseteq Good
  <2>1. 0 \in Good
    BY <1>0, <1>10
  <2>2. ASSUME NEW i \in 0 .. (n - 1), i \in Good PROVE i + 1 \in Good
    <3>1. i + 1 \in 1 .. n /\ (i + 1) - 1 = i
      BY <1>0
    <3>2. O[i + 1] = Open(p, T, O[i], i + 1)
      BY <1>10, <3>1
    <3> QED
      BY <1>0, <2>2, <3>1, <3>2 DEF Open
  <2> HIDE DEF Good
  <2> QED
    BY <1>0, <2>1, <2>2, UpTo
<1>12. \A i \in 1 .. n : i - 1 \in 0 .. n
  BY <1>0
<1> QED
  BY <1>10, <1>11, <1>12 DEF n, O

(* A match that is open began with its first word, and there is nothing    *)
(* since but what may stand between.                                       *)
LEMMA OpenSince ==
  ASSUME NEW p, NEW T \in Texts, NEW k \in 0 .. Len(T), Opening(p, T)[k] # 0
  PROVE  /\ Opening(p, T)[k] \in 1 .. k
         /\ T[Opening(p, T)[k]] = p.from
         /\ \A x \in (Opening(p, T)[k] + 1) .. k : T[x] \in p.skip
         /\ \A x \in Opening(p, T)[k] .. k : Opening(p, T)[x] = Opening(p, T)[k]
<1> DEFINE n == Len(T)
           O == Opening(p, T)
           Since(i) == O[i] # 0 => /\ O[i] \in 1 .. i /\ T[O[i]] = p.from
                                   /\ \A x \in (O[i] + 1) .. i : T[x] \in p.skip
                                   /\ \A x \in O[i] .. i : O[x] = O[i]
           Good == {i \in 0 .. n : Since(i)}
<1>0. n \in Nat /\ O[0] = 0
      /\ \A i \in 1 .. n : O[i] = Open(p, T, O[i - 1], i) /\ O[i - 1] \in Nat
  BY OpeningSteps DEF Texts
<1> HIDE DEF O, n
<1>1. 0 \in Good
  BY <1>0
<1>2. ASSUME NEW i \in 0 .. (n - 1), i \in Good PROVE i + 1 \in Good
  <2>1. i + 1 \in 1 .. n /\ (i + 1) - 1 = i
    BY <1>0
  <2>2. O[i + 1] = Open(p, T, O[i], i + 1)
    BY <1>0, <2>1
  <2>3. O[i + 1] = i + 1 \/ O[i + 1] = 0 \/ (O[i + 1] = O[i] /\ O[i] # 0 /\ T[i + 1] \in p.skip)
    BY <2>2 DEF Open
  <2>4. CASE O[i + 1] = i + 1
    <3>1. T[i + 1] = p.from \/ (O[i] # 0 /\ O[i] = i + 1)
      BY <2>2, <2>4 DEF Open
    <3>2. T[i + 1] = p.from
      BY <1>0, <1>2, <3>1
    <3>3. /\ \A x \in (O[i + 1] + 1) .. (i + 1) : T[x] \in p.skip
          /\ \A x \in O[i + 1] .. (i + 1) : O[x] = O[i + 1]
      BY <1>0, <2>4
    <3>4. O[i + 1] \in 1 .. (i + 1) /\ T[O[i + 1]] = p.from
      BY <1>0, <2>4, <3>2
    <3>5. Since(i + 1)
      BY <3>3, <3>4
    <3> QED
      BY <1>0, <2>1, <3>5
  <2>5. CASE O[i + 1] = 0
    BY <1>0, <2>1, <2>5
  <2>6. CASE O[i + 1] = O[i] /\ O[i] # 0 /\ T[i + 1] \in p.skip
    <3>1. /\ O[i] \in 1 .. i /\ T[O[i]] = p.from
          /\ \A x \in (O[i] + 1) .. i : T[x] \in p.skip
          /\ \A x \in O[i] .. i : O[x] = O[i]
      BY <1>2, <2>6
    <3>2. O[i + 1] \in 1 .. (i + 1) /\ T[O[i + 1]] = p.from
      BY <1>0, <2>6, <3>1
    <3>3. \A x \in (O[i + 1] + 1) .. (i + 1) : T[x] \in p.skip
      <4> SUFFICES ASSUME NEW x \in (O[i] + 1) .. (i + 1) PROVE T[x] \in p.skip
        BY <2>6
      <4>1. x = i + 1 \/ x \in (O[i] + 1) .. i
        BY <1>0, <3>1
      <4> QED
        BY <2>6, <3>1, <4>1
    <3>4. \A x \in O[i + 1] .. (i + 1) : O[x] = O[i + 1]
      <4> SUFFICES ASSUME NEW x \in O[i] .. (i + 1) PROVE O[x] = O[i]
        BY <2>6
      <4>1. x = i + 1 \/ x \in O[i] .. i
        BY <1>0, <3>1
      <4> QED
        BY <2>6, <3>1, <4>1
    <3> QED
      BY <1>0, <2>1, <3>2, <3>3, <3>4
  <2> QED
    BY <2>3, <2>4, <2>5, <2>6
<1> HIDE DEF Good
<1>3. 0 .. n \subseteq Good
  BY <1>0, <1>1, <1>2, UpTo
<1>4. k \in Good
  BY <1>3 DEF n
<1> QED
  BY <1>4 DEF Good, O

(* A match goes from its first word to a word that ends it.                *)
LEMMA MatchIs ==
  ASSUME NEW p, NEW T \in Texts, NEW m \in Matches(p, T)
  PROVE  /\ m[1] \in 1 .. Len(T) /\ m[2] \in 1 .. Len(T) /\ m = <<m[1], m[2]>>
         /\ T[m[1]] = p.from
         /\ p.to = {} => m[1] = m[2]
         /\ p.to # {} => /\ m[1] < m[2] /\ T[m[2]] \in p.to
                         /\ Opening(p, T)[m[2] - 1] = m[1]
                         /\ \A x \in (m[1] + 1) .. (m[2] - 1) : T[x] \in p.skip
<1>0. Len(T) \in Nat /\ DOMAIN T = 1 .. Len(T)
  BY DEF Texts
<1>1. CASE p.to = {}
  BY <1>0, <1>1 DEF Matches, Places
<1>2. CASE p.to # {}
  <2>1. /\ m \in (1 .. Len(T)) \X (1 .. Len(T))
        /\ T[m[2]] \in p.to /\ Opening(p, T)[m[2] - 1] = m[1]
    BY <1>0, <1>2 DEF Matches
  <2>2. m[2] - 1 \in 0 .. Len(T) /\ m[1] # 0 /\ m = <<m[1], m[2]>>
    BY <1>0, <2>1
  <2>3. /\ m[1] \in 1 .. (m[2] - 1) /\ T[m[1]] = p.from
        /\ \A x \in (m[1] + 1) .. (m[2] - 1) : T[x] \in p.skip
    BY <2>1, <2>2, OpenSince
  <2> QED
    BY <1>0, <1>2, <2>1, <2>2, <2>3
<1> QED
  BY <1>1, <1>2

(* What is open when a word comes that ends it is a match.                 *)
LEMMA MatchFound ==
  ASSUME NEW p, NEW T \in Texts, NEW o \in 1 .. Len(T), NEW e \in 1 .. Len(T),
         T[e] \in p.to, Opening(p, T)[e - 1] = o
  PROVE  <<o, e>> \in Matches(p, T)
<1>1. DOMAIN T = 1 .. Len(T)
  BY DEF Texts
<1> QED
  BY <1>1 DEF Matches

(* Matches lie apart.                                                      *)
LEMMA MatchesApart ==
  ASSUME NEW p, Proper(p), NEW T \in Texts,
         NEW m \in Matches(p, T), NEW l \in Matches(p, T)
  PROVE  m = l \/ m[2] < l[1] \/ l[2] < m[1]
<1> DEFINE O == Opening(p, T)
<1>0. Len(T) \in Nat
  BY DEF Texts
<1>1. CASE p.to = {}
  <2>1. /\ m[1] = m[2] /\ l[1] = l[2] /\ m = <<m[1], m[2]>> /\ l = <<l[1], l[2]>>
        /\ m[1] \in 1 .. Len(T) /\ l[1] \in 1 .. Len(T)
    BY <1>1, MatchIs
  <2> QED
    BY <1>0, <2>1
<1>2. CASE p.to # {}
  (* After its last word a match is not open.                              *)
  <2>1. ASSUME NEW q \in Matches(p, T) PROVE O[q[2]] = 0
    <3>1. /\ q[2] \in 1 .. Len(T) /\ T[q[2]] \in p.to
          /\ O[q[2] - 1] = q[1] /\ q[1] \in 1 .. Len(T)
      BY <1>2, MatchIs
    <3>2. O[q[2]] = Open(p, T, O[q[2] - 1], q[2])
      BY <3>1, OpeningSteps
    <3>3. q[1] # 0 /\ T[q[2]] \notin p.skip
      BY <1>0, <3>1 DEF Proper
    <3> QED
      BY <3>1, <3>2, <3>3 DEF Open
  (* Within a match it is.                                                 *)
  <2>2. ASSUME NEW q \in Matches(p, T), NEW x \in q[1] .. (q[2] - 1) PROVE O[x] = q[1]
    <3>1. /\ q[2] \in 1 .. Len(T) /\ O[q[2] - 1] = q[1] /\ q[1] \in 1 .. Len(T)
      BY <1>2, MatchIs
    <3>2. q[2] - 1 \in 0 .. Len(T) /\ O[q[2] - 1] # 0
      BY <1>0, <3>1
    <3> QED
      BY <3>1, <3>2, OpenSince
  <2>3. ASSUME NEW q \in Matches(p, T), NEW r \in Matches(p, T), q[1] <= r[1], r[1] <= q[2]
        PROVE  q = r
    <3>1. /\ q[1] \in 1 .. Len(T) /\ q[2] \in 1 .. Len(T) /\ q[1] < q[2] /\ q = <<q[1], q[2]>>
          /\ r[1] \in 1 .. Len(T) /\ r[2] \in 1 .. Len(T) /\ r[1] < r[2] /\ r = <<r[1], r[2]>>
      BY <1>2, MatchIs
    <3>2. O[r[1]] = r[1] /\ r[1] # 0
      BY <1>0, <2>2, <3>1
    <3>3. r[1] # q[2]
      BY <2>1, <3>2
    <3>4. r[1] \in q[1] .. (q[2] - 1)
      BY <1>0, <2>3, <3>1, <3>3
    <3>5. q[1] = r[1]
      BY <2>2, <3>2, <3>4
    <3>6. ~(q[2] < r[2])
      <4> SUFFICES ASSUME q[2] < r[2] PROVE FALSE
        OBVIOUS
      <4>1. q[2] \in r[1] .. (r[2] - 1)
        BY <1>0, <3>1, <3>5
      <4> QED
        BY <2>1, <2>2, <3>2, <4>1
    <3>7. ~(r[2] < q[2])
      <4> SUFFICES ASSUME r[2] < q[2] PROVE FALSE
        OBVIOUS
      <4>1. r[2] \in q[1] .. (q[2] - 1)
        BY <1>0, <3>1, <3>5
      <4> QED
        BY <2>1, <2>2, <3>2, <3>5, <4>1
    <3>8. q[2] = r[2]
      BY <1>0, <3>1, <3>6, <3>7
    <3> QED
      BY <3>1, <3>5, <3>8
  <2>4. /\ m[1] \in 1 .. Len(T) /\ m[2] \in 1 .. Len(T)
        /\ l[1] \in 1 .. Len(T) /\ l[2] \in 1 .. Len(T)
    BY MatchIs
  <2>5. m[1] <= l[1] /\ l[1] <= m[2] => m = l
    BY <2>3
  <2>6. l[1] <= m[1] /\ m[1] <= l[2] => m = l
    BY <2>3
  <2> QED
    BY <1>0, <2>4, <2>5, <2>6
<1> QED
  BY <1>1, <1>2

(* What becomes of each place.                                             *)
LEMMA ReplacedIs ==
  ASSUME NEW p, Proper(p), NEW T \in Texts
  PROVE  /\ Replaced(p, T) \in Texts /\ Len(Replaced(p, T)) = Len(T)
         /\ \A m \in Matches(p, T) :
              /\ Replaced(p, T)[m[1]] = p.mark
              /\ \A k \in (m[1] + 1) .. (m[2] - 1) : Replaced(p, T)[k] = "gone"
              /\ m[1] < m[2] => Replaced(p, T)[m[2]] = Rest(p, T[m[2]])
         /\ \A k \in 1 .. Len(T) : ~Covered(p, T, k) => Replaced(p, T)[k] = T[k]
<1> DEFINE n == Len(T)
           M == Matches(p, T)
           R == Replaced(p, T)
<1>0. n \in Nat /\ DOMAIN T = 1 .. n /\ \A i \in 1 .. n : T[i] \in Items
  BY DEF Texts
<1>1. R = [i \in 1 .. n |->
             IF \E m \in M : m[1] = i THEN p.mark
             ELSE IF \E m \in M : m[1] < i /\ i < m[2] THEN "gone"
             ELSE IF \E m \in M : m[2] = i THEN Rest(p, T[i])
             ELSE T[i]]
  BY <1>0 DEF Replaced
<1>2. \A m \in M : m[1] \in 1 .. n /\ m[2] \in 1 .. n
  BY MatchIs
<1>3. \A m, l \in M : m = l \/ m[2] < l[1] \/ l[2] < m[1]
  BY MatchesApart
<1> HIDE DEF M, n
<1>4. \A i \in 1 .. n : R[i] \in Items
  <2>1. p.mark \in Items /\ "gone" \in Items /\ "torn" \in Items
    BY DEF Proper, Items, Words, Nothing
  <2>2. \A w : Rest(p, w) \in {"torn", "gone"}
    BY DEF Rest
  <2> QED
    BY <1>0, <1>1, <2>1, <2>2
<1>5. R \in [1 .. n -> Items]
  BY <1>1, <1>4
<1> HIDE DEF R
<1>6. R \in Texts /\ Len(R) = n
  BY <1>0, <1>5 DEF Texts
<1>7. ASSUME NEW m \in M PROVE R[m[1]] = p.mark
  BY <1>1, <1>2
<1>8. ASSUME NEW m \in M, NEW k \in (m[1] + 1) .. (m[2] - 1) PROVE R[k] = "gone"
  <2>1. k \in 1 .. n /\ m[1] < k /\ k < m[2]
    BY <1>0, <1>2
  <2>2. ~ \E l \in M : l[1] = k
    <3> SUFFICES ASSUME NEW l \in M, l[1] = k PROVE FALSE
      OBVIOUS
    <3>1. l[1] \in 1 .. n /\ l[2] \in 1 .. n /\ m[1] \in 1 .. n /\ m[2] \in 1 .. n
      BY <1>2
    <3>2. l # m
      BY <1>0, <2>1, <3>1
    <3>3. m[2] < l[1] \/ l[2] < m[1]
      BY <1>3, <3>2
    <3>4. l[1] <= l[2]
      BY MatchIs DEF M
    <3> QED
      BY <1>0, <2>1, <3>1, <3>3, <3>4
  <2> QED
    BY <1>1, <2>1, <2>2
<1>9. ASSUME NEW m \in M, m[1] < m[2] PROVE R[m[2]] = Rest(p, T[m[2]])
  <2>1. m[1] \in 1 .. n /\ m[2] \in 1 .. n
    BY <1>2
  <2>2. ~ \E l \in M : l[1] = m[2] \/ (l[1] < m[2] /\ m[2] < l[2])
    <3> SUFFICES ASSUME NEW l \in M, l[1] = m[2] \/ (l[1] < m[2] /\ m[2] < l[2]) PROVE FALSE
      OBVIOUS
    <3>1. l[1] \in 1 .. n /\ l[2] \in 1 .. n
      BY <1>2
    <3>2. l # m
      BY <1>0, <1>9, <2>1
    <3>3. m[2] < l[1] \/ l[2] < m[1]
      BY <1>3, <3>2
    <3>4. l[1] <= l[2]
      BY MatchIs DEF M
    <3> QED
      BY <1>0, <1>9, <2>1, <3>1, <3>3, <3>4
  <2> QED
    BY <1>1, <2>1, <2>2
<1>10. ASSUME NEW k \in 1 .. n, ~Covered(p, T, k) PROVE R[k] = T[k]
  <2>1. ASSUME NEW m \in M
        PROVE  m[1] # k /\ ~(m[1] < k /\ k < m[2]) /\ m[2] # k
    <3>1. m[1] \in 1 .. n /\ m[2] \in 1 .. n /\ m[1] <= m[2]
      BY <1>2, MatchIs DEF M
    <3>2. ~(m[1] <= k /\ k <= m[2])
      BY <1>10 DEF Covered, Covers, M
    <3> QED
      BY <1>0, <3>1, <3>2
  <2> QED
    BY <1>1, <2>1
<1> QED
  BY <1>6, <1>7, <1>8, <1>9, <1>10 DEF n, M, R

(* A place that no match covers stays; the first of a match is marked, and *)
(* the others are empty, but for what Rest leaves of the last.             *)
LEMMA PlaceIs ==
  ASSUME NEW p, Proper(p), NEW T \in Texts, NEW k \in 1 .. Len(T)
  PROVE  \/ ~Covered(p, T, k) /\ Replaced(p, T)[k] = T[k]
         \/ \E m \in Matches(p, T) :
              /\ Covers(m, k)
              /\ \/ m[1] = k /\ T[k] = p.from /\ Replaced(p, T)[k] = p.mark
                 \/ m[1] < k /\ k < m[2] /\ T[k] \in p.skip /\ Replaced(p, T)[k] = "gone"
                 \/ m[1] < k /\ k = m[2] /\ T[k] \in p.to /\ Replaced(p, T)[k] = Rest(p, T[k])
<1>0. Len(T) \in Nat
  BY DEF Texts
<1>1. CASE ~Covered(p, T, k)
  BY <1>1, ReplacedIs
<1>2. CASE Covered(p, T, k)
  <2>1. PICK m \in Matches(p, T) : m[1] <= k /\ k <= m[2]
    BY <1>2 DEF Covered, Covers
  <2>2. /\ m[1] \in 1 .. Len(T) /\ m[2] \in 1 .. Len(T)
        /\ T[m[1]] = p.from
        /\ m[1] = m[2] \/ (/\ m[1] < m[2] /\ T[m[2]] \in p.to
                           /\ \A x \in (m[1] + 1) .. (m[2] - 1) : T[x] \in p.skip)
    BY MatchIs
  <2>3. /\ Replaced(p, T)[m[1]] = p.mark
        /\ \A x \in (m[1] + 1) .. (m[2] - 1) : Replaced(p, T)[x] = "gone"
        /\ m[1] < m[2] => Replaced(p, T)[m[2]] = Rest(p, T[m[2]])
    BY ReplacedIs
  <2>4. m[1] = k \/ (m[1] < k /\ k = m[2]) \/ (m[1] < k /\ k \in (m[1] + 1) .. (m[2] - 1) /\ k < m[2])
    BY <1>0, <2>1, <2>2
  <2>5. Covers(m, k)
    BY <2>1 DEF Covers
  <2> QED
    BY <1>0, <2>1, <2>2, <2>3, <2>4, <2>5
<1> QED
  BY <1>1, <1>2

LEMMA RestIs ==
  ASSUME NEW p, NEW w
  PROVE  /\ Rest(p, w) \in {"gone", "torn"}
         /\ w \notin {"begin", "end"} \/ p.kind = "private_key" => Rest(p, w) = "gone"
BY DEF Rest

(* A pattern writes no words.                                              *)
LEMMA NothingNew ==
  ASSUME NEW p, Proper(p), NEW T \in Texts, NEW k \in 1 .. Len(T),
         Replaced(p, T)[k] \notin {p.mark, "gone", "torn"}
  PROVE  Replaced(p, T)[k] = T[k] /\ ~Covered(p, T, k)
BY PlaceIs, RestIs

(* Its marks are at the starts of its matches.                             *)
LEMMA MarkedAt ==
  ASSUME NEW p, Proper(p), NEW T \in Texts, NEW k \in 1 .. Len(T),
         Replaced(p, T)[k] = p.mark
  PROVE  k \in Starts(p, T) \/ T[k] = p.mark
<1>1. p.mark \notin {"gone", "torn"}
  BY DEF Proper, Marks
<1>2. CASE ~Covered(p, T, k)
  BY <1>2, ReplacedIs
<1>3. CASE Covered(p, T, k)
  <2>1. PICK m \in Matches(p, T) : m[1] = k
    BY <1>1, <1>3, PlaceIs, RestIs
  <2> QED
    BY <2>1 DEF Starts
<1> QED
  BY <1>2, <1>3

(* What has been taken stays taken.                                        *)
LEMMA StaysTaken ==
  ASSUME NEW p, Proper(p), NEW T \in Texts, NEW k \in 1 .. Len(T),
         T[k] \in Marks \cup Nothing
  PROVE  Replaced(p, T)[k] \in Marks \cup Nothing
<1>1. p.mark \in Marks
  BY DEF Proper
<1>2. Rest(p, T[k]) = "gone"
  BY RestIs DEF Marks, Nothing
<1> QED
  BY <1>1, <1>2, PlaceIs DEF Nothing

(* What is gone was taken by a match: before it, with nothing in between,  *)
(* is the mark, or the rest of what was taken.                             *)
GoneBehind(T) ==
  \A x \in 1 .. Len(T) : T[x] = "gone" =>
    \E y \in 1 .. (x - 1) :
      /\ T[y] \in Marks \cup {"torn"}
      /\ \A z \in (y + 1) .. x : T[z] = "gone"

LEMMA GoneStaysBehind ==
  ASSUME NEW p, Proper(p), NEW T \in Texts, GoneBehind(T)
  PROVE  GoneBehind(Replaced(p, T))
<1> DEFINE R == Replaced(p, T)
           n == Len(T)
           M == Matches(p, T)
<1>0. n \in Nat /\ Len(R) = n
  BY ReplacedIs DEF Texts
<1>a. /\ p.mark \in Marks /\ "gone" \notin Marks
      /\ p.from \notin Marks \cup {"gone", "torn"} /\ "gone" \notin p.to
  BY DEF Proper, Marks, Words, Source, Space, Keywords
<1> SUFFICES ASSUME NEW x \in 1 .. n, R[x] = "gone"
             PROVE  \E y \in 1 .. (x - 1) :
                      /\ R[y] \in Marks \cup {"torn"}
                      /\ \A z \in (y + 1) .. x : R[z] = "gone"
  BY <1>0 DEF GoneBehind
(* A match that begins before x, and ends there or later, has a mark.      *)
<1>1. ASSUME NEW m \in M, m[1] < x,
             \A z \in (m[1] + 1) .. x : R[z] = "gone"
      PROVE  \E y \in 1 .. (x - 1) :
               /\ R[y] \in Marks \cup {"torn"}
               /\ \A z \in (y + 1) .. x : R[z] = "gone"
  <2>1. m[1] \in 1 .. n /\ R[m[1]] \in Marks
    BY <1>a, MatchIs, ReplacedIs
  <2>2. m[1] \in 1 .. (x - 1)
    BY <1>0, <1>1, <2>1
  <2> QED
    BY <1>1, <2>1, <2>2
<1>2. CASE Covered(p, T, x)
  <2>1. PICK m \in M : m[1] <= x /\ x <= m[2]
    BY <1>2 DEF Covered, Covers
  <2>2. /\ R[m[1]] \in Marks /\ m[1] \in 1 .. n /\ m[2] \in 1 .. n
        /\ \A z \in (m[1] + 1) .. (m[2] - 1) : R[z] = "gone"
    BY <1>a, MatchIs, ReplacedIs
  <2>3. m[1] < x
    BY <1>0, <1>a, <2>1, <2>2
  <2>4. \A z \in (m[1] + 1) .. x : z \in (m[1] + 1) .. (m[2] - 1) \/ z = x
    BY <1>0, <2>1, <2>2
  <2>5. \A z \in (m[1] + 1) .. x : R[z] = "gone"
    BY <2>2, <2>4
  <2> QED
    BY <1>1, <2>3, <2>5
<1>3. CASE ~Covered(p, T, x)
  <2>1. T[x] = "gone"
    BY <1>3, ReplacedIs
  <2>2. PICK y \in 1 .. (x - 1) :
          /\ T[y] \in Marks \cup {"torn"}
          /\ \A z \in (y + 1) .. x : T[z] = "gone"
    BY <2>1 DEF GoneBehind
  (* A match that covers some place from y to x ends at y.                 *)
  <2>3. ASSUME NEW z \in y .. x, NEW m \in M, Covers(m, z)
        PROVE  z = y /\ m[1] < y /\ m[2] = y
    <3>1. /\ m[1] \in 1 .. n /\ m[2] \in 1 .. n /\ T[m[1]] = p.from
          /\ m[1] <= z /\ z <= m[2] /\ (m[1] = m[2] \/ T[m[2]] \in p.to)
      BY <2>3, MatchIs DEF Covers
    <3>2. ~(m[1] \in y .. x)
      BY <1>0, <1>a, <2>2, <3>1
    <3>3. m[1] < y
      BY <1>0, <2>2, <3>1, <3>2
    <3>4. ~(x <= m[2])
      BY <1>0, <1>3, <3>1, <3>3 DEF Covered, Covers
    <3>5. ~(m[2] \in (y + 1) .. x)
      BY <1>0, <1>a, <2>2, <3>1, <3>2, <3>3
    <3> QED
      BY <1>0, <2>2, <3>1, <3>3, <3>4, <3>5
  <2>4. \A z \in (y + 1) .. x : ~Covered(p, T, z)
    <3> SUFFICES ASSUME NEW z \in (y + 1) .. x, NEW m \in M, Covers(m, z) PROVE FALSE
      BY DEF Covered
    <3>1. z \in y .. x /\ z # y
      BY <1>0, <2>2
    <3> QED
      BY <2>3, <3>1
  <2>5. \A z \in (y + 1) .. x : R[z] = "gone"
    <3> SUFFICES ASSUME NEW z \in (y + 1) .. x PROVE R[z] = "gone"
      OBVIOUS
    <3>1. z \in 1 .. n
      BY <1>0, <2>2
    <3> QED
      BY <2>2, <2>4, <3>1, ReplacedIs
  <2>6. y \in 1 .. n /\ y \in y .. x
    BY <1>0, <2>2
  <2>7. CASE ~Covered(p, T, y)
    <3>1. R[y] = T[y]
      BY <2>6, <2>7, ReplacedIs
    <3> QED
      BY <2>2, <2>5, <3>1
  <2>8. CASE Covered(p, T, y)
    <3>1. PICK m \in M : Covers(m, y)
      BY <2>8 DEF Covered
    <3>2. m[1] < y /\ m[2] = y /\ m[1] \in 1 .. n
      BY <2>3, <2>6, <3>1, MatchIs
    <3>3. R[y] = Rest(p, T[y]) /\ \A z \in (m[1] + 1) .. (y - 1) : R[z] = "gone"
      BY <3>2, ReplacedIs
    <3>4. R[y] = "gone"
      BY <2>2, <3>3, RestIs DEF Marks
    <3>5. \A z \in (m[1] + 1) .. x : z \in (m[1] + 1) .. (y - 1) \/ z = y \/ z \in (y + 1) .. x
      BY <1>0, <2>2, <3>2
    <3>6. \A z \in (m[1] + 1) .. x : R[z] = "gone"
      BY <2>5, <3>3, <3>4, <3>5
    <3>7. m[1] < x
      BY <1>0, <2>2, <3>2
    <3> QED
      BY <1>1, <3>6, <3>7
  <2> QED
    BY <2>7, <2>8
<1> QED
  BY <1>2, <1>3

(* No word w of text T is followed by one of S, marks apart.               *)
Unfollowed(T, w, S) ==
  \A i, j \in 1 .. Len(T) : T[i] = w /\ Follows(T, j, i) => T[j] \notin S \ Marks

(* What follows a word after a pattern followed it before.                 *)
LEMMA FollowedKept ==
  ASSUME NEW p, Proper(p), NEW T \in Texts, NEW i \in 1 .. Len(T), NEW j \in 1 .. Len(T),
         Replaced(p, T)[i] \notin Marks \cup {"gone", "torn"},
         Follows(Replaced(p, T), j, i), Replaced(p, T)[j] \notin Marks
  PROVE  /\ \A k \in i .. j : ~Covered(p, T, k) /\ Replaced(p, T)[k] = T[k]
         /\ Follows(T, j, i)
<1> DEFINE R == Replaced(p, T)
           n == Len(T)
<1>0. n \in Nat /\ i < j /\ \A k \in (i + 1) .. (j - 1) : R[k] \in Transparent
  BY DEF Texts, Follows, Transparent, Space, Nothing
<1>a. p.mark \in Marks /\ \A w \in Transparent : w \notin Marks
  BY DEF Proper, Marks, Transparent, Space, Nothing
<1>1. ASSUME NEW k \in i .. j, Covered(p, T, k) PROVE FALSE
  <2>1. PICK m \in Matches(p, T) : m[1] <= k /\ k <= m[2]
    BY <1>1 DEF Covered, Covers
  <2>2. m[1] \in 1 .. n /\ m[2] \in 1 .. n /\ R[m[1]] = p.mark
    BY MatchIs, ReplacedIs
  <2>3. CASE m[1] <= i
    <3>1. Covered(p, T, i)
      BY <1>0, <2>1, <2>2, <2>3 DEF Covered, Covers
    <3>2. R[i] \in {p.mark, "gone", "torn"}
      BY <3>1, NothingNew
    <3> QED
      BY <1>a, <3>2
  <2>4. CASE m[1] > i
    <3>1. m[1] \in (i + 1) .. (j - 1) \/ m[1] = j
      BY <1>0, <2>1, <2>2, <2>4
    <3> QED
      BY <1>0, <1>a, <2>2, <3>1
  <2> QED
    BY <1>0, <2>2, <2>3, <2>4
<1>2. \A k \in i .. j : ~Covered(p, T, k) /\ R[k] = T[k]
  <2> SUFFICES ASSUME NEW k \in i .. j PROVE ~Covered(p, T, k) /\ R[k] = T[k]
    OBVIOUS
  <2>1. k \in 1 .. n
    BY <1>0
  <2> QED
    BY <1>1, <2>1, ReplacedIs
<1>3. \A k \in (i + 1) .. (j - 1) : k \in i .. j
  BY <1>0
<1>4. Follows(T, j, i)
  BY <1>0, <1>2, <1>3 DEF Follows, Transparent, Space, Nothing
<1> QED
  BY <1>2, <1>4

(* No pattern uncovers what a keyword takes.                               *)
LEMMA UnfollowedStays ==
  ASSUME NEW p, Proper(p), NEW T \in Texts, NEW w, w \notin Marks \cup {"gone", "torn"},
         NEW S, Unfollowed(T, w, S)
  PROVE  Unfollowed(Replaced(p, T), w, S)
<1> DEFINE R == Replaced(p, T)
<1> SUFFICES ASSUME NEW i \in 1 .. Len(T), NEW j \in 1 .. Len(T),
                    R[i] = w, Follows(R, j, i), R[j] \in S \ Marks
             PROVE  FALSE
  BY ReplacedIs DEF Unfollowed
<1>1. Follows(T, j, i) /\ \A k \in i .. j : R[k] = T[k]
  BY FollowedKept
<1>2. Len(T) \in Nat /\ i < j
  BY DEF Follows, Texts
<1>3. i \in i .. j /\ j \in i .. j
  BY <1>2
<1>4. R[i] = T[i] /\ R[j] = T[j]
  BY <1>1, <1>3
<1> QED
  BY <1>1, <1>4 DEF Unfollowed

(* The pattern of a keyword leaves none that is followed by what it takes. *)
LEMMA KeywordTakes ==
  ASSUME NEW p, Proper(p), NEW T \in Texts,
         p.skip = Transparent, p.from \notin Transparent, p.to # {}
  PROVE  Unfollowed(Replaced(p, T), p.from, p.to)
<1> DEFINE R == Replaced(p, T)
           O == Opening(p, T)
<1> SUFFICES ASSUME NEW i \in 1 .. Len(T), NEW j \in 1 .. Len(T),
                    R[i] = p.from, Follows(R, j, i), R[j] \in p.to \ Marks
             PROVE  FALSE
  BY ReplacedIs DEF Unfollowed
<1>1. /\ Follows(T, j, i) /\ \A k \in i .. j : ~Covered(p, T, k) /\ R[k] = T[k]
  <2>1. R[i] \notin Marks \cup {"gone", "torn"}
    BY DEF Proper
  <2> QED
    BY <2>1, FollowedKept
<1>2. /\ Len(T) \in Nat /\ i < j
      /\ \A k \in (i + 1) .. (j - 1) : T[k] \in p.skip
  BY <1>1 DEF Follows, Texts, Transparent, Space, Nothing
<1>3. i \in i .. j /\ j \in i .. j
  BY <1>2
<1>4. T[i] = p.from /\ T[j] \in p.to /\ ~Covered(p, T, i)
  BY <1>1, <1>3
<1>5. O[i] = i
  <2>1. O[i] = Open(p, T, O[i - 1], i) /\ O[i - 1] \in Nat
    BY OpeningSteps
  <2>2. ASSUME O[i - 1] # 0, T[i] \in p.to PROVE FALSE
    <3>1. i - 1 \in 0 .. Len(T)
      BY <1>2
    <3>2. O[i - 1] \in 1 .. (i - 1)
      BY <2>2, <3>1, OpenSince
    <3>3. O[i - 1] \in 1 .. Len(T)
      BY <1>2, <3>2
    <3>4. <<O[i - 1], i>> \in Matches(p, T)
      BY <2>2, <3>3, MatchFound
    <3>5. Covers(<<O[i - 1], i>>, i)
      BY <1>2, <3>2 DEF Covers
    <3> QED
      BY <1>4, <3>4, <3>5 DEF Covered
  <2> QED
    BY <1>4, <2>1, <2>2 DEF Open
<1> DEFINE Good == {k \in 0 .. (j - 1 - i) : O[i + k] = i}
<1>6. 0 .. (j - 1 - i) \subseteq Good
  <2>1. 0 \in Good
    BY <1>2, <1>5
  <2>2. ASSUME NEW k \in 0 .. (j - 1 - i - 1), k \in Good PROVE k + 1 \in Good
    <3>1. /\ i + k + 1 \in 1 .. Len(T) /\ (i + k + 1) - 1 = i + k
          /\ i + k + 1 \in (i + 1) .. (j - 1)
      BY <1>2
    <3>2. O[i + k + 1] = Open(p, T, O[i + k], i + k + 1)
      BY <3>1, OpeningSteps
    <3>3. O[i + k + 1] = i
      BY <1>2, <2>2, <3>1, <3>2 DEF Open
    <3>4. i \in Int /\ j \in Int /\ k \in Int
      BY <1>2
    <3>5. i + (k + 1) = i + k + 1 /\ k + 1 \in 0 .. (j - 1 - i)
      BY <3>4
    <3> QED
      BY <3>3, <3>5
  <2>3. j - 1 - i \in Nat
    BY <1>2
  <2> HIDE DEF Good
  <2> QED
    BY <2>1, <2>2, <2>3, UpTo
<1>7. O[j - 1] = i
  <2>1. j - 1 - i \in 0 .. (j - 1 - i) /\ i + (j - 1 - i) = j - 1
    BY <1>2
  <2> QED
    BY <1>6, <2>1
<1>8. <<i, j>> \in Matches(p, T)
  BY <1>4, <1>7, MatchFound
<1>9. Covers(<<i, j>>, i)
  BY <1>2 DEF Covers
<1> QED
  BY <1>4, <1>8, <1>9 DEF Covered

-----------------------------------------------------------------------------
(* Private keys.                                                           *)

LEMMA PatternsAre ==
  /\ DOMAIN Patterns = 1 .. 5 /\ \A k \in 1 .. 5 : Proper(Patterns[k])
  /\ Patterns[1] = PrivateKey
  /\ Patterns[2].from = "bearer" /\ Patterns[2].to = Tokenlike
  /\ Patterns[3].from = "jwt" /\ Patterns[3].to = {}
  /\ Patterns[4].from = "password:" /\ Patterns[4].to = Words
  /\ Patterns[5].from = "token:" /\ Patterns[5].to = Long
  /\ \A k \in {2, 4, 5} : Patterns[k].skip = Transparent
  /\ Patterns[1].mark = "key-mark" /\ Patterns[2].mark = "bearer-mark"
  /\ Patterns[3].mark = "jwt-mark" /\ Patterns[4].mark = "password-mark"
  /\ Patterns[5].mark = "token-mark"
<1>1. Len(Patterns) = 5 /\ DOMAIN Patterns = 1 .. 5
  BY DEF Patterns
<1>2. Proper(Patterns[1])
  BY DEF Patterns, PrivateKey, Pattern, Proper, Words, Items, Source, Keywords, Space, Marks, Nothing
<1>3. Proper(Patterns[2])
  BY DEF Patterns, Pattern, Proper, Words, Items, Source, Keywords, Space, Marks, Nothing, Transparent,
         Tokenlike
<1>4. Proper(Patterns[3])
  BY DEF Patterns, Pattern, Proper, Words, Items, Source, Keywords, Space, Marks, Nothing
<1>5. Proper(Patterns[4])
  BY DEF Patterns, Pattern, Proper, Words, Items, Source, Keywords, Space, Marks, Nothing, Transparent
<1>6. Proper(Patterns[5])
  BY DEF Patterns, Pattern, Proper, Words, Items, Source, Keywords, Space, Marks, Nothing, Transparent, Long
<1>7. \A k \in 1 .. 5 : k = 1 \/ k = 2 \/ k = 3 \/ k = 4 \/ k = 5
  OBVIOUS
<1>8. \A k \in 1 .. 5 : Proper(Patterns[k])
  BY <1>2, <1>3, <1>4, <1>5, <1>6, <1>7
<1>9. Patterns[1] = PrivateKey
  BY DEF Patterns
<1>10. PrivateKey.mark = "key-mark"
  BY DEF PrivateKey, Pattern
<1>11. /\ Patterns[2].from = "bearer" /\ Patterns[2].to = Tokenlike
       /\ Patterns[2].skip = Transparent /\ Patterns[2].mark = "bearer-mark"
  BY DEF Patterns, Pattern
<1>12. /\ Patterns[3].from = "jwt" /\ Patterns[3].to = {} /\ Patterns[3].mark = "jwt-mark"
  BY DEF Patterns, Pattern
<1>13. /\ Patterns[4].from = "password:" /\ Patterns[4].to = Words
       /\ Patterns[4].skip = Transparent /\ Patterns[4].mark = "password-mark"
  BY DEF Patterns, Pattern
<1>14. /\ Patterns[5].from = "token:" /\ Patterns[5].to = Long
       /\ Patterns[5].skip = Transparent /\ Patterns[5].mark = "token-mark"
  BY DEF Patterns, Pattern
<1>15. Patterns[1].mark = "key-mark"
  BY <1>9, <1>10
<1>16. \A k \in {2, 4, 5} : Patterns[k].skip = Transparent
  BY <1>11, <1>13, <1>14
<1> QED
  BY <1>1, <1>8, <1>9, <1>11, <1>12, <1>13, <1>14, <1>15, <1>16

LEMMA PrivateKeyIs ==
  /\ Proper(PrivateKey) /\ PrivateKey.kind = "private_key" /\ PrivateKey.from = "begin"
  /\ PrivateKey.to = {"end"} /\ PrivateKey.to # {} /\ PrivateKey.mark = "key-mark"
  /\ PrivateKey.skip = Items \ {"end"}
<1>1. PrivateKey.kind = "private_key" /\ PrivateKey.from = "begin" /\ PrivateKey.to = {"end"}
      /\ PrivateKey.mark = "key-mark" /\ PrivateKey.skip = Items \ {"end"}
  BY DEF PrivateKey, Pattern
<1>2. 1 \in 1 .. 5 /\ {"end"} # {}
  OBVIOUS
<1>3. Proper(PrivateKey)
  BY <1>2, PatternsAre
<1> QED
  BY <1>1, <1>2, <1>3

(* Matches of the pattern are what is in keys.                             *)
LEMMA KeyCovered ==
  ASSUME NEW T \in Texts, NEW i \in 1 .. Len(T)
  PROVE  Covered(PrivateKey, T, i) <=> InKey(T, i)
<1> DEFINE p == PrivateKey
           n == Len(T)
           O == Opening(p, T)
<1>0. n \in Nat /\ \A k \in 1 .. n : T[k] \in Items
  BY DEF Texts
<1>a. p.from = "begin" /\ p.to = {"end"} /\ p.skip = Items \ {"end"} /\ p.to # {}
  BY PrivateKeyIs
<1> HIDE DEF p
<1>1. ASSUME NEW m \in Matches(p, T), m[1] <= i, i <= m[2] PROVE InKey(T, i)
  <2>1. /\ m[1] \in 1 .. n /\ m[2] \in 1 .. n /\ T[m[1]] = "begin" /\ T[m[2]] = "end"
        /\ \A x \in (m[1] + 1) .. (m[2] - 1) : T[x] # "end"
    BY <1>a, MatchIs
  <2>2. m[1] \in 1 .. i /\ m[2] \in i .. n
    BY <1>0, <1>1, <2>1
  <2>3. \A x \in m[1] .. (m[2] - 1) : x = m[1] \/ x \in (m[1] + 1) .. (m[2] - 1)
    BY <1>0, <2>1
  <2>4. \A x \in m[1] .. (m[2] - 1) : T[x] # "end"
    BY <2>1, <2>3
  <2> QED
    BY <2>1, <2>2, <2>4 DEF InKey
<1>2. ASSUME NEW b \in 1 .. i, NEW e \in i .. n, T[b] = "begin", T[e] = "end",
             \A j \in b .. (e - 1) : T[j] # "end"
      PROVE  Covered(p, T, i)
  <2>1. b \in 1 .. n /\ b - 1 \in 0 .. n /\ O[b] = Open(p, T, O[b - 1], b) /\ O[b - 1] \in Nat
    BY <1>0, OpeningSteps
  <2>2. T[b] \in p.skip /\ b # 0
    BY <1>0, <1>2, <1>a, <2>1
  <2>3. O[b] # 0
    BY <1>2, <1>a, <2>1, <2>2 DEF Open
  <2>4. O[b] \in 1 .. b
    BY <1>0, <2>1, <2>3, OpenSince
  <2>5. b < e
    BY <1>0, <1>2
  <2> DEFINE Good == {k \in 0 .. (e - 1 - b) : O[b + k] = O[b]}
  <2>6. 0 .. (e - 1 - b) \subseteq Good
    <3>1. 0 \in Good
      BY <1>0, <2>5
    <3>2. ASSUME NEW k \in 0 .. (e - 1 - b - 1), k \in Good PROVE k + 1 \in Good
      <4>0. b \in Int /\ e \in Int /\ k \in Int
        BY <1>0
      <4>1. /\ b + k + 1 \in 1 .. n /\ (b + k + 1) - 1 = b + k
            /\ b + k + 1 \in b .. (e - 1) /\ k + 1 \in 0 .. (e - 1 - b)
            /\ b + (k + 1) = b + k + 1
        BY <1>0, <4>0
      <4>2. O[b + k + 1] = Open(p, T, O[b + k], b + k + 1)
        BY <4>1, OpeningSteps
      <4>3. T[b + k + 1] \in p.skip
        BY <1>0, <1>2, <1>a, <4>1
      <4>4. O[b + k + 1] = O[b]
        BY <2>3, <3>2, <4>2, <4>3 DEF Open
      <4> QED
        BY <4>1, <4>4
    <3>3. e - 1 - b \in Nat
      BY <1>0, <2>5
    <3> HIDE DEF Good
    <3> QED
      BY <3>1, <3>2, <3>3, UpTo
  <2>7. e - 1 - b \in 0 .. (e - 1 - b) /\ b + (e - 1 - b) = e - 1
    BY <1>0, <2>5
  <2>8. O[e - 1] = O[b]
    BY <2>6, <2>7
  <2>9. O[b] \in 1 .. n /\ e \in 1 .. n /\ T[e] \in p.to
    BY <1>0, <1>2, <1>a, <2>4
  <2>10. <<O[b], e>> \in Matches(p, T)
    BY <2>8, <2>9, MatchFound
  <2>11. Covers(<<O[b], e>>, i)
    BY <1>0, <2>4 DEF Covers
  <2> QED
    BY <2>10, <2>11 DEF Covered
<1>3. ASSUME Covered(p, T, i) PROVE InKey(T, i)
  BY <1>1, <1>3 DEF Covered, Covers
<1>4. ASSUME InKey(T, i) PROVE Covered(p, T, i)
  BY <1>2, <1>4 DEF InKey
<1> QED
  BY <1>3, <1>4 DEF p

(* They start where keys open.                                             *)
LEMMA StartsOpen ==
  ASSUME NEW T \in Texts
  PROVE  Starts(PrivateKey, T) = {i \in DOMAIN T : OpensKey(T, i)}
<1> DEFINE p == PrivateKey
           n == Len(T)
<1>0. n \in Nat /\ DOMAIN T = 1 .. n
  BY DEF Texts
<1>a. Proper(p) /\ p.from = "begin" /\ p.to = {"end"} /\ p.skip = Items \ {"end"} /\ p.to # {}
  BY PrivateKeyIs
<1>b. \A i \in 1 .. n : Covered(p, T, i) <=> InKey(T, i)
  BY KeyCovered
<1> HIDE DEF p
<1>1. ASSUME NEW m \in Matches(p, T) PROVE m[1] \in 1 .. n /\ OpensKey(T, m[1])
  <2>1. m[1] \in 1 .. n /\ m[2] \in 1 .. n /\ m[1] < m[2]
    BY <1>a, MatchIs
  <2>2. InKey(T, m[1])
    <3>1. Covers(m, m[1])
      BY <1>0, <2>1 DEF Covers
    <3> QED
      BY <1>b, <2>1, <3>1 DEF Covered
  <2>3. ASSUME m[1] # 1, InKey(T, m[1] - 1) PROVE T[m[1] - 1] = "end"
    <3>1. m[1] - 1 \in 1 .. n
      BY <1>0, <2>1, <2>3
    <3>2. PICK l \in Matches(p, T) : l[1] <= m[1] - 1 /\ m[1] - 1 <= l[2]
      BY <1>b, <2>3, <3>1 DEF Covered, Covers
    <3>3. l[1] \in 1 .. n /\ l[2] \in 1 .. n /\ T[l[2]] \in p.to
      BY <1>a, MatchIs
    <3>4. l # m
      BY <1>0, <2>1, <3>2, <3>3
    <3>5. l[2] < m[1] \/ m[2] < l[1]
      BY <1>a, <3>4, MatchesApart
    <3>6. l[2] = m[1] - 1
      BY <1>0, <2>1, <3>2, <3>3, <3>5
    <3> QED
      BY <1>a, <3>3, <3>6
  <2> QED
    BY <2>1, <2>2, <2>3 DEF OpensKey
<1>2. ASSUME NEW i \in 1 .. n, OpensKey(T, i) PROVE \E m \in Matches(p, T) : m[1] = i
  <2>1. PICK m \in Matches(p, T) : m[1] <= i /\ i <= m[2]
    BY <1>2, <1>b DEF OpensKey, Covered, Covers
  <2>2. /\ m[1] \in 1 .. n /\ m[2] \in 1 .. n /\ m[1] < m[2] /\ T[m[1]] = "begin"
        /\ \A x \in (m[1] + 1) .. (m[2] - 1) : T[x] # "end"
    BY <1>a, MatchIs
  <2>3. ASSUME m[1] < i PROVE FALSE
    <3>1. i - 1 \in 1 .. n /\ i # 1 /\ m[1] <= i - 1 /\ i - 1 <= m[2]
      BY <1>0, <2>1, <2>2, <2>3
    <3>2. InKey(T, i - 1)
      BY <1>b, <3>1 DEF Covered, Covers
    <3>3. i - 1 = m[1] \/ i - 1 \in (m[1] + 1) .. (m[2] - 1)
      BY <1>0, <2>1, <2>2, <3>1
    <3>4. T[i - 1] # "end"
      BY <2>2, <3>3
    <3> QED
      BY <1>2, <3>1, <3>2, <3>4 DEF OpensKey
  <2> QED
    BY <1>0, <2>1, <2>2, <2>3
<1>3. ASSUME NEW i PROVE i \in Starts(p, T) <=> i \in {j \in DOMAIN T : OpensKey(T, j)}
  BY <1>0, <1>1, <1>2 DEF Starts
<1> QED
  BY <1>3 DEF p

(* A key is left in the text: a begin before an end.                       *)
HasKey(T) == \E i, j \in 1 .. Len(T) : i < j /\ T[i] = "begin" /\ T[j] = "end"

LEMMA NoKeyLeft ==
  ASSUME NEW T \in Texts
  PROVE  ~HasKey(Replaced(PrivateKey, T))
<1> DEFINE R == Replaced(PrivateKey, T)
           n == Len(T)
<1>a. Proper(PrivateKey) /\ PrivateKey.mark = "key-mark"
  BY PrivateKeyIs
<1>0. n \in Nat /\ Len(R) = n
  <2>1. n \in Nat
    BY DEF Texts
  <2> QED
    BY <1>a, <2>1, ReplacedIs
<1> SUFFICES ASSUME NEW b \in 1 .. n, NEW e \in 1 .. n, b < e, R[b] = "begin", R[e] = "end"
             PROVE  FALSE
  BY <1>0 DEF HasKey
<1>1. T[b] = "begin" /\ T[e] = "end" /\ ~Covered(PrivateKey, T, b)
  <2>1. R[b] \notin {"key-mark", "gone", "torn"} /\ R[e] \notin {"key-mark", "gone", "torn"}
    OBVIOUS
  <2> QED
    BY <1>a, <2>1, NothingNew
<1> DEFINE Ends1 == {k \in b .. n : T[k] = "end"}
<1>2. Ends1 \in SUBSET Nat /\ Ends1 # {}
  <2>1. e \in Ends1
    BY <1>0, <1>1
  <2> QED
    BY <1>0, <2>1
<1>3. PICK f \in Ends1 : \A k \in Ends1 : f <= k
  BY <1>2, LeastNumber
<1>4. \A k \in b .. (f - 1) : T[k] # "end"
  BY <1>0, <1>3
<1>5. b \in 1 .. b /\ f \in b .. n /\ T[f] = "end"
  BY <1>0, <1>3
<1>6. InKey(T, b)
  BY <1>1, <1>4, <1>5 DEF InKey
<1> QED
  BY <1>1, <1>6, KeyCovered

(* Nor does another pattern make one.                                      *)
LEMMA NoKeyComes ==
  ASSUME NEW p, Proper(p), NEW T \in Texts, ~HasKey(T)
  PROVE  ~HasKey(Replaced(p, T))
<1> DEFINE R == Replaced(p, T)
<1> SUFFICES ASSUME NEW i \in 1 .. Len(T), NEW j \in 1 .. Len(T), i < j,
                    R[i] = "begin", R[j] = "end"
             PROVE  FALSE
  BY ReplacedIs DEF HasKey
<1>1. "begin" \notin {p.mark, "gone", "torn"} /\ "end" \notin {p.mark, "gone", "torn"}
  BY DEF Proper, Marks
<1>2. T[i] = "begin" /\ T[j] = "end"
  BY <1>1, NothingNew
<1> QED
  BY <1>2 DEF HasKey

-----------------------------------------------------------------------------
(* All five patterns, one after the other.                                 *)

After1(words) == Replaced(Patterns[1], words)
After2(words) == Replaced(Patterns[2], After1(words))
After3(words) == Replaced(Patterns[3], After2(words))
After4(words) == Replaced(Patterns[4], After3(words))
After5(words) == Replaced(Patterns[5], After4(words))

(* The text before each of the patterns, and after the last.               *)
Stages(words) ==
  <<words, After1(words), After2(words), After3(words), After4(words), After5(words)>>

LEMMA StagesAre ==
  ASSUME NEW words \in Texts
  PROVE  /\ Stages(words)[1] = words
         /\ \A k \in 1 .. 5 : Stages(words)[k + 1] = Replaced(Patterns[k], Stages(words)[k])
         /\ \A k \in 1 .. 6 : Stages(words)[k] \in Texts /\ Len(Stages(words)[k]) = Len(words)
<1> DEFINE st == Stages(words)
<1>1. st[1] = words /\ st[2] = After1(words) /\ st[3] = After2(words)
      /\ st[4] = After3(words) /\ st[5] = After4(words) /\ st[6] = After5(words)
  BY DEF Stages
<1> HIDE DEF st
<1>2. \A k \in 1 .. 5 : st[k + 1] = Replaced(Patterns[k], st[k])
  <2>1. st[2] = Replaced(Patterns[1], st[1])
    BY <1>1 DEF After1
  <2>2. st[3] = Replaced(Patterns[2], st[2])
    BY <1>1 DEF After2
  <2>3. st[4] = Replaced(Patterns[3], st[3])
    BY <1>1 DEF After3
  <2>4. st[5] = Replaced(Patterns[4], st[4])
    BY <1>1 DEF After4
  <2>5. st[6] = Replaced(Patterns[5], st[5])
    BY <1>1 DEF After5
  <2> SUFFICES ASSUME NEW k \in 1 .. 5 PROVE st[k + 1] = Replaced(Patterns[k], st[k])
    OBVIOUS
  <2>6. \/ k = 1 /\ k + 1 = 2
        \/ k = 2 /\ k + 1 = 3
        \/ k = 3 /\ k + 1 = 4
        \/ k = 4 /\ k + 1 = 5
        \/ k = 5 /\ k + 1 = 6
    OBVIOUS
  <2> QED
    BY <2>1, <2>2, <2>3, <2>4, <2>5, <2>6
<1> DEFINE Good == {k \in 0 .. 5 : st[k + 1] \in Texts /\ Len(st[k + 1]) = Len(words)}
<1>3. 0 .. 5 \subseteq Good
  <2>1. 0 \in Good
    BY <1>1
  <2>2. ASSUME NEW k \in 0 .. (5 - 1), k \in Good PROVE k + 1 \in Good
    <3>1. k + 1 \in 1 .. 5 /\ k + 1 \in 0 .. 5
      OBVIOUS
    <3>2. Proper(Patterns[k + 1]) /\ st[(k + 1) + 1] = Replaced(Patterns[k + 1], st[k + 1])
      BY <1>2, <3>1, PatternsAre
    <3>3. st[k + 1] \in Texts /\ Len(st[k + 1]) = Len(words)
      BY <2>2
    <3>4. st[(k + 1) + 1] \in Texts /\ Len(st[(k + 1) + 1]) = Len(words)
      BY <3>2, <3>3, ReplacedIs
    <3> QED
      BY <3>1, <3>4
  <2> HIDE DEF Good
  <2> QED
    BY <2>1, <2>2, UpTo
<1>4. ASSUME NEW k \in 1 .. 6 PROVE st[k] \in Texts /\ Len(st[k]) = Len(words)
  <2>1. k - 1 \in 0 .. 5 /\ (k - 1) + 1 = k
    OBVIOUS
  <2> QED
    BY <1>3, <2>1
<1> QED
  BY <1>1, <1>2, <1>4 DEF st

(* What the patterns from number a on keep.                                *)
LEMMA StagesKeep ==
  ASSUME NEW words \in Texts, NEW a \in 1 .. 6, NEW G, Stages(words)[a] \in G,
         \A k \in a .. 5 : Stages(words)[k] \in G =>
           Replaced(Patterns[k], Stages(words)[k]) \in G
  PROVE  \A k \in a .. 6 : Stages(words)[k] \in G
<1> DEFINE st == Stages(words)
           Good == {j \in 0 .. (6 - a) : st[a + j] \in G}
<1>1. \A k \in 1 .. 5 : st[k + 1] = Replaced(Patterns[k], st[k])
  BY StagesAre
<1> HIDE DEF st
<1>2. 0 .. (6 - a) \subseteq Good
  <2>1. 0 \in Good
    BY DEF st
  <2>2. ASSUME NEW j \in 0 .. (6 - a - 1), j \in Good PROVE j + 1 \in Good
    <3>1. a + j \in a .. 5 /\ a + j \in 1 .. 5 /\ j + 1 \in 0 .. (6 - a) /\ a + (j + 1) = a + j + 1
      OBVIOUS
    <3>2. st[a + j] \in G
      BY <2>2
    <3>3. st[a + j + 1] \in G
      BY <1>1, <3>1, <3>2 DEF st
    <3> QED
      BY <3>1, <3>3
  <2>3. 6 - a \in Nat
    OBVIOUS
  <2> HIDE DEF Good
  <2> QED
    BY <2>1, <2>2, <2>3, UpTo
<1>3. ASSUME NEW k \in a .. 6 PROVE st[k] \in G
  <2>1. k - a \in 0 .. (6 - a) /\ a + (k - a) = k
    OBVIOUS
  <2> QED
    BY <1>2, <2>1
<1> QED
  BY <1>3 DEF st

(* Redact goes through the stages, and counts the matches at each.         *)
LEMMA RedactIs ==
  ASSUME NEW words \in Texts
  PROVE  /\ Redact(words).out = Stages(words)[6]
         /\ Len(Redact(words).findings) = 5
         /\ \A k \in 1 .. 5 : Redact(words).findings[k]
                                = Cardinality(Matches(Patterns[k], Stages(words)[k]))
<1> DEFINE st == Stages(words)
           count(k) == Cardinality(Matches(Patterns[k], st[k]))
           start  == [out |-> words, findings |-> << >>]
           first  == Apply(start, Patterns[1])
           second == Apply(first, Patterns[2])
           third  == Apply(second, Patterns[3])
           fourth == Apply(third, Patterns[4])
           fifth  == Apply(fourth, Patterns[5])
<1>1. Redact(words) = fifth
  BY DEF Redact
<1>2. st[1] = words /\ \A k \in 1 .. 5 : st[k + 1] = Replaced(Patterns[k], st[k])
  BY StagesAre
<1>3. \A k \in 1 .. 6 : st[k] \in Texts
  BY StagesAre
<1> HIDE DEF st
<1>4. ASSUME NEW k \in 1 .. 5, NEW r, r.out = st[k]
      PROVE  Apply(r, Patterns[k]) = [out |-> st[k + 1], findings |-> Append(r.findings, count(k))]
  <2>1. k + 1 \in 1 .. 6 /\ st[k + 1] = Replaced(Patterns[k], st[k])
    BY <1>2
  <2>2. Computed(st[k + 1]) = st[k + 1]
    BY <1>3, <2>1, ComputedIs DEF Texts
  <2> QED
    BY <1>4, <2>1, <2>2 DEF Apply
<1> HIDE DEF count
<1>5. first = [out |-> st[2], findings |-> <<count(1)>>]
  <2>1. start.out = st[1] /\ start.findings = << >>
    BY <1>2
  <2> HIDE DEF start
  <2>2. Apply(start, Patterns[1]) = [out |-> st[1 + 1], findings |-> Append(start.findings, count(1))]
    <3>1. 1 \in 1 .. 5
      OBVIOUS
    <3> QED
      BY ONLY <1>4, <2>1, <3>1
  <2> QED
    BY <2>1, <2>2 DEF first
<1> HIDE DEF first
<1>6. second = [out |-> st[3], findings |-> <<count(1), count(2)>>]
  <2>1. first.out = st[2] /\ first.findings = <<count(1)>>
    BY <1>5
  <2>2. Apply(first, Patterns[2]) = [out |-> st[2 + 1], findings |-> Append(first.findings, count(2))]
    <3>1. 2 \in 1 .. 5
      OBVIOUS
    <3> QED
      BY ONLY <1>4, <2>1, <3>1
  <2> QED
    BY <2>1, <2>2 DEF second
<1> HIDE DEF second
<1>7. third = [out |-> st[4], findings |-> <<count(1), count(2), count(3)>>]
  <2>1. second.out = st[3] /\ second.findings = <<count(1), count(2)>>
    BY <1>6
  <2>2. Apply(second, Patterns[3]) = [out |-> st[3 + 1], findings |-> Append(second.findings, count(3))]
    <3>1. 3 \in 1 .. 5
      OBVIOUS
    <3> QED
      BY ONLY <1>4, <2>1, <3>1
  <2> QED
    BY <2>1, <2>2 DEF third
<1> HIDE DEF third
<1>8. fourth = [out |-> st[5], findings |-> <<count(1), count(2), count(3), count(4)>>]
  <2>1. third.out = st[4] /\ third.findings = <<count(1), count(2), count(3)>>
    BY <1>7
  <2>2. Apply(third, Patterns[4]) = [out |-> st[4 + 1], findings |-> Append(third.findings, count(4))]
    <3>1. 4 \in 1 .. 5
      OBVIOUS
    <3> QED
      BY ONLY <1>4, <2>1, <3>1
  <2> QED
    BY <2>1, <2>2 DEF fourth
<1> HIDE DEF fourth
<1>9. fifth = [out |-> st[6], findings |-> <<count(1), count(2), count(3), count(4), count(5)>>]
  <2>1. fourth.out = st[5] /\ fourth.findings = <<count(1), count(2), count(3), count(4)>>
    BY <1>8
  <2>2. Apply(fourth, Patterns[5]) = [out |-> st[5 + 1], findings |-> Append(fourth.findings, count(5))]
    <3>1. 5 \in 1 .. 5
      OBVIOUS
    <3> QED
      BY ONLY <1>4, <2>1, <3>1
  <2> QED
    BY <2>1, <2>2 DEF fifth
<1> HIDE DEF fifth
<1>10. /\ Redact(words).out = st[6]
       /\ Redact(words).findings = <<count(1), count(2), count(3), count(4), count(5)>>
  BY <1>1, <1>9
<1>11. ASSUME NEW k \in 1 .. 5 PROVE Redact(words).findings[k] = count(k)
  <2>1. k = 1 \/ k = 2 \/ k = 3 \/ k = 4 \/ k = 5
    OBVIOUS
  <2> QED
    BY <1>10, <2>1
<1>12. Len(Redact(words).findings) = 5
  BY <1>10
<1> QED
  BY <1>10, <1>11, <1>12 DEF count, st

-----------------------------------------------------------------------------
(* What is left of a text.                                                 *)

LEMMA SourceIs ==
  ASSUME NEW words \in Seq(Source)
  PROVE  /\ words \in Texts /\ DOMAIN words = 1 .. Len(words) /\ Len(words) \in Nat
         /\ \A i \in 1 .. Len(words) :
              words[i] \in Source /\ words[i] \notin Marks \cup {"gone", "torn"}
         /\ GoneBehind(words)
<1>1. Source \subseteq Items /\ Source \cap (Marks \cup {"gone", "torn"}) = {}
  BY DEF Source, Items, Words, Space, Keywords, Marks
<1>2. words \in Texts
  BY <1>1, SeqMonotonic DEF Texts
<1>3. DOMAIN words = 1 .. Len(words) /\ Len(words) \in Nat
  OBVIOUS
<1>4. \A i \in 1 .. Len(words) : words[i] \in Source
  OBVIOUS
<1> QED
  BY <1>1, <1>2, <1>3, <1>4 DEF GoneBehind

LEMMA MarksDiffer ==
  \A k, l \in 1 .. 5 : k # l => Patterns[k].mark # Patterns[l].mark
<1> SUFFICES ASSUME NEW k \in 1 .. 5, NEW l \in 1 .. 5, k # l
             PROVE  Patterns[k].mark # Patterns[l].mark
  OBVIOUS
<1>1. \A i \in 1 .. 5 : i = 1 \/ i = 2 \/ i = 3 \/ i = 4 \/ i = 5
  OBVIOUS
<1> QED
  BY <1>1, PatternsAre

(* A word that is not there does not come.                                 *)
LEMMA NeverWritten ==
  ASSUME NEW words \in Texts, NEW i \in 1 .. Len(words), NEW w,
         w \notin Marks \cup {"gone", "torn"},
         NEW a \in 1 .. 6, Stages(words)[a][i] # w
  PROVE  \A k \in a .. 6 : Stages(words)[k][i] # w
<1> DEFINE G == {T \in Texts : T[i] # w}
<1>1. Stages(words)[a] \in G
  BY StagesAre
<1>2. ASSUME NEW k \in a .. 5, Stages(words)[k] \in G
      PROVE  Replaced(Patterns[k], Stages(words)[k]) \in G
  <2>1. k \in 1 .. 5 /\ k \in 1 .. 6
    OBVIOUS
  <2>2. Stages(words)[k] \in Texts /\ i \in 1 .. Len(Stages(words)[k])
    BY <2>1, StagesAre
  <2>3. Proper(Patterns[k])
    BY <2>1, PatternsAre
  <2>4. w \notin {Patterns[k].mark, "gone", "torn"}
    BY <2>3 DEF Proper
  <2>5. Replaced(Patterns[k], Stages(words)[k])[i] # w
    BY <1>2, <2>2, <2>3, <2>4, NothingNew
  <2>6. Replaced(Patterns[k], Stages(words)[k]) \in Texts
    BY <2>2, <2>3, ReplacedIs
  <2> QED
    BY <2>5, <2>6
<1> HIDE DEF G
<1>3. \A k \in a .. 6 : Stages(words)[k] \in G
  BY <1>1, <1>2, StagesKeep
<1> QED
  BY <1>3 DEF G

(* A mark that is left is where its pattern matched.                       *)
LEMMA MarksAreStarts ==
  ASSUME NEW words \in Seq(Source), NEW k \in 1 .. 5, NEW i \in 1 .. Len(words),
         Stages(words)[6][i] = Patterns[k].mark
  PROVE  i \in Starts(Patterns[k], Stages(words)[k])
<1> SUFFICES ASSUME i \notin Starts(Patterns[k], Stages(words)[k]) PROVE FALSE
  OBVIOUS
<1> DEFINE w == Patterns[k].mark
           G == {T \in Texts : T[i] # w}
<1>0. words \in Texts /\ words[i] # w
  BY SourceIs, PatternsAre DEF Proper
<1>1. Stages(words)[1] \in G
  BY <1>0, StagesAre
<1>2. ASSUME NEW l \in 1 .. 5, Stages(words)[l] \in G
      PROVE  Replaced(Patterns[l], Stages(words)[l]) \in G
  <2>1. Stages(words)[l] \in Texts /\ i \in 1 .. Len(Stages(words)[l])
    BY <1>0, StagesAre
  <2>2. Proper(Patterns[l]) /\ w \in Marks
    BY PatternsAre DEF Proper
  <2>3. Replaced(Patterns[l], Stages(words)[l])[i] # w
    <3>1. CASE l = k
      BY <1>2, <2>1, <2>2, <3>1, MarkedAt
    <3>2. CASE l # k
      <4>1. w \notin {Patterns[l].mark, "gone", "torn"}
        BY <2>2, <3>2, MarksDiffer DEF Marks
      <4> QED
        BY <1>2, <2>1, <2>2, <4>1, NothingNew
    <3> QED
      BY <3>1, <3>2
  <2>4. Replaced(Patterns[l], Stages(words)[l]) \in Texts
    BY <2>1, <2>2, ReplacedIs
  <2> QED
    BY <2>3, <2>4
<1> HIDE DEF G
<1>3. \A l \in 1 .. 6 : Stages(words)[l] \in G
  BY <1>0, <1>1, <1>2, StagesKeep
<1>4. Stages(words)[6] \in G
  BY <1>3
<1> QED
  BY <1>4 DEF G

(* Text T is the words, but for exposed places.                            *)
Faithful(words, T) ==
  /\ Len(T) = Len(words) /\ GoneBehind(T)
  /\ \A i \in 1 .. Len(words) :
       /\ ~Exposed(words, i) => T[i] = words[i]
       /\ T[i] \in Marks \cup {"gone", "torn"} \/ T[i] = words[i]

LEMMA KeyIsFaithful ==
  ASSUME NEW words \in Seq(Source)
  PROVE  Faithful(words, Replaced(Patterns[1], words))
<1> DEFINE T == Replaced(Patterns[1], words)
<1>0. Patterns[1] = PrivateKey /\ Proper(PrivateKey)
  BY PatternsAre, PrivateKeyIs
<1>1. words \in Texts /\ GoneBehind(words)
  BY SourceIs
<1>2. Len(T) = Len(words) /\ GoneBehind(T)
  BY <1>0, <1>1, ReplacedIs, GoneStaysBehind
<1>3. ASSUME NEW i \in 1 .. Len(words), ~Exposed(words, i) PROVE T[i] = words[i]
  <2>1. ~Covered(PrivateKey, words, i)
    BY <1>1, <1>3, KeyCovered DEF Exposed
  <2> QED
    BY <1>0, <1>1, <2>1, ReplacedIs
<1>4. ASSUME NEW i \in 1 .. Len(words), T[i] \notin Marks \cup {"gone", "torn"}
      PROVE  T[i] = words[i]
  <2>1. T[i] \notin {PrivateKey.mark, "gone", "torn"}
    BY <1>0, <1>4 DEF Proper
  <2> QED
    BY <1>0, <1>1, <2>1, NothingNew
<1> QED
  BY <1>2, <1>3, <1>4 DEF Faithful

(* The other patterns take a keyword, what follows it, and tokens.         *)
LEMMA StaysFaithful ==
  ASSUME NEW words \in Seq(Source), NEW p, Proper(p), p.from \in Keywords \cup {"jwt"},
         p.to = {} \/ (p.skip = Transparent /\ p.from \in Keywords),
         NEW T \in Texts, Faithful(words, T)
  PROVE  Faithful(words, Replaced(p, T))
<1> DEFINE R == Replaced(p, T)
           n == Len(words)
<1>0. /\ n \in Nat /\ Len(T) = n /\ Len(R) = n /\ GoneBehind(T)
      /\ \A i \in 1 .. n : words[i] \in Source /\ words[i] \notin Marks \cup {"gone", "torn"}
      /\ \A i \in 1 .. n : ~Exposed(words, i) => T[i] = words[i]
      /\ \A i \in 1 .. n : T[i] \in Marks \cup {"gone", "torn"} \/ T[i] = words[i]
  BY SourceIs, ReplacedIs DEF Faithful
<1>1. GoneBehind(R)
  BY <1>0, GoneStaysBehind
<1>2. ASSUME NEW i \in 1 .. n, R[i] \notin Marks \cup {"gone", "torn"}
      PROVE  R[i] = words[i]
  <2>1. R[i] \notin {p.mark, "gone", "torn"}
    BY <1>2 DEF Proper
  <2>2. R[i] = T[i]
    BY <1>0, <2>1, NothingNew
  <2> QED
    BY <1>0, <1>2, <2>2
<1>3. ASSUME NEW i \in 1 .. n, Covered(p, T, i) PROVE Exposed(words, i)
  <2>1. PICK m \in Matches(p, T) : m[1] <= i /\ i <= m[2]
    BY <1>3 DEF Covered, Covers
  <2>2. /\ m[1] \in 1 .. n /\ m[2] \in 1 .. n /\ T[m[1]] = p.from
        /\ p.to = {} => m[1] = m[2]
        /\ p.to # {} => \A x \in (m[1] + 1) .. (m[2] - 1) : T[x] \in p.skip
    BY <1>0, MatchIs
  <2>3. words[m[1]] = p.from
    BY <1>0, <2>2 DEF Proper
  <2>4. CASE i = m[1]
    BY <2>3, <2>4 DEF Exposed
  <2>5. CASE i # m[1]
    <3>1. /\ m[1] < i /\ p.to # {} /\ p.skip = Transparent /\ p.from \in Keywords
          /\ m[1] \in 1 .. (i - 1)
      BY <1>0, <2>1, <2>2, <2>5
    <3>2. ASSUME NEW x \in (m[1] + 1) .. (i - 1) PROVE words[x] \in Space
      <4>1. x \in (m[1] + 1) .. (m[2] - 1) /\ x \in 1 .. n
        BY <1>0, <2>1, <2>2
      <4>2. T[x] \in Transparent
        BY <2>2, <3>1, <4>1
      <4>3. T[x] # "gone"
        <5> SUFFICES ASSUME T[x] = "gone" PROVE FALSE
          OBVIOUS
        <5>1. PICK y \in 1 .. (x - 1) :
                /\ T[y] \in Marks \cup {"torn"}
                /\ \A z \in (y + 1) .. x : T[z] = "gone"
          BY <1>0, <4>1 DEF GoneBehind
        <5>2. CASE y < m[1]
          <6>1. m[1] \in (y + 1) .. x
            BY <1>0, <2>2, <5>2
          <6> QED
            BY <2>2, <5>1, <6>1 DEF Proper
        <5>3. CASE y = m[1]
          BY <2>2, <5>1, <5>3 DEF Proper
        <5>4. CASE y > m[1]
          <6>1. y \in (m[1] + 1) .. (m[2] - 1)
            BY <1>0, <2>2, <4>1, <5>4
          <6>2. T[y] \in Transparent
            BY <2>2, <3>1, <6>1
          <6> QED
            BY <5>1, <6>2 DEF Transparent, Space, Nothing, Marks
        <5> QED
          BY <1>0, <2>2, <5>2, <5>3, <5>4
      <4> QED
        BY <1>0, <4>1, <4>2, <4>3 DEF Transparent, Space, Nothing, Marks
    <3>3. Follows(words, i, m[1])
      BY <3>1, <3>2 DEF Follows, Space
    <3> QED
      BY <2>3, <3>1, <3>3 DEF Exposed
  <2> QED
    BY <2>4, <2>5
<1>4. ASSUME NEW i \in 1 .. n, ~Exposed(words, i) PROVE R[i] = words[i]
  <2>1. ~Covered(p, T, i)
    BY <1>3, <1>4
  <2> QED
    BY <1>0, <1>4, <2>1, ReplacedIs
<1> QED
  BY <1>0, <1>1, <1>2, <1>4 DEF Faithful

LEMMA RedactedIsFaithful ==
  ASSUME NEW words \in Seq(Source)
  PROVE  Faithful(words, Stages(words)[6])
<1> DEFINE G == {T \in Texts : Faithful(words, T)}
<1>0. words \in Texts
  BY SourceIs
<1>1. Stages(words)[2] \in G
  <2>1. 1 \in 1 .. 5 /\ 1 + 1 = 2 /\ 2 \in 1 .. 6
    OBVIOUS
  <2>2. Stages(words)[2] = Replaced(Patterns[1], words) /\ Stages(words)[2] \in Texts
    BY <1>0, <2>1, StagesAre
  <2> QED
    BY <2>2, KeyIsFaithful
<1>2. ASSUME NEW k \in 2 .. 5, Stages(words)[k] \in G
      PROVE  Replaced(Patterns[k], Stages(words)[k]) \in G
  <2>1. k \in 1 .. 5 /\ (k = 2 \/ k = 3 \/ k = 4 \/ k = 5)
    OBVIOUS
  <2>2. Proper(Patterns[k])
    BY <2>1, PatternsAre
  <2>3. /\ Patterns[k].from \in Keywords \cup {"jwt"}
        /\ \/ Patterns[k].to = {}
           \/ Patterns[k].skip = Transparent /\ Patterns[k].from \in Keywords
    BY <2>1, PatternsAre DEF Keywords
  <2>4. Stages(words)[k] \in Texts /\ Faithful(words, Stages(words)[k])
    BY <1>2
  <2>5. Faithful(words, Replaced(Patterns[k], Stages(words)[k]))
    BY <2>2, <2>3, <2>4, StaysFaithful
  <2>6. Replaced(Patterns[k], Stages(words)[k]) \in Texts
    BY <2>2, <2>4, ReplacedIs
  <2> QED
    BY <2>5, <2>6
<1> HIDE DEF G
<1>3. \A k \in 2 .. 6 : Stages(words)[k] \in G
  BY <1>0, <1>1, <1>2, StagesKeep
<1>4. Stages(words)[6] \in G
  BY <1>3
<1> QED
  BY <1>4 DEF G

(* Of a key nothing but marks is left.                                     *)
LEMMA KeysAreTaken ==
  ASSUME NEW words \in Seq(Source), NEW i \in 1 .. Len(words), InKey(words, i)
  PROVE  \A k \in 2 .. 6 : Stages(words)[k][i] \in Marks \cup Nothing
<1> DEFINE G == {T \in Texts : T[i] \in Marks \cup Nothing}
<1>0. words \in Texts
  BY SourceIs
<1>1. Stages(words)[2] \in G
  <2>1. 1 \in 1 .. 5 /\ 1 + 1 = 2 /\ 2 \in 1 .. 6
    OBVIOUS
  <2>a. Stages(words)[2] = Replaced(Patterns[1], words) /\ Stages(words)[2] \in Texts
    BY <1>0, <2>1, StagesAre
  <2>2. Stages(words)[2] = Replaced(PrivateKey, words) /\ Stages(words)[2] \in Texts
    BY <2>a, PatternsAre
  <2>3. Covered(PrivateKey, words, i)
    BY <1>0, KeyCovered
  <2>4. Proper(PrivateKey) /\ PrivateKey.kind = "private_key" /\ PrivateKey.mark \in Marks
    BY PrivateKeyIs DEF Proper
  <2>5. Replaced(PrivateKey, words)[i] \in Marks \cup Nothing
    BY <1>0, <2>3, <2>4, PlaceIs, RestIs DEF Nothing
  <2> QED
    BY <2>2, <2>5
<1>2. ASSUME NEW k \in 2 .. 5, Stages(words)[k] \in G
      PROVE  Replaced(Patterns[k], Stages(words)[k]) \in G
  <2>1. k \in 1 .. 5 /\ k \in 1 .. 6
    OBVIOUS
  <2>2. Proper(Patterns[k])
    BY <2>1, PatternsAre
  <2>3. /\ Stages(words)[k] \in Texts /\ i \in 1 .. Len(Stages(words)[k])
        /\ Stages(words)[k][i] \in Marks \cup Nothing
    BY <1>0, <1>2, <2>1, StagesAre
  <2>4. Replaced(Patterns[k], Stages(words)[k])[i] \in Marks \cup Nothing
    BY <2>2, <2>3, StaysTaken
  <2>5. Replaced(Patterns[k], Stages(words)[k]) \in Texts
    BY <2>2, <2>3, ReplacedIs
  <2> QED
    BY <2>4, <2>5
<1> HIDE DEF G
<1>3. \A k \in 2 .. 6 : Stages(words)[k] \in G
  BY <1>0, <1>1, <1>2, StagesKeep
<1> QED
  BY <1>3 DEF G

(* What a pattern has done away with does not come back.                   *)
LEMMA UnfollowedForGood ==
  ASSUME NEW words \in Texts, NEW k \in {2, 4, 5}
  PROVE  Unfollowed(Stages(words)[6], Patterns[k].from, Patterns[k].to)
<1> DEFINE w == Patterns[k].from
           S == Patterns[k].to
           G == {T \in Texts : Unfollowed(T, w, S)}
<1>0. /\ k \in 1 .. 5 /\ k \in 1 .. 6 /\ k + 1 \in 1 .. 6 /\ 6 \in (k + 1) .. 6
      /\ \A l \in (k + 1) .. 5 : l \in 1 .. 5 /\ l \in 1 .. 6
  OBVIOUS
<1>1. /\ Proper(Patterns[k]) /\ Patterns[k].skip = Transparent
      /\ w \notin Transparent /\ S # {} /\ w \notin Marks \cup {"gone", "torn"}
  <2>1. k = 2 \/ k = 4 \/ k = 5
    OBVIOUS
  <2>2. Proper(Patterns[k]) /\ Patterns[k].skip = Transparent
    BY <1>0, PatternsAre
  <2>3. w \notin Marks \cup {"gone", "torn"}
    BY <2>2 DEF Proper
  <2>4. w \in Keywords /\ (S = Tokenlike \/ S = Words \/ S = Long)
    BY <2>1, PatternsAre DEF Keywords
  <2>5. "torn" \in Words /\ "torn" \in Long /\ "jwt" \in Tokenlike
    BY DEF Words, Long, Tokenlike
  <2>6. S # {}
    BY <2>4, <2>5
  <2>7. w \notin Transparent
    BY <2>4 DEF Transparent, Space, Nothing, Keywords
  <2> QED
    BY <2>2, <2>3, <2>6, <2>7
<1> HIDE DEF w, S
<1>2. Stages(words)[k + 1] \in G
  <2>1. /\ Stages(words)[k + 1] = Replaced(Patterns[k], Stages(words)[k])
        /\ Stages(words)[k] \in Texts /\ Stages(words)[k + 1] \in Texts
    BY <1>0, StagesAre
  <2>2. Unfollowed(Replaced(Patterns[k], Stages(words)[k]), Patterns[k].from, Patterns[k].to)
    BY <1>1, <2>1, KeywordTakes DEF w, S
  <2> QED
    BY <2>1, <2>2 DEF w, S
<1>3. ASSUME NEW l \in (k + 1) .. 5, Stages(words)[l] \in G
      PROVE  Replaced(Patterns[l], Stages(words)[l]) \in G
  <2>1. Proper(Patterns[l]) /\ Stages(words)[l] \in Texts /\ Unfollowed(Stages(words)[l], w, S)
    BY <1>0, <1>3, PatternsAre
  <2>2. Replaced(Patterns[l], Stages(words)[l]) \in Texts
    BY <2>1, ReplacedIs
  <2>3. Unfollowed(Replaced(Patterns[l], Stages(words)[l]), w, S)
    BY <1>1, <2>1, UnfollowedStays
  <2> QED
    BY <2>2, <2>3
<1> HIDE DEF G
<1>4. \A l \in (k + 1) .. 6 : Stages(words)[l] \in G
  BY <1>0, <1>2, <1>3, StagesKeep
<1>5. Stages(words)[6] \in G
  BY <1>0, <1>4
<1> QED
  BY <1>5 DEF G, w, S

(* No begin before an end is left.                                         *)
LEMMA NoKeyForGood ==
  ASSUME NEW words \in Texts
  PROVE  ~HasKey(Stages(words)[6])
<1> DEFINE G == {T \in Texts : ~HasKey(T)}
<1>1. Stages(words)[2] \in G
  <2>1. 1 \in 1 .. 5 /\ 1 + 1 = 2 /\ 2 \in 1 .. 6
    OBVIOUS
  <2>a. Stages(words)[2] = Replaced(Patterns[1], words) /\ Stages(words)[2] \in Texts
    BY <2>1, StagesAre
  <2>2. Stages(words)[2] = Replaced(PrivateKey, words) /\ Stages(words)[2] \in Texts
    BY <2>a, PatternsAre
  <2> QED
    BY <2>2, NoKeyLeft
<1>2. ASSUME NEW k \in 2 .. 5, Stages(words)[k] \in G
      PROVE  Replaced(Patterns[k], Stages(words)[k]) \in G
  <2>1. k \in 1 .. 5
    OBVIOUS
  <2>2. Proper(Patterns[k]) /\ Stages(words)[k] \in Texts /\ ~HasKey(Stages(words)[k])
    BY <1>2, <2>1, PatternsAre
  <2> QED
    BY <2>2, ReplacedIs, NoKeyComes
<1> HIDE DEF G
<1>3. \A k \in 2 .. 6 : Stages(words)[k] \in G
  BY <1>1, <1>2, StagesKeep
<1>4. Stages(words)[6] \in G
  BY <1>3
<1> QED
  BY <1>4 DEF G

LEMMA NothingLeaks ==
  ASSUME NEW words \in Texts
  PROVE  ~Leaks(Stages(words)[6])
<1> DEFINE R == Stages(words)[6]
           n == Len(words)
<1>0. R \in Texts /\ Len(R) = n /\ n \in Nat /\ DOMAIN R = 1 .. n
  <2>1. 6 \in 1 .. 6
    OBVIOUS
  <2> QED
    BY <2>1, StagesAre DEF Texts
<1>1. "jwt" \notin ToSet(R)
  <2> SUFFICES ASSUME NEW i \in 1 .. n, R[i] = "jwt" PROVE FALSE
    BY <1>0 DEF ToSet
  <2>1. 3 \in 1 .. 5 /\ 3 + 1 = 4 /\ 3 \in 1 .. 6 /\ 4 \in 1 .. 6 /\ 6 \in 4 .. 6
    OBVIOUS
  <2>2. /\ Stages(words)[4] = Replaced(Patterns[3], Stages(words)[3])
        /\ Stages(words)[3] \in Texts /\ Len(Stages(words)[3]) = n
    BY <2>1, StagesAre
  <2>3. /\ Proper(Patterns[3]) /\ Patterns[3].from = "jwt" /\ Patterns[3].to = {}
        /\ Patterns[3].mark = "jwt-mark"
    BY <2>1, PatternsAre
  <2>4. "jwt" \notin Marks \cup {"gone", "torn"} /\ "jwt" \notin {"jwt-mark", "gone", "torn"}
    BY DEF Marks
  <2>5. Stages(words)[4][i] # "jwt"
    <3> SUFFICES ASSUME Stages(words)[4][i] = "jwt" PROVE FALSE
      OBVIOUS
    <3>1. Stages(words)[3][i] = "jwt" /\ ~Covered(Patterns[3], Stages(words)[3], i)
      <4>1. /\ Replaced(Patterns[3], Stages(words)[3])[i] = "jwt"
            /\ i \in 1 .. Len(Stages(words)[3])
        BY <2>2
      <4>2. Replaced(Patterns[3], Stages(words)[3])[i] \notin {Patterns[3].mark, "gone", "torn"}
        BY <2>3, <2>4, <4>1
      <4>3. Proper(Patterns[3]) /\ Stages(words)[3] \in Texts
        BY <2>2, <2>3
      <4>4. /\ Replaced(Patterns[3], Stages(words)[3])[i] = Stages(words)[3][i]
            /\ ~Covered(Patterns[3], Stages(words)[3], i)
        BY <4>1, <4>2, <4>3, NothingNew
      <4> QED
        BY <4>1, <4>4
    <3>2. DOMAIN Stages(words)[3] = 1 .. n
      BY <2>2 DEF Texts
    <3>3. <<i, i>> \in Matches(Patterns[3], Stages(words)[3])
      BY <2>3, <3>1, <3>2 DEF Matches, Places
    <3>4. Covers(<<i, i>>, i)
      BY <1>0 DEF Covers
    <3> QED
      BY <3>1, <3>3, <3>4 DEF Covered
  <2>6. \A k \in 4 .. 6 : Stages(words)[k][i] # "jwt"
    BY <2>1, <2>4, <2>5, NeverWritten
  <2> QED
    BY <2>1, <2>6
<1>2. ASSUME NEW i \in DOMAIN R, NEW j \in DOMAIN R, i < j, R[i] = "begin", R[j] = "end"
      PROVE  FALSE
  BY <1>0, <1>2, NoKeyForGood DEF HasKey
<1>3. ASSUME NEW i \in DOMAIN R, NEW j \in DOMAIN R, R[i] \in Keywords,
             Follows(R, j, i), R[j] \in Taken(R[i]) \ Marks
      PROVE  FALSE
  <2>1. R[i] = "bearer" \/ R[i] = "password:" \/ R[i] = "token:"
    BY <1>3 DEF Keywords
  <2>2. CASE R[i] = "bearer"
    <3>1. R[j] \in Tokenlike \ Marks
      BY <1>3, <2>2 DEF Taken
    <3>2. 2 \in {2, 4, 5} /\ Patterns[2].from = "bearer" /\ Patterns[2].to = Tokenlike
      BY PatternsAre
    <3>3. Unfollowed(R, "bearer", Tokenlike)
      BY <3>2, UnfollowedForGood
    <3> QED
      BY <1>0, <1>3, <2>2, <3>1, <3>3 DEF Unfollowed
  <2>3. CASE R[i] = "password:"
    <3>1. R[j] \in Words \ Marks
      BY <1>3, <2>3 DEF Taken
    <3>2. 4 \in {2, 4, 5} /\ Patterns[4].from = "password:" /\ Patterns[4].to = Words
      BY PatternsAre
    <3>3. Unfollowed(R, "password:", Words)
      BY <3>2, UnfollowedForGood
    <3> QED
      BY <1>0, <1>3, <2>3, <3>1, <3>3 DEF Unfollowed
  <2>4. CASE R[i] = "token:"
    <3>1. R[j] \in Long \ Marks
      BY <1>3, <2>4 DEF Taken
    <3>2. 5 \in {2, 4, 5} /\ Patterns[5].from = "token:" /\ Patterns[5].to = Long
      BY PatternsAre
    <3>3. Unfollowed(R, "token:", Long)
      BY <3>2, UnfollowedForGood
    <3> QED
      BY <1>0, <1>3, <2>4, <3>1, <3>3 DEF Unfollowed
  <2> QED
    BY <2>1, <2>2, <2>3, <2>4
<1> HIDE DEF R
<1>4. ~Leaks(R)
  BY <1>1, <1>2, <1>3 DEF Leaks
<1> QED
  BY <1>4 DEF R

-----------------------------------------------------------------------------
(* The report.                                                             *)

(* There are as many matches as starts of them.                            *)
LEMMA StartsCount ==
  ASSUME NEW p, Proper(p), NEW T \in Texts
  PROVE  /\ Starts(p, T) \in SUBSET (1 .. Len(T)) /\ IsFiniteSet(Starts(p, T))
         /\ Cardinality(Matches(p, T)) = Cardinality(Starts(p, T))
         /\ Cardinality(Starts(p, T)) \in Nat
<1> DEFINE M == Matches(p, T)
           S == Starts(p, T)
           begun == [i \in S |-> CHOOSE m \in M : m[1] = i]
<1>0. Len(T) \in Nat
  BY DEF Texts
<1>1. \A m \in M : m[1] \in 1 .. Len(T) /\ m[2] \in 1 .. Len(T) /\ m[1] <= m[2]
  <2> SUFFICES ASSUME NEW m \in M PROVE m[1] \in 1 .. Len(T) /\ m[2] \in 1 .. Len(T) /\ m[1] <= m[2]
    OBVIOUS
  <2>1. m[1] \in 1 .. Len(T) /\ m[2] \in 1 .. Len(T) /\ (m[1] = m[2] \/ m[1] < m[2])
    BY MatchIs
  <2> QED
    BY <1>0, <2>1
<1>2. S \in SUBSET (1 .. Len(T))
  BY <1>1 DEF Starts
<1>3. IsFiniteSet(S) /\ Cardinality(S) \in Nat
  <2>1. IsFiniteSet(1 .. Len(T))
    BY <1>0, FS_Interval
  <2> QED
    BY <1>2, <2>1, FS_Subset, FS_CardinalityType
<1>4. \A m, l \in M : m[1] = l[1] => m = l
  <2> SUFFICES ASSUME NEW m \in M, NEW l \in M, m[1] = l[1] PROVE m = l
    OBVIOUS
  <2>1. m = l \/ m[2] < l[1] \/ l[2] < m[1]
    BY MatchesApart
  <2> QED
    BY <1>0, <1>1, <2>1
<1>5. S = {m[1] : m \in M}
  BY DEF Starts
<1> HIDE DEF M, S
<1>6. begun \in Bijection(S, M)
  <2>1. \A i \in S : begun[i] \in M /\ begun[i][1] = i
    BY <1>5
  <2>2. begun \in [S -> M]
    BY <2>1
  <2>3. \A m \in M : m[1] \in S
    BY <1>5
  <2> HIDE DEF begun
  <2>4. \A m \in M : \E i \in S : begun[i] = m
    BY <1>4, <2>1, <2>3
  <2>5. \A i, j \in S : begun[i] = begun[j] => i = j
    BY <2>1
  <2> QED
    BY <2>2, <2>4, <2>5 DEF Bijection, Injection, Surjection, IsInjective
<1>7. ExistsBijection(S, M)
  BY <1>6 DEF ExistsBijection
<1>8. Cardinality(M) = Cardinality(S)
  BY <1>3, <1>7, FS_Bijection
<1> QED
  BY <1>2, <1>3, <1>8 DEF M, S

(* A pattern other than that of keys finds no words of keys.               *)
LEMMA StartsOutsideKeys ==
  ASSUME NEW words \in Seq(Source), NEW k \in 1 .. 5,
         NEW i \in Starts(Patterns[k], Stages(words)[k])
  PROVE  /\ i \in Places(words, Patterns[k].from)
         /\ ~InKey(words, i) \/ OpensKey(words, i)
<1> DEFINE p == Patterns[k]
           T == Stages(words)[k]
<1>0. k \in 1 .. 6 /\ words \in Texts /\ DOMAIN words = 1 .. Len(words)
  BY SourceIs
<1>1. T \in Texts /\ Len(T) = Len(words)
  BY <1>0, StagesAre
<1>2. Proper(p) /\ p.from \notin Marks \cup {"gone", "torn"}
  BY PatternsAre DEF Proper
<1>3. i \in 1 .. Len(words) /\ T[i] = p.from
  BY <1>1, MatchIs DEF Starts
<1>4. words[i] = p.from
  <2> SUFFICES ASSUME words[i] # p.from PROVE FALSE
    OBVIOUS
  <2>1. 1 \in 1 .. 6 /\ k \in 1 .. 6 /\ Stages(words)[1] = words
    BY <1>0, StagesAre
  <2>2. T[i] # p.from
    BY <1>0, <1>2, <1>3, <2>1, NeverWritten
  <2> QED
    BY <1>3, <2>2
<1>5. ~InKey(words, i) \/ OpensKey(words, i)
  <2>1. CASE k = 1
    <3>1. T = words /\ p = PrivateKey
      BY <1>0, <2>1, StagesAre, PatternsAre
    <3>2. i \in Starts(PrivateKey, words)
      BY <3>1
    <3> QED
      BY <1>0, <3>2, StartsOpen
  <2>2. CASE k # 1
    <3>1. k \in 2 .. 6
      BY <2>2
    <3>2. InKey(words, i) => T[i] \in Marks \cup Nothing
      BY <1>3, <3>1, KeysAreTaken
    <3> QED
      BY <1>2, <1>3, <3>2 DEF Nothing
  <2> QED
    BY <2>1, <2>2
<1> QED
  BY <1>0, <1>3, <1>4, <1>5 DEF Places

(* The report has each key once, each mark that is left, and no match that *)
(* does not begin with a word of the text.                                 *)
LEMMA FindingsAre ==
  ASSUME NEW words \in Seq(Source)
  PROVE  LET R == Stages(words)[6]
             count == Redact(words).findings
         IN  /\ count[1] = Cardinality({i \in DOMAIN words : OpensKey(words, i)})
             /\ \A k \in 1 .. 5 :
                  /\ Occurs(R, Patterns[k].mark) <= count[k]
                  /\ count[k] <= Cardinality({i \in Places(words, Patterns[k].from) :
                                                ~InKey(words, i) \/ OpensKey(words, i)})
<1> DEFINE R == Stages(words)[6]
           count == Redact(words).findings
           n == Len(words)
<1>0. /\ words \in Texts /\ n \in Nat /\ DOMAIN words = 1 .. n
      /\ R \in Texts /\ Len(R) = n /\ DOMAIN R = 1 .. n
  <2>1. words \in Texts /\ n \in Nat /\ DOMAIN words = 1 .. n /\ 6 \in 1 .. 6
    BY SourceIs
  <2>2. R \in Texts /\ Len(R) = n
    BY <2>1, StagesAre
  <2> QED
    BY <2>1, <2>2 DEF Texts
<1>f. IsFiniteSet(1 .. n)
  BY <1>0, FS_Interval
<1>1. ASSUME NEW k \in 1 .. 5
      PROVE  /\ count[k] = Cardinality(Starts(Patterns[k], Stages(words)[k])) /\ count[k] \in Nat
             /\ IsFiniteSet(Starts(Patterns[k], Stages(words)[k]))
  <2>a. k \in 1 .. 6
    OBVIOUS
  <2>1. Proper(Patterns[k]) /\ k \in 1 .. 6
    BY <2>a, PatternsAre
  <2>2. Stages(words)[k] \in Texts
    BY <1>0, <2>1, StagesAre
  <2>3. count[k] = Cardinality(Matches(Patterns[k], Stages(words)[k]))
    BY <1>0, RedactIs
  <2> HIDE DEF count
  <2> QED
    BY <2>1, <2>2, <2>3, StartsCount
<1>2. count[1] = Cardinality({i \in DOMAIN words : OpensKey(words, i)})
  <2>a. Stages(words)[1] = words
    BY <1>0, StagesAre
  <2>b. Patterns[1] = PrivateKey
    BY PatternsAre
  <2>1. 1 \in 1 .. 5 /\ Stages(words)[1] = words /\ Patterns[1] = PrivateKey
    BY <2>a, <2>b
  <2>2. Starts(PrivateKey, words) = {i \in DOMAIN words : OpensKey(words, i)}
    BY <1>0, StartsOpen
  <2> HIDE DEF count
  <2> QED
    BY <1>1, <2>1, <2>2
<1>3. ASSUME NEW k \in 1 .. 5 PROVE Occurs(R, Patterns[k].mark) <= count[k]
  <2> DEFINE S == Starts(Patterns[k], Stages(words)[k])
  <2>1. Places(R, Patterns[k].mark) \in SUBSET S
    <3> SUFFICES ASSUME NEW i \in 1 .. n, R[i] = Patterns[k].mark PROVE i \in S
      BY <1>0 DEF Places
    <3> QED
      BY MarksAreStarts
  <2>2. IsFiniteSet(S) /\ count[k] = Cardinality(S)
    BY <1>1
  <2> HIDE DEF S, count
  <2> QED
    BY <2>1, <2>2, FS_Subset DEF Occurs
<1>4. ASSUME NEW k \in 1 .. 5
      PROVE  count[k] <= Cardinality({i \in Places(words, Patterns[k].from) :
                                        ~InKey(words, i) \/ OpensKey(words, i)})
  <2> DEFINE S == Starts(Patterns[k], Stages(words)[k])
             U == {i \in Places(words, Patterns[k].from) : ~InKey(words, i) \/ OpensKey(words, i)}
  <2>1. S \in SUBSET U
    BY StartsOutsideKeys
  <2>2. U \in SUBSET (1 .. n)
    BY <1>0 DEF Places
  <2>3. count[k] = Cardinality(S)
    BY <1>1
  <2> HIDE DEF S, U, count
  <2>4. IsFiniteSet(U)
    BY <1>f, <2>2, FS_Subset
  <2> SUFFICES count[k] <= Cardinality(U)
    BY DEF U
  <2> QED
    BY <2>1, <2>3, <2>4, FS_Subset
<1> QED
  BY <1>2, <1>3, <1>4

-----------------------------------------------------------------------------
(* Lines.                                                                  *)

Lines == Seq(Words \cup {"blank"})

(* Later places are not in earlier lines.                                  *)
LEMMA LinesAscend ==
  ASSUME NEW T \in Texts, NEW i \in Nat, NEW j \in Nat, i <= j
  PROVE  /\ LineOf(T, i) <= LineOf(T, j)
         /\ LineOf(T, i) \in 1 .. (Occurs(T, "newline") + 1)
         /\ Occurs(T, "newline") \in Nat
<1> DEFINE P == Places(T, "newline")
           A == {k \in P : k < i}
           B == {k \in P : k < j}
<1>1. P \in SUBSET (1 .. Len(T)) /\ Len(T) \in Nat
  BY DEF Places, Texts
<1>2. IsFiniteSet(P)
  <2>1. IsFiniteSet(1 .. Len(T))
    BY <1>1, FS_Interval
  <2> QED
    BY <1>1, <2>1, FS_Subset
<1>3. A \in SUBSET B /\ B \in SUBSET P
  BY <1>1
<1> HIDE DEF A, B, P
<1>4. IsFiniteSet(B) /\ Cardinality(B) <= Cardinality(P)
  BY <1>2, <1>3, FS_Subset
<1>5. IsFiniteSet(A) /\ Cardinality(A) <= Cardinality(B)
  BY <1>3, <1>4, FS_Subset
<1>6. Cardinality(A) \in Nat /\ Cardinality(B) \in Nat /\ Cardinality(P) \in Nat
  BY <1>2, <1>4, <1>5, FS_CardinalityType
<1>7. LineOf(T, i) = Cardinality(A) + 1 /\ LineOf(T, j) = Cardinality(B) + 1
      /\ Occurs(T, "newline") = Cardinality(P)
  BY DEF LineOf, A, B, P, Occurs
<1> QED
  BY <1>4, <1>5, <1>6, <1>7

(* A line is read from its visible places, in their order.                 *)
LEMMA ReadingIs ==
  ASSUME NEW T \in Texts, NEW n
  PROVE  LET S == Trimmed(T, Visible(T, n))
             at == Ascending(S)
             line == Reading(T, Visible(T, n))
         IN  /\ S \in SUBSET Visible(T, n) /\ S \in SUBSET (1 .. Len(T)) /\ IsFiniteSet(S)
             /\ line \in Lines /\ Len(line) = Cardinality(S)
             /\ \A k \in 1 .. Len(line) : at[k] \in S /\ line[k] = Clean(T[at[k]])
<1> DEFINE V == Visible(T, n)
           S == Trimmed(T, V)
           at == Ascending(S)
           line == Reading(T, V)
<1>0. Len(T) \in Nat /\ DOMAIN T = 1 .. Len(T) /\ \A i \in 1 .. Len(T) : T[i] \in Items
  BY DEF Texts
<1>1. /\ S \in SUBSET V /\ V \in SUBSET (1 .. Len(T))
      /\ \A i \in V : T[i] \notin {"newline", "gone"}
  BY <1>0 DEF Visible, Trimmed
<1>2. S \in SUBSET Nat /\ S \in SUBSET (1 .. Len(T)) /\ IsFiniteSet(S)
  <2>1. IsFiniteSet(1 .. Len(T))
    BY <1>0, FS_Interval
  <2>2. S \in SUBSET Nat /\ S \in SUBSET (1 .. Len(T))
    BY <1>0, <1>1
  <2> QED
    BY <2>1, <2>2, FS_Subset
<1> HIDE DEF S, V
<1>3. /\ Cardinality(S) \in Nat /\ DOMAIN at = 1 .. Cardinality(S)
      /\ at \in [1 .. Cardinality(S) -> S]
  BY <1>2, AscendingSorts
<1>4. \A k \in 1 .. Cardinality(S) : at[k] \in S
  BY <1>3
<1> HIDE DEF at
<1>5. line = [k \in 1 .. Cardinality(S) |-> Clean(T[at[k]])]
  BY <1>3 DEF Reading, at, S
<1>6. \A i \in S : Clean(T[i]) \in Words \cup {"blank"}
  <2> SUFFICES ASSUME NEW i \in S PROVE Clean(T[i]) \in Words \cup {"blank"}
    OBVIOUS
  <2>1. T[i] \in Items \ {"newline", "gone"}
    BY <1>0, <1>1, <1>2
  <2>2. T[i] \in Words \cup {"blank"}
    BY <2>1 DEF Items, Space, Nothing
  <2>3. "password:" \in Words
    BY DEF Words, Source, Keywords, Space
  <2> QED
    BY <2>2, <2>3 DEF Clean
<1>7. line \in [1 .. Cardinality(S) -> Words \cup {"blank"}]
  BY <1>4, <1>5, <1>6
<1>8. \A k \in 1 .. Cardinality(S) : line[k] = Clean(T[at[k]])
  BY <1>5
<1> HIDE DEF line
<1>9. line \in Lines /\ Len(line) = Cardinality(S)
  BY <1>3, <1>7 DEF Lines
<1> QED
  BY <1>1, <1>2, <1>4, <1>8, <1>9 DEF line, at, S, V

LEMMA LinesOfIs ==
  ASSUME NEW T \in Texts
  PROVE  /\ LinesOf(T) \in Seq(Lines)
         /\ \A n \in DOMAIN LinesOf(T) : LinesOf(T)[n] = Reading(T, Visible(T, n))
<1> DEFINE m == Occurs(T, "newline") + 1
           s == [n \in 1 .. m |-> Reading(T, Visible(T, n))]
<1>1. m \in Nat
  <2>1. 0 \in Nat /\ 0 <= 0
    OBVIOUS
  <2>2. Occurs(T, "newline") \in Nat
    BY <2>1, LinesAscend
  <2> QED
    BY <2>2
<1> HIDE DEF m
<1>2. \A n \in 1 .. m : Reading(T, Visible(T, n)) \in Lines
  BY ReadingIs
<1>3. s \in Seq(Lines) /\ DOMAIN s = 1 .. m /\ \A n \in 1 .. m : s[n] = Reading(T, Visible(T, n))
  BY <1>1, <1>2
<1>4. LinesOf(T) = Computed(s)
  BY DEF LinesOf, m
<1> HIDE DEF s
<1>5. LinesOf(T) = s
  BY <1>3, <1>4, ComputedIs
<1> QED
  BY <1>3, <1>5

(* A line gives away no more than the text, unless clean() makes a keyword *)
(* of what was none.                                                       *)
LEMMA LineLeaksNothing ==
  ASSUME NEW T \in Texts, ~Leaks(T), "escaped-password:" \notin ToSet(T), NEW n
  PROVE  ~Leaks(Reading(T, Visible(T, n)))
<1> DEFINE V == Visible(T, n)
           S == Trimmed(T, V)
           at == Ascending(S)
           line == Reading(T, V)
<1>0. DOMAIN T = 1 .. Len(T) /\ Len(T) \in Nat
  BY DEF Texts
<1>1. /\ S \in SUBSET V /\ S \in SUBSET (1 .. Len(T)) /\ IsFiniteSet(S)
      /\ line \in Lines /\ Len(line) = Cardinality(S)
      /\ \A k \in 1 .. Len(line) : at[k] \in S /\ line[k] = Clean(T[at[k]])
  BY ReadingIs
<1>2. /\ S \in SUBSET Nat /\ Cardinality(S) \in Nat
      /\ \A i, j \in 1 .. Cardinality(S) : i < j => at[i] < at[j]
      /\ \A x \in S : \E i \in 1 .. Cardinality(S) : at[i] = x
  <2>1. S \in SUBSET Nat
    BY <1>0, <1>1
  <2> HIDE DEF S
  <2> QED
    BY <1>1, <2>1, AscendingSorts
<1>3. DOMAIN line = 1 .. Len(line)
  BY <1>1 DEF Lines
<1>4. \A x \in V : x \in 1 .. Len(T) /\ LineOf(T, x) = n
  BY <1>0 DEF Visible
<1>5. \A x \in 1 .. Len(T) : T[x] \notin {"newline", "gone"} /\ LineOf(T, x) = n => x \in V
  BY <1>0 DEF Visible
<1>6. \A x \in V : \A a, b \in S : a <= x /\ x <= b => x \in S
  <2> SUFFICES ASSUME NEW x \in V, NEW a \in S, NEW b \in S, a <= x, x <= b PROVE x \in S
    OBVIOUS
  <2>1. PICK a1 \in V : a1 <= a /\ T[a1] # "blank"
    BY DEF Trimmed
  <2>2. PICK b1 \in V : b <= b1 /\ T[b1] # "blank"
    BY DEF Trimmed
  <2>3. /\ a \in Nat /\ b \in Nat /\ x \in Nat /\ a1 \in Nat /\ b1 \in Nat
    BY <1>0, <1>2, <1>4, <2>1, <2>2
  <2>4. a1 <= x /\ x <= b1
    BY <2>1, <2>2, <2>3
  <2> QED
    BY <2>1, <2>2, <2>4 DEF Trimmed
<1> HIDE DEF S, V, at, line
<1>7. \A k \in 1 .. Len(line) : /\ at[k] \in 1 .. Len(T) /\ at[k] \in S /\ at[k] \in V
                                /\ line[k] = T[at[k]]
  <2> SUFFICES ASSUME NEW k \in 1 .. Len(line)
               PROVE  at[k] \in 1 .. Len(T) /\ at[k] \in S /\ at[k] \in V /\ line[k] = T[at[k]]
    OBVIOUS
  <2>1. at[k] \in S /\ at[k] \in 1 .. Len(T) /\ at[k] \in V /\ line[k] = Clean(T[at[k]])
    BY <1>1
  <2>2. T[at[k]] # "escaped-password:"
    BY <1>0, <2>1 DEF ToSet
  <2> QED
    BY <2>1, <2>2 DEF Clean
<1>8. "jwt" \notin ToSet(line)
  <2> SUFFICES ASSUME NEW k \in 1 .. Len(line), line[k] = "jwt" PROVE FALSE
    BY <1>3 DEF ToSet
  <2>1. T[at[k]] = "jwt" /\ at[k] \in DOMAIN T
    BY <1>0, <1>7
  <2> QED
    BY <2>1 DEF Leaks, ToSet
<1>9. ASSUME NEW i \in DOMAIN line, NEW j \in DOMAIN line, i < j,
             line[i] = "begin", line[j] = "end"
      PROVE  FALSE
  <2>1. /\ at[i] \in DOMAIN T /\ at[j] \in DOMAIN T /\ T[at[i]] = "begin" /\ T[at[j]] = "end"
        /\ at[i] < at[j]
    BY <1>0, <1>1, <1>2, <1>3, <1>7, <1>9
  <2> QED
    BY <2>1 DEF Leaks
<1>10. ASSUME NEW i \in DOMAIN line, NEW j \in DOMAIN line, line[i] \in Keywords,
              Follows(line, j, i), line[j] \in Taken(line[i]) \ Marks
       PROVE  FALSE
  <2>1. i < j /\ \A k \in (i + 1) .. (j - 1) : line[k] \in {"newline", "blank", "gone"}
    BY <1>10 DEF Follows
  <2>2. /\ at[i] \in DOMAIN T /\ at[j] \in DOMAIN T /\ at[i] < at[j]
        /\ T[at[i]] = line[i] /\ T[at[j]] = line[j]
    BY <1>0, <1>1, <1>2, <1>3, <1>7, <2>1
  <2>3. \A x \in (at[i] + 1) .. (at[j] - 1) : T[x] \in {"newline", "blank", "gone"}
    <3> SUFFICES ASSUME NEW x \in (at[i] + 1) .. (at[j] - 1), T[x] \notin {"newline", "gone"}
                 PROVE  T[x] = "blank"
      OBVIOUS
    <3>1. x \in 1 .. Len(T) /\ at[i] < x /\ x < at[j] /\ x \in Nat /\ at[i] \in Nat /\ at[j] \in Nat
      BY <1>0, <2>2
    <3>2. LineOf(T, at[i]) = n /\ LineOf(T, at[j]) = n
      BY <1>3, <1>4, <1>7
    <3>3. /\ LineOf(T, at[i]) <= LineOf(T, x) /\ LineOf(T, x) <= LineOf(T, at[j])
          /\ LineOf(T, at[i]) \in Int /\ LineOf(T, x) \in Int
      <4>1. at[i] <= x /\ x <= at[j] /\ x <= x
        BY <3>1
      <4>2. LineOf(T, at[i]) <= LineOf(T, x) /\ LineOf(T, x) <= LineOf(T, at[j])
        BY <3>1, <4>1, LinesAscend
      <4>3. \A k \in Nat : LineOf(T, k) \in Int
        <5> SUFFICES ASSUME NEW k \in Nat PROVE LineOf(T, k) \in Int
          OBVIOUS
        <5>1. k <= k
          OBVIOUS
        <5>2. LineOf(T, k) \in 1 .. (Occurs(T, "newline") + 1) /\ Occurs(T, "newline") \in Nat
          BY <5>1, LinesAscend
        <5> QED
          BY <5>2
      <4> QED
        BY <3>1, <4>2, <4>3
    <3>4. LineOf(T, x) = n
      BY <3>2, <3>3
    <3>5. x \in V /\ at[i] \in S /\ at[j] \in S
      BY <1>3, <1>5, <1>7, <3>1, <3>4
    <3>6. x \in S
      BY <1>6, <3>1, <3>5
    <3>7. PICK k \in 1 .. Cardinality(S) : at[k] = x
      BY <1>2, <3>6
    <3>8. i \in 1 .. Cardinality(S) /\ j \in 1 .. Cardinality(S) /\ Len(line) = Cardinality(S)
      BY <1>1, <1>3
    <3>9. ~(k <= i)
      <4> SUFFICES ASSUME k <= i PROVE FALSE
        OBVIOUS
      <4>1. k = i \/ k < i
        BY <1>2, <3>8
      <4> QED
        BY <1>2, <3>1, <3>7, <3>8, <4>1
    <3>10. ~(j <= k)
      <4> SUFFICES ASSUME j <= k PROVE FALSE
        OBVIOUS
      <4>1. k = j \/ j < k
        BY <1>2, <3>8
      <4> QED
        BY <1>2, <3>1, <3>7, <3>8, <4>1
    <3>11. k \in (i + 1) .. (j - 1)
      BY <1>2, <3>8, <3>9, <3>10
    <3>12. line[k] \in {"newline", "blank", "gone"} /\ line[k] = T[x]
      BY <1>7, <2>1, <3>7, <3>8, <3>11
    <3> QED
      BY <3>12
  <2>4. Follows(T, at[j], at[i])
    BY <2>2, <2>3 DEF Follows
  <2> QED
    BY <1>10, <2>2, <2>4 DEF Leaks
<1>11. ~Leaks(line)
  BY <1>8, <1>9, <1>10 DEF Leaks
<1> QED
  BY <1>11 DEF line, V

-----------------------------------------------------------------------------
(* The compressors draw lines from the text.                               *)

LEMMA FirstNIs ==
  ASSUME NEW S, NEW s \in Seq(S), NEW n \in Nat
  PROVE  /\ FirstN(s, n) \in Seq(S)
         /\ Len(FirstN(s, n)) = IF Len(s) < n THEN Len(s) ELSE n
         /\ \A k \in 1 .. Len(FirstN(s, n)) : FirstN(s, n)[k] = s[k]
<1> DEFINE m == IF Len(s) < n THEN Len(s) ELSE n
<1>1. m \in Nat /\ m <= Len(s) /\ Len(s) \in Nat
  OBVIOUS
<1>2. \A i \in 1 .. m : s[i] \in S
  BY <1>1
<1> HIDE DEF m
<1>3. /\ SubSeq(s, 1, m) \in Seq(S)
      /\ Len(SubSeq(s, 1, m)) = IF 1 <= m THEN m - 1 + 1 ELSE 0
      /\ \A i \in 1 .. (m - 1 + 1) : SubSeq(s, 1, m)[i] = s[1 + i - 1]
  BY <1>1, <1>2, SubSeqProperties
<1>4. Len(SubSeq(s, 1, m)) = m
  BY <1>1, <1>3
<1>5. \A i \in 1 .. m : SubSeq(s, 1, m)[i] = s[i]
  BY <1>1, <1>3
<1>6. FirstN(s, n) = SubSeq(s, 1, m)
  BY DEF FirstN, m
<1> QED
  BY <1>3, <1>4, <1>5, <1>6 DEF m

(* The first line that reads l.                                            *)
LEMMA FirstLineIs ==
  ASSUME NEW lines \in Seq(Lines), NEW l \in ToSet(lines)
  PROVE  /\ FirstLine(lines, l) \in DOMAIN lines
         /\ lines[FirstLine(lines, l)] = l
         /\ \A i \in Places(lines, l) : FirstLine(lines, l) <= i
<1>1. Places(lines, l) \in SUBSET Nat /\ Places(lines, l) # {}
  BY DEF Places, ToSet
<1>2. Min(Places(lines, l)) \in Places(lines, l)
  BY <1>1, MinIsLeast
<1>3. \A i \in Places(lines, l) : Min(Places(lines, l)) <= i
  BY <1>1, MinIsLeast
<1> QED
  BY <1>2, <1>3 DEF FirstLine, Places

(* A result with lines of the text, each at most once, and signals that    *)
(* say where they come from.                                               *)
Drawn(lines, result) ==
  /\ \E idx \in Seq(DOMAIN lines) :
       /\ result.listed = LinesAt(lines, idx)
       /\ \A j, k \in DOMAIN idx : idx[j] = idx[k] => j = k
  /\ \E n \in Nat : DOMAIN result.signals = 1 .. n
  /\ \A k \in DOMAIN result.signals :
       /\ result.signals[k].line \in DOMAIN lines
       /\ lines[result.signals[k].line] = result.signals[k].text

LEMMA LinesAtIs ==
  ASSUME NEW S, NEW lines \in Seq(S), NEW idx \in Seq(DOMAIN lines)
  PROVE  /\ LinesAt(lines, idx) \in Seq(S) /\ Len(LinesAt(lines, idx)) = Len(idx)
         /\ \A k \in 1 .. Len(idx) : LinesAt(lines, idx)[k] = lines[idx[k]]
         /\ DOMAIN SignalsAt(lines, idx) = 1 .. Len(idx)
         /\ \A k \in 1 .. Len(idx) : SignalsAt(lines, idx)[k] = [text |-> lines[idx[k]], line |-> idx[k]]
<1>1. \A k \in 1 .. Len(idx) : idx[k] \in DOMAIN lines /\ lines[idx[k]] \in S
  OBVIOUS
<1>2. DOMAIN idx = 1 .. Len(idx) /\ Len(idx) \in Nat
  OBVIOUS
<1>3. LinesAt(lines, idx) \in [1 .. Len(idx) -> S]
  BY <1>1, <1>2 DEF LinesAt
<1>4. LinesAt(lines, idx) \in Seq(S) /\ Len(LinesAt(lines, idx)) = Len(idx)
  BY <1>2, <1>3
<1>5. \A k \in 1 .. Len(idx) : LinesAt(lines, idx)[k] = lines[idx[k]]
  BY <1>2 DEF LinesAt
<1>6. DOMAIN SignalsAt(lines, idx) = 1 .. Len(idx)
  BY <1>2 DEF SignalsAt
<1>7. \A k \in 1 .. Len(idx) : SignalsAt(lines, idx)[k] = [text |-> lines[idx[k]], line |-> idx[k]]
  BY <1>2 DEF SignalsAt, SignalAt
<1> QED
  BY <1>4, <1>5, <1>6, <1>7

LEMMA TextDrawn ==
  ASSUME NEW lines \in Seq(Lines)
  PROVE  Drawn(lines, Text(lines))
<1> DEFINE selected == {i \in DOMAIN lines :
             i <= Ends \/ i > Len(lines) - Ends \/ Interesting(lines[i])}
           S == {i \in selected : lines[i] # << >>}
           T == {i \in selected : Interesting(lines[i])}
           idx == Ascending(S)
           signs == Ascending(T)
<1>1. Text(lines) = [listed |-> LinesAt(lines, idx), signals |-> SignalsAt(lines, signs)]
  BY DEF Text
<1>2. /\ DOMAIN lines \in SUBSET Nat /\ IsFiniteSet(DOMAIN lines)
  BY FS_Interval
<1>3. S \in SUBSET DOMAIN lines /\ T \in SUBSET DOMAIN lines
  OBVIOUS
<1> HIDE DEF S, T
<1>4. S \in SUBSET Nat /\ IsFiniteSet(S) /\ T \in SUBSET Nat /\ IsFiniteSet(T)
  BY <1>2, <1>3, FS_Subset
<1>5. /\ idx \in Seq(S) /\ signs \in Seq(T)
      /\ \A j, k \in 1 .. Len(idx) : j < k => idx[j] < idx[k]
  BY <1>4, AscendingSorts
<1> HIDE DEF idx, signs
<1>6. idx \in Seq(DOMAIN lines) /\ signs \in Seq(DOMAIN lines)
  BY <1>3, <1>5, SeqMonotonic
<1>7. \A j, k \in DOMAIN idx : idx[j] = idx[k] => j = k
  <2> SUFFICES ASSUME NEW j \in DOMAIN idx, NEW k \in DOMAIN idx, j # k
               PROVE  idx[j] # idx[k]
    OBVIOUS
  <2>1. j \in 1 .. Len(idx) /\ k \in 1 .. Len(idx) /\ Len(idx) \in Nat
    BY <1>5
  <2>2. idx[j] \in Nat /\ idx[k] \in Nat
    BY <1>2, <1>6, <2>1
  <2>3. j < k \/ k < j
    BY <2>1
  <2> QED
    BY <1>5, <2>1, <2>2, <2>3
<1>8. /\ DOMAIN SignalsAt(lines, signs) = 1 .. Len(signs) /\ Len(signs) \in Nat
      /\ \A k \in 1 .. Len(signs) :
           /\ signs[k] \in DOMAIN lines
           /\ SignalsAt(lines, signs)[k] = [text |-> lines[signs[k]], line |-> signs[k]]
  BY <1>6, LinesAtIs
<1> QED
  BY <1>1, <1>6, <1>7, <1>8 DEF Drawn

LEMMA KeepingSteps ==
  ASSUME NEW lines \in Seq(Lines)
  PROVE  /\ Keeping(lines)[0] = << >>
         /\ \A i \in 1 .. Len(lines) :
              Keeping(lines)[i] = Keep(lines, Keeping(lines)[i - 1], i)
<1> DEFINE n == Len(lines)
           S == Seq(1 .. n)
           step == [p \in (1 .. n) \X S |-> Keep(lines, p[2], p[1])]
<1>0. n \in Nat
  OBVIOUS
<1>1. \A i \in 1 .. n, k \in S : Keep(lines, k, i) \in S
  <2> SUFFICES ASSUME NEW i \in 1 .. n, NEW k \in S PROVE Keep(lines, k, i) \in S
    OBVIOUS
  <2>1. Append(k, i) \in S
    BY AppendProperties
  <2> HIDE DEF S
  <2> QED
    BY <2>1 DEF Keep
<1>2. << >> \in S
  OBVIOUS
<1> HIDE DEF S
<1>3. step \in [(1 .. n) \X S -> S]
  BY <1>1
<1>4. \A i \in 1 .. n, k \in S : step[<<i, k>>] = Keep(lines, k, i)
  OBVIOUS
<1> HIDE DEF step
<1>5. PICK f : Run(f, S, << >>, n, step)
  BY <1>0, <1>2, <1>3, Repeated
<1>6. /\ f \in [0 .. n -> S] /\ f[0] = << >>
      /\ \A i \in 1 .. n : f[i] = Keep(lines, f[i - 1], i)
  BY <1>0, <1>4, <1>5 DEF Run
<1>7. f = [i \in 0 .. n |-> IF i = 0 THEN << >> ELSE Keep(lines, f[i - 1], i)]
  BY <1>0, <1>6
<1>8. Keeping(lines)
        = [i \in 0 .. n |-> IF i = 0 THEN << >> ELSE Keep(lines, Keeping(lines)[i - 1], i)]
  BY <1>7 DEF Keeping
<1> HIDE DEF n
<1>9. /\ Keeping(lines)[0] = << >>
      /\ \A i \in 1 .. n : Keeping(lines)[i] = Keep(lines, Keeping(lines)[i - 1], i)
  BY <1>0, <1>8
<1> QED
  BY <1>9 DEF n

(* What is kept of the first i lines: no line twice, and all frames, or as *)
(* many as the list holds, from above the frame that is missing.           *)
KeptAt(lines, kept, i) ==
  /\ kept \in Seq(1 .. i)
  /\ \A j, k \in 1 .. Len(kept) : lines[kept[j]] = lines[kept[k]] => j = k
  /\ \A j \in 1 .. i :
       \/ ~Frame(lines[j])
       \/ \E k \in 1 .. Len(kept) : lines[kept[k]] = lines[j]
       \/ Len(kept) = MaxFrames /\ \A k \in 1 .. Len(kept) : kept[k] < j

LEMMA KeepsOn ==
  ASSUME NEW lines \in Seq(Lines), NEW i \in 1 .. Len(lines), NEW kept,
         KeptAt(lines, kept, i - 1), Len(kept) <= MaxFrames
  PROVE  /\ KeptAt(lines, Keep(lines, kept, i), i)
         /\ Len(Keep(lines, kept, i)) <= MaxFrames
<1>0. /\ MaxFrames \in Nat /\ i \in Nat /\ i - 1 \in Nat
      /\ kept \in Seq(1 .. (i - 1)) /\ Len(kept) \in Nat
  BY SizesTyped DEF KeptAt
<1>1. kept \in Seq(1 .. i) /\ \A k \in 1 .. Len(kept) : kept[k] \in 1 .. (i - 1)
  BY <1>0
<1>2. CASE /\ lines[i] # << >> /\ Len(kept) < MaxFrames
           /\ i = 1 \/ Frame(lines[i])
           /\ \A k \in DOMAIN kept : lines[kept[k]] # lines[i]
  <2> DEFINE new == Append(kept, i)
  <2>1. Keep(lines, kept, i) = new
    BY <1>2 DEF Keep
  <2>2. /\ new \in Seq(1 .. i) /\ Len(new) = Len(kept) + 1
        /\ new[Len(kept) + 1] = i
        /\ \A k \in 1 .. Len(kept) : new[k] = kept[k]
    BY <1>0, <1>1, AppendProperties
  <2> HIDE DEF new
  <2>3. \A k \in 1 .. Len(kept) : lines[new[k]] # lines[i]
    <3>1. DOMAIN kept = 1 .. Len(kept)
      BY <1>0
    <3> SUFFICES ASSUME NEW k \in 1 .. Len(kept) PROVE lines[new[k]] # lines[i]
      OBVIOUS
    <3>2. lines[kept[k]] # lines[i]
      BY <1>2, <3>1, Zenon
    <3>3. new[k] = kept[k]
      BY <2>2, Zenon
    <3> QED
      BY <3>2, <3>3, Zenon
  <2>4. \A j, k \in 1 .. Len(new) : lines[new[j]] = lines[new[k]] => j = k
    <3> SUFFICES ASSUME NEW j \in 1 .. Len(new), NEW k \in 1 .. Len(new),
                        lines[new[j]] = lines[new[k]]
                 PROVE  j = k
      OBVIOUS
    <3>1. /\ j \in 1 .. Len(kept) \/ j = Len(kept) + 1
          /\ k \in 1 .. Len(kept) \/ k = Len(kept) + 1
      BY <1>0, <2>2
    <3>2. CASE j \in 1 .. Len(kept) /\ k \in 1 .. Len(kept)
      BY <2>2, <3>2 DEF KeptAt
    <3>3. CASE j = Len(kept) + 1 /\ k \in 1 .. Len(kept)
      BY <2>2, <2>3, <3>3
    <3>4. CASE j \in 1 .. Len(kept) /\ k = Len(kept) + 1
      BY <2>2, <2>3, <3>4
    <3> QED
      BY <3>1, <3>2, <3>3, <3>4
  <2>5. ASSUME NEW j \in 1 .. i, Frame(lines[j])
        PROVE  \E k \in 1 .. Len(new) : lines[new[k]] = lines[j]
    <3>1. CASE j = i
      <4>1. Len(kept) + 1 \in 1 .. Len(new)
        BY <1>0, <2>2
      <4> QED
        BY <2>2, <3>1, <4>1
    <3>2. CASE j # i
      <4>1. j \in 1 .. (i - 1)
        BY <1>0, <3>2
      <4>2. PICK k \in 1 .. Len(kept) : lines[kept[k]] = lines[j]
        BY <1>0, <1>2, <2>5, <4>1 DEF KeptAt
      <4>3. k \in 1 .. Len(new)
        BY <1>0, <2>2
      <4> QED
        BY <2>2, <4>2, <4>3
    <3> QED
      BY <3>1, <3>2
  <2>6. Len(new) <= MaxFrames
    BY <1>0, <1>2, <2>2
  <2> QED
    BY <2>1, <2>2, <2>4, <2>5, <2>6 DEF KeptAt
<1>3. CASE ~(/\ lines[i] # << >> /\ Len(kept) < MaxFrames
             /\ i = 1 \/ Frame(lines[i])
             /\ \A k \in DOMAIN kept : lines[kept[k]] # lines[i])
  <2>1. Keep(lines, kept, i) = kept
    BY <1>3, Zenon DEF Keep
  <2>2. ASSUME NEW j \in 1 .. i, Frame(lines[j]),
               \A k \in 1 .. Len(kept) : lines[kept[k]] # lines[j]
        PROVE  Len(kept) = MaxFrames /\ \A k \in 1 .. Len(kept) : kept[k] < j
    <3>1. CASE j \in 1 .. (i - 1)
      BY <2>2, <3>1 DEF KeptAt
    <3>2. CASE j = i
      <4>0. DOMAIN kept = 1 .. Len(kept)
        BY <1>0
      <4>1. lines[i] # << >> /\ \A k \in DOMAIN kept : lines[kept[k]] # lines[i]
        <5>1. Frame(lines[i])
          BY <2>2, <3>2, Zenon
        <5>2. lines[i] # << >>
          <6>1. ToSet(<< >>) = {}
            BY DEF ToSet
          <6>2. "call" \in ToSet(lines[i])
            BY <5>1 DEF Frame
          <6> QED
            BY <6>1, <6>2
        <5>3. \A k \in DOMAIN kept : lines[kept[k]] # lines[i]
          BY <2>2, <3>2, <4>0, Zenon
        <5> QED
          BY <5>2, <5>3
      <4>2. Len(kept) = MaxFrames
        BY <1>0, <1>3, <2>2, <3>2, <4>1
      <4> QED
        BY <1>0, <1>1, <3>2, <4>2
    <3> QED
      BY <1>0, <3>1, <3>2
  <2> QED
    BY <1>1, <2>1, <2>2 DEF KeptAt
<1> QED
  BY <1>2, <1>3

LEMMA FramesAre ==
  ASSUME NEW lines \in Seq(Lines)
  PROVE  KeptAt(lines, Frames(lines), Len(lines))
<1> DEFINE n == Len(lines)
           G == {i \in 0 .. n : /\ KeptAt(lines, Keeping(lines)[i], i)
                                /\ Len(Keeping(lines)[i]) <= MaxFrames}
<1>0. n \in Nat /\ MaxFrames \in Nat
  BY SizesTyped
<1>1. 0 \in G
  <2>1. Keeping(lines)[0] = << >>
    BY KeepingSteps
  <2>2. KeptAt(lines, << >>, 0) /\ Len(<< >>) <= MaxFrames
    BY <1>0 DEF KeptAt
  <2> QED
    BY <1>0, <2>1, <2>2
<1>2. ASSUME NEW i \in 0 .. (n - 1), i \in G PROVE i + 1 \in G
  <2>1. i + 1 \in 1 .. n /\ (i + 1) - 1 = i /\ i + 1 \in 0 .. n
    BY <1>0
  <2>2. Keeping(lines)[i + 1] = Keep(lines, Keeping(lines)[i], i + 1)
    <3>1. Keeping(lines)[i + 1] = Keep(lines, Keeping(lines)[(i + 1) - 1], i + 1)
      BY <2>1, KeepingSteps
    <3> QED
      BY <2>1, <3>1
  <2>3. KeptAt(lines, Keeping(lines)[i], (i + 1) - 1) /\ Len(Keeping(lines)[i]) <= MaxFrames
    BY <1>2, <2>1
  <2>4. /\ KeptAt(lines, Keep(lines, Keeping(lines)[i], i + 1), i + 1)
        /\ Len(Keep(lines, Keeping(lines)[i], i + 1)) <= MaxFrames
    BY <2>1, <2>3, KeepsOn
  <2> QED
    BY <2>1, <2>2, <2>4
<1> HIDE DEF G, n
<1>3. n \in G
  <2>1. 0 .. n \subseteq G
    BY <1>0, <1>1, <1>2, UpTo
  <2> QED
    BY <1>0, <2>1
<1> QED
  BY <1>3 DEF G, n, Frames

LEMMA StackTraceDrawn ==
  ASSUME NEW lines \in Seq(Lines)
  PROVE  Drawn(lines, StackTrace(lines))
<1> DEFINE idx == Frames(lines)
<1>1. KeptAt(lines, idx, Len(lines))
  BY FramesAre
<1> HIDE DEF idx
<1>2. idx \in Seq(DOMAIN lines)
  BY <1>1 DEF KeptAt
<1>3. \A j, k \in DOMAIN idx : idx[j] = idx[k] => j = k
  BY <1>1, <1>2 DEF KeptAt
<1>4. /\ DOMAIN SignalsAt(lines, idx) = 1 .. Len(idx) /\ Len(idx) \in Nat
      /\ \A k \in 1 .. Len(idx) :
           /\ idx[k] \in DOMAIN lines
           /\ SignalsAt(lines, idx)[k] = [text |-> lines[idx[k]], line |-> idx[k]]
  BY <1>2, LinesAtIs
<1>5. StackTrace(lines) = [listed |-> LinesAt(lines, idx), signals |-> SignalsAt(lines, idx)]
  BY DEF StackTrace, idx
<1> QED
  BY <1>2, <1>3, <1>4, <1>5 DEF Drawn

Diagnostics(lines) == {l \in ToSet(lines) : Interesting(l)}

LEMMA DiagnosticsFinite ==
  ASSUME NEW lines \in Seq(Lines)
  PROVE  IsFiniteSet(Diagnostics(lines)) /\ Cardinality(Diagnostics(lines)) \in Nat
<1> DEFINE read == [i \in 1 .. Len(lines) |-> lines[i]]
<1>1. DOMAIN lines = 1 .. Len(lines) /\ IsFiniteSet(1 .. Len(lines))
  BY FS_Interval
<1>2. read \in Surjection(1 .. Len(lines), ToSet(lines))
  BY <1>1 DEF Surjection, ToSet
<1> HIDE DEF read
<1>3. IsFiniteSet(ToSet(lines))
  BY <1>1, <1>2, FS_Surjection
<1>4. Diagnostics(lines) \in SUBSET ToSet(lines)
  BY DEF Diagnostics
<1> QED
  BY <1>3, <1>4, FS_Subset, FS_CardinalityType

(* What Log lists: kinds of interesting lines, each once.                  *)
LEMMA HitsAre ==
  ASSUME NEW lines \in Seq(Lines), NEW hits \in Hits(lines)
  PROVE  /\ hits \in Seq({l \in ToSet(lines) : Interesting(l)})
         /\ \A j, k \in 1 .. Len(hits) : hits[j] = hits[k] => j = k
<1> DEFINE S == {l \in ToSet(lines) : Interesting(l)}
<1>1. PICK s \in SetToSeqs(S) : hits = FirstN(s, MaxHits)
  BY DEF Hits
<1>2. IsFiniteSet(S) /\ Cardinality(S) \in Nat
  BY DiagnosticsFinite DEF Diagnostics
<1> HIDE DEF S
<1>3. /\ s \in [1 .. Cardinality(S) -> S]
      /\ \A i, j \in 1 .. Cardinality(S) : i # j => s[i] # s[j]
  BY <1>1 DEF SetToSeqs
<1>4. s \in Seq(S) /\ Len(s) = Cardinality(S)
  BY <1>2, <1>3
<1>5. MaxHits \in Nat
  BY SizesTyped
<1>6. /\ hits \in Seq(S)
      /\ Len(hits) = IF Len(s) < MaxHits THEN Len(s) ELSE MaxHits
      /\ \A k \in 1 .. Len(hits) : hits[k] = s[k]
  BY <1>1, <1>4, <1>5, FirstNIs
<1>7. \A k \in 1 .. Len(hits) : k \in 1 .. Cardinality(S)
  BY <1>2, <1>4, <1>5, <1>6
<1> QED
  BY <1>3, <1>6, <1>7 DEF S

LEMMA LogDrawn ==
  ASSUME NEW lines \in Seq(Lines), NEW result \in Log(lines)
  PROVE  Drawn(lines, result)
<1>1. PICK hits \in Hits(lines) :
        result = [listed |-> hits,
                  signals |-> [k \in DOMAIN hits |-> SignalAt(lines, FirstLine(lines, hits[k]))]]
  BY DEF Log
<1>2. /\ hits \in Seq({l \in ToSet(lines) : Interesting(l)})
      /\ \A j, k \in 1 .. Len(hits) : hits[j] = hits[k] => j = k
  BY HitsAre
<1>3. Len(hits) \in Nat /\ DOMAIN hits = 1 .. Len(hits)
  BY <1>2
<1>4. ASSUME NEW k \in 1 .. Len(hits)
      PROVE  FirstLine(lines, hits[k]) \in DOMAIN lines /\ lines[FirstLine(lines, hits[k])] = hits[k]
  <2>1. hits[k] \in ToSet(lines)
    BY <1>2
  <2> QED
    BY <2>1, FirstLineIs
<1> DEFINE idx == [k \in 1 .. Len(hits) |-> FirstLine(lines, hits[k])]
<1>5. /\ idx \in Seq(DOMAIN lines) /\ Len(idx) = Len(hits)
      /\ \A k \in 1 .. Len(hits) : lines[idx[k]] = hits[k]
  <2>1. idx \in [1 .. Len(hits) -> DOMAIN lines]
    BY <1>4
  <2>2. \A k \in 1 .. Len(hits) : lines[idx[k]] = hits[k]
    BY <1>4
  <2> HIDE DEF idx
  <2> QED
    BY <1>3, <2>1, <2>2
<1>6. LinesAt(lines, idx) = hits
  <2>1. \A k \in 1 .. Len(idx) : LinesAt(lines, idx)[k] = lines[idx[k]]
    BY <1>5, LinesAtIs
  <2>2. LinesAt(lines, idx) \in Seq(Lines) /\ Len(LinesAt(lines, idx)) = Len(idx)
    BY <1>5, LinesAtIs
  <2> DEFINE L == LinesAt(lines, idx)
  <2>3. L = [k \in 1 .. Len(L) |-> L[k]]
    <3>1. L \in Seq(Lines)
      BY <2>2
    <3> HIDE DEF L
    <3> QED
      BY <3>1
  <2>4. hits = [k \in 1 .. Len(hits) |-> hits[k]]
    BY <1>2
  <2> HIDE DEF L
  <2> SUFFICES L = hits
    BY DEF L
  <2>5. Len(L) = Len(hits) /\ \A k \in 1 .. Len(hits) : L[k] = hits[k]
    BY <1>5, <2>1, <2>2 DEF L
  <2> QED
    BY <2>3, <2>4, <2>5
<1>7. \A j, k \in DOMAIN idx : idx[j] = idx[k] => j = k
  <2> SUFFICES ASSUME NEW j \in 1 .. Len(hits), NEW k \in 1 .. Len(hits), idx[j] = idx[k]
               PROVE  j = k
    OBVIOUS
  <2>1. lines[idx[j]] = hits[j] /\ lines[idx[k]] = hits[k]
    BY <1>5
  <2>2. hits[j] = hits[k]
    BY <2>1, Zenon
  <2> QED
    BY <1>2, <2>2
<1>8. /\ DOMAIN result.signals = 1 .. Len(hits)
      /\ \A k \in 1 .. Len(hits) :
           result.signals[k] = [text |-> lines[FirstLine(lines, hits[k])],
                                line |-> FirstLine(lines, hits[k])]
  BY <1>1, <1>3 DEF SignalAt
<1>9. ASSUME NEW k \in DOMAIN result.signals
      PROVE  /\ result.signals[k].line \in DOMAIN lines
             /\ lines[result.signals[k].line] = result.signals[k].text
  <2>1. k \in 1 .. Len(hits)
    BY <1>8, Zenon
  <2>2. result.signals[k] = [text |-> lines[FirstLine(lines, hits[k])],
                             line |-> FirstLine(lines, hits[k])]
    BY <1>8, <2>1, Zenon
  <2>3. /\ result.signals[k].text = lines[FirstLine(lines, hits[k])]
        /\ result.signals[k].line = FirstLine(lines, hits[k])
    BY <2>2
  <2>4. FirstLine(lines, hits[k]) \in DOMAIN lines
    BY <1>4, <2>1, Zenon
  <2> QED
    BY <2>3, <2>4, Zenon
<1>10. result.listed = LinesAt(lines, idx)
  BY <1>1, <1>6
<1> HIDE DEF idx
<1> QED
  BY <1>3, <1>5, <1>7, <1>8, <1>9, <1>10 DEF Drawn

LEMMA CompressDrawn ==
  ASSUME NEW T \in Texts, NEW c \in ContentTypes, NEW result \in Compress(c, T)
  PROVE  Drawn(LinesOf(T), result)
<1>0. LinesOf(T) \in Seq(Lines)
  BY LinesOfIs
<1>1. CASE c = "log"
  BY <1>0, <1>1, LogDrawn DEF Compress
<1>2. CASE c = "stack_trace"
  BY <1>0, <1>2, StackTraceDrawn DEF Compress
<1>3. CASE c = "text"
  BY <1>0, <1>3, TextDrawn DEF Compress
<1> QED
  BY <1>1, <1>2, <1>3 DEF ContentTypes

-----------------------------------------------------------------------------
(* The texts written, and what is made of them.                            *)

Made == text \in Seq(Source) /\ made = Ingests(text)

LEMMA MadeStep ==
  ASSUME Made, [Next]_<<text, made, pieces>>
  PROVE  Made'
<1>1. CASE Next
  <2>1. PICK piece \in Pieces : Write(piece)
    BY <1>1 DEF Next
  <2>2. text' = text \o piece /\ made' = Ingests(text \o piece)
    BY <2>1 DEF Write
  <2>3. text' \in Seq(Source)
    <3>1. piece \in Seq(Source)
      BY PiecesTyped
    <3> QED
      BY <2>2, <3>1, ConcatProperties DEF Made
  <2> HIDE DEF Ingests
  <2>4. made' = Ingests(text')
    BY <2>2, Zenon
  <2> QED
    BY <2>3, <2>4, Zenon DEF Made, Ingests
<1>2. CASE UNCHANGED <<text, made, pieces>>
  BY <1>2 DEF Made, Ingests
<1> QED
  BY <1>1, <1>2

LEMMA MadeAlways == Spec => []Made
<1>1. Init => Made
  BY PiecesTyped DEF Init, Made
<1> QED
  BY <1>1, MadeStep, PTL DEF Spec

(* What is stored, what is listed and what a signal says.                  *)
LEMMA IngestedIs ==
  ASSUME Made, NEW o \in Ingested
  PROVE  LET lines == LinesOf(Redact(text).out) IN
         /\ o.raw = Redact(text).out /\ o.findings = Redact(text).findings
         /\ o.raw \in Texts /\ Len(o.raw) = Len(text)
         /\ o.raw = Stages(text)[6]
         /\ lines \in Seq(Lines) /\ ToSet(o.listed) \in SUBSET ToSet(lines)
         /\ o.listed \in Seq(Lines) /\ o.summary = Limit(Render(o.listed))
         /\ \A s \in ToSet(o.signals) : s.line \in DOMAIN lines /\ lines[s.line] = s.text
<1> DEFINE R == Redact(text)
           lines == LinesOf(R.out)
<1>1. PICK c \in ContentTypes : o \in made[c]
  BY DEF Ingested
<1>2. made[c] = Ingest(c, text)
  BY DEF Made, Ingests
<1>3. PICK result \in Compress(c, R.out) : o = Outcome(R, result)
  BY <1>1, <1>2 DEF Ingest
<1>4. R.out \in Texts /\ Len(R.out) = Len(text) /\ R.out = Stages(text)[6]
  <2>1. text \in Texts /\ 6 \in 1 .. 6
    BY SourceIs DEF Made
  <2>2. R.out = Stages(text)[6]
    BY <2>1, RedactIs
  <2> HIDE DEF R
  <2> QED
    BY <2>1, <2>2, StagesAre
<1> HIDE DEF R
<1>5. Drawn(lines, result) /\ lines \in Seq(Lines)
  BY <1>4, CompressDrawn, LinesOfIs
<1> HIDE DEF lines
<1>6. /\ o.raw = R.out /\ o.findings = R.findings
      /\ o.listed = result.listed /\ o.signals = result.signals
      /\ o.summary = Limit(Render(o.listed))
  BY <1>3 DEF Outcome
<1>7. PICK idx \in Seq(DOMAIN lines) : result.listed = LinesAt(lines, idx)
  BY <1>5 DEF Drawn
<1>8. o.listed \in Seq(Lines)
  BY <1>5, <1>6, <1>7, LinesAtIs
<1>9. ToSet(o.listed) \in SUBSET ToSet(lines)
  <2>1. DOMAIN o.listed = DOMAIN idx /\ \A k \in DOMAIN idx : o.listed[k] = lines[idx[k]]
    BY <1>6, <1>7 DEF LinesAt
  <2>2. \A k \in DOMAIN idx : idx[k] \in DOMAIN lines
    BY <1>7
  <2> QED
    BY <2>1, <2>2 DEF ToSet
<1>10. ASSUME NEW s \in ToSet(o.signals) PROVE s.line \in DOMAIN lines /\ lines[s.line] = s.text
  <2>1. PICK k \in DOMAIN o.signals : o.signals[k] = s
    BY <1>10 DEF ToSet
  <2>2. /\ result.signals[k].line \in DOMAIN lines
        /\ lines[result.signals[k].line] = result.signals[k].text
    BY <1>5, <1>6, <2>1 DEF Drawn
  <2> QED
    BY <1>6, <2>1, <2>2, Zenon
<1> QED
  BY <1>4, <1>5, <1>6, <1>8, <1>9, <1>10 DEF R, lines

(* Redaction takes keys and secrets and nothing else, and the report       *)
(* counts what it took, for every text (redactor.go:17-36,                 *)
(* service.go:180-185).                                                    *)
THEOREM RedactionAlwaysExact == Spec => []RedactionIsExact
<1>1. Made => RedactionIsExact
  <2> SUFFICES ASSUME Made, NEW o \in Ingested
               PROVE  LET raw == o.raw IN
                      /\ \A i \in DOMAIN text :
                           /\ ~Exposed(text, i) => raw[i] = text[i]
                           /\ InKey(text, i) => raw[i] \in Marks \cup Nothing
                      /\ o.findings[1] = Cardinality({i \in DOMAIN text : OpensKey(text, i)})
                      /\ \A k \in DOMAIN Patterns :
                           /\ Occurs(raw, Patterns[k].mark) <= o.findings[k]
                           /\ o.findings[k] <= Cardinality({i \in Places(text, Patterns[k].from) :
                                                              ~InKey(text, i) \/ OpensKey(text, i)})
    <3>1. \A r \in Stored : \E o \in Ingested : r.raw = o.raw /\ r.findings = o.findings
      BY DEF Stored
    <3> QED
      BY <3>1 DEF RedactionIsExact
  <2>1. /\ text \in Seq(Source) /\ DOMAIN text = 1 .. Len(text) /\ DOMAIN Patterns = 1 .. 5
        /\ o.raw = Stages(text)[6] /\ o.findings = Redact(text).findings
    BY IngestedIs, PatternsAre DEF Made
  <2>2. \A i \in 1 .. Len(text) : ~Exposed(text, i) => o.raw[i] = text[i]
    BY <2>1, RedactedIsFaithful DEF Faithful
  <2>3. ASSUME NEW i \in 1 .. Len(text), InKey(text, i) PROVE o.raw[i] \in Marks \cup Nothing
    <3>1. 6 \in 2 .. 6
      OBVIOUS
    <3> QED
      BY <2>1, <2>3, <3>1, KeysAreTaken
  <2>4. /\ o.findings[1] = Cardinality({i \in DOMAIN text : OpensKey(text, i)})
        /\ \A k \in 1 .. 5 :
             /\ Occurs(o.raw, Patterns[k].mark) <= o.findings[k]
             /\ o.findings[k] <= Cardinality({i \in Places(text, Patterns[k].from) :
                                                ~InKey(text, i) \/ OpensKey(text, i)})
    BY <2>1, FindingsAre
  <2> QED
    BY <2>1, <2>2, <2>3, <2>4
<1> QED
  BY <1>1, MadeAlways, PTL

(* What is stored as redacted has nothing that the patterns take, and      *)
(* neither has a line that is listed or a signal, for every text and type  *)
(* of content, unless the text hides a keyword behind an escape sequence   *)
(* (service.go:165-178, compressor.go:40).                                 *)
THEOREM SecretsAlwaysStayOut == Spec => []SecretsStayOut
<1>1. Made => SecretsStayOut
  <2> SUFFICES ASSUME Made, NEW o \in Ingested
               PROVE  /\ ~Leaks(o.raw)
                      /\ "escaped-password:" \notin ToSet(text) =>
                           \A line \in ToSet(o.listed) \cup {s.text : s \in ToSet(o.signals)} :
                             ~Leaks(line)
    <3>1. \A r \in Stored : \E p \in Ingested : r.raw = p.raw
      BY DEF Stored
    <3> QED
      BY <3>1 DEF SecretsStayOut
  <2> DEFINE lines == LinesOf(o.raw)
  <2>1. /\ text \in Texts /\ Len(o.raw) = Len(text) /\ o.raw \in Texts /\ o.raw = Stages(text)[6]
        /\ ToSet(o.listed) \in SUBSET ToSet(lines)
        /\ \A s \in ToSet(o.signals) : s.line \in DOMAIN lines /\ lines[s.line] = s.text
    BY IngestedIs, SourceIs DEF Made
  <2>2. ~Leaks(o.raw)
    BY <2>1, NothingLeaks
  <2>3. ASSUME "escaped-password:" \notin ToSet(text) PROVE "escaped-password:" \notin ToSet(o.raw)
    <3> DEFINE w == "escaped-password:"
    <3>1. DOMAIN o.raw = 1 .. Len(text) /\ DOMAIN text = 1 .. Len(text)
      BY <2>1 DEF Texts
    <3>2. w \notin Marks \cup {"gone", "torn"}
      BY DEF Marks
    <3> SUFFICES ASSUME NEW i \in 1 .. Len(text), o.raw[i] = w PROVE FALSE
      BY <3>1 DEF ToSet
    <3>3. text[i] # w
      BY <2>3, <3>1 DEF ToSet
    <3> HIDE DEF w
    <3>4. 1 \in 1 .. 6 /\ 6 \in 1 .. 6
      OBVIOUS
    <3>5. Stages(text)[1] = text
      BY <2>1, StagesAre
    <3>6. Stages(text)[6][i] # w
      BY <2>1, <3>2, <3>3, <3>4, <3>5, NeverWritten
    <3> QED
      BY <2>1, <3>6
  <2>4. ASSUME "escaped-password:" \notin ToSet(text), NEW n \in DOMAIN lines
        PROVE  ~Leaks(lines[n])
    <3>1. lines[n] = Reading(o.raw, Visible(o.raw, n))
      BY <2>1, <2>4, LinesOfIs
    <3> QED
      BY <2>1, <2>2, <2>3, <2>4, <3>1, LineLeaksNothing
  <2> HIDE DEF lines
  <2>5. ASSUME "escaped-password:" \notin ToSet(text),
               NEW line \in ToSet(o.listed) \cup {s.text : s \in ToSet(o.signals)}
        PROVE  ~Leaks(line)
    <3>1. \E n \in DOMAIN lines : line = lines[n]
      <4>1. \A l \in ToSet(lines) : \E n \in DOMAIN lines : l = lines[n]
        BY DEF ToSet
      <4> QED
        BY <2>1, <4>1
    <3> QED
      BY <2>4, <2>5, <3>1
  <2> QED
    BY <2>2, <2>5
<1> QED
  BY <1>1, MadeAlways, PTL

(* A signal leads to its line of the redacted text; and what is left of    *)
(* line n of the original is what is left in line n, as far as no match    *)
(* has taken a line break before it (redactor.go:17-22, compressor.go:96,  *)
(* 125, 208).                                                              *)
THEOREM SignalsAlwaysPointHome == Spec => []SignalsPointHome
<1>1. Made => SignalsPointHome
  <2> SUFFICES ASSUME Made, NEW o \in Ingested, NEW s \in ToSet(o.signals)
               PROVE  /\ s.text = LinesOf(o.raw)[s.line]
                      /\ \A i \in DOMAIN text :
                           /\ o.raw[i] \notin {"newline", "gone"}
                           /\ \A j \in Places(text, "newline") : j < i => o.raw[j] = "newline"
                           => (i \in Visible(o.raw, s.line) <=> LineOf(text, i) = s.line)
    BY DEF SignalsPointHome
  <2>1. /\ text \in Seq(Source) /\ o.raw = Stages(text)[6]
        /\ Len(o.raw) = Len(text) /\ o.raw \in Texts
        /\ s.text = LinesOf(o.raw)[s.line]
    BY IngestedIs DEF Made
  <2>2. /\ DOMAIN text = 1 .. Len(text) /\ DOMAIN o.raw = 1 .. Len(text) /\ Len(text) \in Nat
    BY <2>1 DEF Texts
  <2>3. \A i \in 1 .. Len(text) : o.raw[i] = "newline" => text[i] = "newline"
    <3>1. Faithful(text, o.raw)
      BY <2>1, RedactedIsFaithful
    <3> QED
      BY <3>1 DEF Faithful, Marks
  <2>4. ASSUME NEW i \in 1 .. Len(text), o.raw[i] \notin {"newline", "gone"},
               \A j \in Places(text, "newline") : j < i => o.raw[j] = "newline"
        PROVE  i \in Visible(o.raw, s.line) <=> LineOf(text, i) = s.line
    <3>1. {j \in Places(o.raw, "newline") : j < i} = {j \in Places(text, "newline") : j < i}
      BY <2>2, <2>3, <2>4 DEF Places
    <3>2. LineOf(o.raw, i) = LineOf(text, i)
      BY <3>1 DEF LineOf
    <3> QED
      BY <2>2, <2>4, <3>2 DEF Visible
  <2> QED
    BY <2>1, <2>2, <2>4
<1> QED
  BY <1>1, MadeAlways, PTL

-----------------------------------------------------------------------------
(* What a list that is full leaves out.                                    *)

(* Of two kinds of diagnostics, one comes first: they differ in how often  *)
(* they occur, or in where they do so first.                               *)
FewerOrLater(lines) ==
  {p \in Diagnostics(lines) \X Diagnostics(lines) : Less(lines, p[1], p[2])}

LEMMA LessOrders ==
  ASSUME NEW lines \in Seq(Lines)
  PROVE  /\ StrictOrder(FewerOrLater(lines), Diagnostics(lines))
         /\ \A k, l \in Diagnostics(lines) :
              <<k, l>> \in FewerOrLater(lines) <=> Less(lines, k, l)
<1> DEFINE S == Diagnostics(lines)
           R == FewerOrLater(lines)
<1>1. ASSUME NEW l \in S
      PROVE  /\ Occurs(lines, l) \in Nat /\ FirstLine(lines, l) \in Nat
             /\ lines[FirstLine(lines, l)] = l
  <2>1. l \in ToSet(lines)
    BY DEF Diagnostics
  <2>2. FirstLine(lines, l) \in DOMAIN lines /\ lines[FirstLine(lines, l)] = l
    BY <2>1, FirstLineIs
  <2>3. IsFiniteSet(Places(lines, l))
    <3>1. IsFiniteSet(1 .. Len(lines))
      BY FS_Interval
    <3>2. Places(lines, l) \in SUBSET (1 .. Len(lines))
      BY DEF Places
    <3> QED
      BY <3>1, <3>2, FS_Subset
  <2>4. Occurs(lines, l) \in Nat
    BY <2>3, FS_CardinalityType DEF Occurs
  <2> QED
    BY <2>2, <2>4
<1>2. \A k, l \in S : <<k, l>> \in R <=> Less(lines, k, l)
  BY DEF FewerOrLater
<1>3. \A k \in S : <<k, k>> \notin R
  BY <1>1, <1>2 DEF Less
<1>4. \A k, l, m \in S : <<k, l>> \in R /\ <<l, m>> \in R => <<k, m>> \in R
  <2> SUFFICES ASSUME NEW k \in S, NEW l \in S, NEW m \in S, <<k, l>> \in R, <<l, m>> \in R
               PROVE  <<k, m>> \in R
    OBVIOUS
  <2>1. Less(lines, k, l) /\ Less(lines, l, m)
    BY <1>2
  <2>2. /\ Occurs(lines, k) \in Nat /\ Occurs(lines, l) \in Nat /\ Occurs(lines, m) \in Nat
        /\ FirstLine(lines, k) \in Nat /\ FirstLine(lines, l) \in Nat
        /\ FirstLine(lines, m) \in Nat
    BY <1>1
  <2>3. Less(lines, k, m)
    BY <2>1, <2>2 DEF Less
  <2> QED
    BY <1>2, <2>3
<1>5. \A k, l \in S : k = l \/ <<k, l>> \in R \/ <<l, k>> \in R
  <2> SUFFICES ASSUME NEW k \in S, NEW l \in S, k # l
               PROVE  <<k, l>> \in R \/ <<l, k>> \in R
    OBVIOUS
  <2>1. FirstLine(lines, k) # FirstLine(lines, l)
    BY <1>1
  <2>2. /\ Occurs(lines, k) \in Nat /\ Occurs(lines, l) \in Nat
        /\ FirstLine(lines, k) \in Nat /\ FirstLine(lines, l) \in Nat
    BY <1>1
  <2>3. Less(lines, k, l) \/ Less(lines, l, k)
    BY <2>1, <2>2 DEF Less
  <2> QED
    BY <1>2, <2>3
<1> QED
  BY <1>2, <1>3, <1>4, <1>5 DEF StrictOrder

(* What sort.Slice yields does not depend on the order it starts from.     *)
LEMMA SortedHits ==
  ASSUME NEW lines \in Seq(Lines)
  PROVE  \E s : /\ Sorts(s, Diagnostics(lines), FewerOrLater(lines))
                /\ Hits(lines) = {FirstN(s, MaxHits)}
<1> DEFINE S == Diagnostics(lines)
           R == FewerOrLater(lines)
           n == Cardinality(S)
           Sorted == {s \in SetToSeqs(S) : InOrder(lines, s)}
<1>1. IsFiniteSet(S) /\ n \in Nat
  BY DiagnosticsFinite
<1>2. StrictOrder(R, S) /\ \A k, l \in S : <<k, l>> \in R <=> Less(lines, k, l)
  BY LessOrders
<1>3. PICK s : Sorts(s, S, R)
  BY <1>1, <1>2, Sortable
<1>4. Hits(lines) = {FirstN(t, MaxHits) : t \in Sorted}
  BY DEF Hits, Diagnostics
<1> HIDE DEF S, R
<1>5. s \in Sorted
  <2>1. s \in [1 .. n -> S] /\ \A i, j \in 1 .. n : i < j => <<s[i], s[j]>> \in R
    BY <1>3 DEF Sorts
  <2>2. \A i, j \in 1 .. n : i # j => s[i] # s[j]
    <3> SUFFICES ASSUME NEW i \in 1 .. n, NEW j \in 1 .. n, i # j PROVE s[i] # s[j]
      OBVIOUS
    <3>1. i < j \/ j < i
      BY <1>1
    <3>2. s[i] \in S /\ s[j] \in S
      BY <2>1
    <3> QED
      BY <1>2, <2>1, <3>1, <3>2 DEF StrictOrder
  <2>3. s \in SetToSeqs(S)
    BY <2>1, <2>2 DEF SetToSeqs
  <2>4. ASSUME NEW i \in 1 .. n, NEW j \in 1 .. n, i < j PROVE ~Less(lines, s[j], s[i])
    <3>1. s[i] \in S /\ s[j] \in S /\ <<s[i], s[j]>> \in R
      BY <2>1, <2>4
    <3>2. <<s[j], s[i]>> \notin R
      BY <1>2, <3>1 DEF StrictOrder
    <3> QED
      BY <1>2, <3>1, <3>2
  <2>5. InOrder(lines, s)
    BY <2>1, <2>4 DEF InOrder
  <2> QED
    BY <2>3, <2>5
<1>6. ASSUME NEW t \in Sorted PROVE t = s
  <2>1. /\ t \in [1 .. n -> S] /\ \A i, j \in 1 .. n : i # j => t[i] # t[j]
        /\ InOrder(lines, t)
    BY DEF SetToSeqs
  <2>2. ASSUME NEW i \in 1 .. n, NEW j \in 1 .. n, i < j PROVE <<t[i], t[j]>> \in R
    <3>1. t[i] \in S /\ t[j] \in S /\ t[i] # t[j]
      BY <1>1, <2>1, <2>2
    <3>2. ~Less(lines, t[j], t[i])
      BY <2>1, <2>2 DEF InOrder
    <3> QED
      BY <1>2, <3>1, <3>2 DEF StrictOrder
  <2>3. Sorts(t, S, R)
    BY <2>1, <2>2 DEF Sorts
  <2> QED
    BY <1>1, <1>2, <1>3, <2>3, SortedOnce
<1> HIDE DEF Sorted
<1>7. Hits(lines) = {FirstN(s, MaxHits)}
  BY <1>4, <1>5, <1>6
<1> QED
  BY <1>3, <1>7 DEF S, R

LEMMA MadeLines ==
  ASSUME Made
  PROVE  LinesOf(Redact(text).out) \in Seq(Lines)
<1>1. text \in Texts /\ 6 \in 1 .. 6
  BY SourceIs DEF Made
<1>2. Redact(text).out = Stages(text)[6]
  BY <1>1, RedactIs
<1>3. Stages(text)[6] \in Texts
  BY <1>1, StagesAre
<1> QED
  BY <1>2, <1>3, LinesOfIs

LEMMA LogLeavesOutTheLeast ==
  ASSUME Made, NEW o \in made["log"],
         NEW l \in ToSet(LinesOf(o.raw)), Interesting(l), l \notin ToSet(o.listed)
  PROVE  /\ Len(o.listed) = MaxHits
         /\ \A s \in ToSet(o.signals) :
              \/ Occurs(LinesOf(o.raw), s.text) > Occurs(LinesOf(o.raw), l)
              \/ /\ Occurs(LinesOf(o.raw), s.text) = Occurs(LinesOf(o.raw), l)
                 /\ \A i \in Places(LinesOf(o.raw), l) : s.line < i
<1> DEFINE R == LinesOf(Redact(text).out)
           S == Diagnostics(R)
           n == Cardinality(S)
<1>0. R \in Seq(Lines)
  BY MadeLines
<1>1. PICK result \in Log(R) : o = Outcome(Redact(text), result)
  <2>1. o \in Ingest("log", text)
    BY DEF Made, Ingests, ContentTypes
  <2>2. Compress("log", Redact(text).out) = Log(R)
    BY DEF Compress
  <2> QED
    BY <2>1, <2>2 DEF Ingest
<1>2. LinesOf(o.raw) = R /\ o.listed = result.listed /\ o.signals = result.signals
  BY <1>1 DEF Outcome
<1> HIDE DEF R
<1>3. PICK s : Sorts(s, S, FewerOrLater(R)) /\ Hits(R) = {FirstN(s, MaxHits)}
  BY <1>0, SortedHits
<1> DEFINE hits == FirstN(s, MaxHits)
<1>4. result = [listed |-> hits,
                signals |-> [k \in DOMAIN hits |-> SignalAt(R, FirstLine(R, hits[k]))]]
  BY <1>3 DEF Log
<1>5. /\ IsFiniteSet(S) /\ n \in Nat /\ MaxHits \in Nat
      /\ StrictOrder(FewerOrLater(R), S)
      /\ \A k, m \in S : <<k, m>> \in FewerOrLater(R) <=> Less(R, k, m)
  BY <1>0, DiagnosticsFinite, LessOrders, SizesTyped
<1>6. /\ s \in Seq(S) /\ Len(s) = n
      /\ \A i, j \in 1 .. n : i < j => <<s[i], s[j]>> \in FewerOrLater(R)
  BY <1>3, <1>5 DEF Sorts
<1>7. /\ hits \in Seq(S) /\ Len(hits) = IF n < MaxHits THEN n ELSE MaxHits
      /\ \A k \in 1 .. Len(hits) : hits[k] = s[k]
  <2>1. /\ FirstN(s, MaxHits) \in Seq(S)
        /\ Len(FirstN(s, MaxHits)) = IF Len(s) < MaxHits THEN Len(s) ELSE MaxHits
        /\ \A k \in 1 .. Len(FirstN(s, MaxHits)) : FirstN(s, MaxHits)[k] = s[k]
    BY <1>5, <1>6, FirstNIs
  <2> QED
    BY <1>6, <2>1
<1>8. l \in S
  BY <1>2 DEF Diagnostics
<1>9. PICK p \in 1 .. n : s[p] = l
  BY <1>3, <1>5, <1>8, SortedByRank
<1> HIDE DEF hits
<1>10. o.listed = hits
  BY <1>2, <1>4
<1>11. p > Len(hits)
  <2> SUFFICES ASSUME p <= Len(hits) PROVE FALSE
    BY <1>7, <1>9
  <2>1. p \in 1 .. Len(hits) /\ hits[p] = l
    BY <1>7, <1>9
  <2>2. l \in ToSet(hits)
    BY <1>7, <2>1 DEF ToSet
  <2> QED
    BY <1>10, <2>2
<1>12. Len(hits) = MaxHits
  BY <1>5, <1>7, <1>9, <1>11
<1>13. ASSUME NEW q \in ToSet(o.signals)
       PROVE  \/ Occurs(R, q.text) > Occurs(R, l)
              \/ /\ Occurs(R, q.text) = Occurs(R, l)
                 /\ \A i \in Places(R, l) : q.line < i
  <2>1. PICK k \in 1 .. Len(hits) : q = SignalAt(R, FirstLine(R, hits[k]))
    BY <1>2, <1>4, <1>7 DEF ToSet
  <2>2. hits[k] \in S /\ hits[k] = s[k] /\ k \in 1 .. n /\ k < p
    BY <1>5, <1>7, <1>9, <1>11
  <2>3. hits[k] \in ToSet(R) /\ l \in ToSet(R)
    BY <1>8, <2>2 DEF Diagnostics
  <2>4. /\ R[FirstLine(R, hits[k])] = hits[k] /\ FirstLine(R, hits[k]) \in DOMAIN R
        /\ FirstLine(R, l) \in DOMAIN R
        /\ \A i \in Places(R, l) : FirstLine(R, l) <= i
    BY <1>0, <2>3, FirstLineIs
  <2>5. q.text = hits[k] /\ q.line = FirstLine(R, hits[k])
    BY <2>1, <2>4 DEF SignalAt
  <2>6. <<s[k], s[p]>> \in FewerOrLater(R)
    BY <1>6, <1>9, <2>2
  <2>7. Less(R, hits[k], l)
    BY <1>5, <1>8, <1>9, <2>2, <2>6
  <2>8. CASE Occurs(R, hits[k]) > Occurs(R, l)
    BY <2>5, <2>8
  <2>9. CASE /\ Occurs(R, hits[k]) = Occurs(R, l)
             /\ FirstLine(R, hits[k]) < FirstLine(R, l)
    <3>1. FirstLine(R, hits[k]) \in Int /\ FirstLine(R, l) \in Int
      BY <1>0, <2>4
    <3>2. \A i \in Places(R, l) : i \in Int
      BY <1>0 DEF Places
    <3>3. \A i \in Places(R, l) : FirstLine(R, hits[k]) < i
      BY <2>4, <2>9, <3>1, <3>2
    <3> QED
      BY <2>5, <2>9, <3>3
  <2> QED
    BY <2>7, <2>8, <2>9 DEF Less
<1> QED
  BY <1>2, <1>10, <1>12, <1>13

LEMMA TraceLeavesOutTheLater ==
  ASSUME Made, NEW o \in made["stack_trace"]
  PROVE  /\ IsInjective(o.listed)
         /\ \A i \in DOMAIN LinesOf(o.raw) :
              Frame(LinesOf(o.raw)[i]) /\ LinesOf(o.raw)[i] \notin ToSet(o.listed) =>
                /\ Len(o.signals) = MaxFrames
                /\ \A k \in DOMAIN o.signals : o.signals[k].line < i
<1> DEFINE R == LinesOf(Redact(text).out)
           idx == Frames(R)
<1>0. R \in Seq(Lines)
  BY MadeLines
<1>1. o = Outcome(Redact(text), StackTrace(R))
  <2>1. o \in Ingest("stack_trace", text)
    BY DEF Made, Ingests, ContentTypes
  <2>2. Compress("stack_trace", Redact(text).out) = {StackTrace(R)}
    BY DEF Compress
  <2> QED
    BY <2>1, <2>2 DEF Ingest
<1>2. LinesOf(o.raw) = R /\ o.listed = LinesAt(R, idx) /\ o.signals = SignalsAt(R, idx)
  BY <1>1 DEF Outcome, StackTrace
<1> HIDE DEF R
<1>3. KeptAt(R, idx, Len(R))
  BY <1>0, FramesAre
<1> HIDE DEF idx
<1>4. idx \in Seq(DOMAIN R) /\ Len(idx) \in Nat
  BY <1>0, <1>3 DEF KeptAt
<1>5. /\ LinesAt(R, idx) \in Seq(Lines) /\ Len(LinesAt(R, idx)) = Len(idx)
      /\ \A k \in 1 .. Len(idx) : LinesAt(R, idx)[k] = R[idx[k]]
      /\ DOMAIN SignalsAt(R, idx) = 1 .. Len(idx)
      /\ \A k \in 1 .. Len(idx) : SignalsAt(R, idx)[k] = [text |-> R[idx[k]], line |-> idx[k]]
  BY <1>0, <1>4, LinesAtIs
<1>6. DOMAIN o.listed = 1 .. Len(idx) /\ \A k \in 1 .. Len(idx) : o.listed[k] = R[idx[k]]
  BY <1>2, <1>5
<1>7. Len(o.signals) = Len(idx)
  <2>1. o.signals \in Seq({o.signals[k] : k \in 1 .. Len(idx)})
    <3>1. o.signals = [k \in 1 .. Len(idx) |-> SignalAt(R, idx[k])]
      BY <1>2, <1>4 DEF SignalsAt
    <3> QED
      BY <1>4, <3>1
  <2> QED
    BY <1>2, <1>4, <1>5, <2>1
<1>8. IsInjective(o.listed)
  BY <1>3, <1>6 DEF KeptAt, IsInjective
<1>9. ASSUME NEW i \in DOMAIN R, Frame(R[i]), R[i] \notin ToSet(o.listed)
      PROVE  /\ Len(o.signals) = MaxFrames
             /\ \A k \in DOMAIN o.signals : o.signals[k].line < i
  <2>1. i \in 1 .. Len(R)
    BY <1>0
  <2>2. \A k \in 1 .. Len(idx) : R[idx[k]] # R[i]
    BY <1>6, <1>9 DEF ToSet
  <2>3. Len(idx) = MaxFrames /\ \A k \in 1 .. Len(idx) : idx[k] < i
    BY <1>3, <1>9, <2>1, <2>2 DEF KeptAt
  <2>4. \A k \in 1 .. Len(idx) : o.signals[k].line = idx[k]
    BY <1>2, <1>5
  <2>5. DOMAIN o.signals = 1 .. Len(idx)
    BY <1>2, <1>5
  <2> QED
    BY <1>7, <2>3, <2>4, <2>5
<1> QED
  BY <1>2, <1>8, <1>9

(* For every text and every limit on the lists: the summary of a log does  *)
(* not depend on the order in which Go walks its map, and what it leaves   *)
(* out is what occurs least, or last; a trace leaves out its last frames   *)
(* (compressor.go:73-86, 112-126).                                         *)
THEOREM AlwaysLeavesOutTheLeast == Spec => []LeavesOutTheLeast
<1>1. ASSUME Made PROVE Cardinality(made["log"]) = 1
  <2> DEFINE R == LinesOf(Redact(text).out)
  <2>1. R \in Seq(Lines)
    BY <1>1, MadeLines
  <2>2. made["log"] = {Outcome(Redact(text), result) : result \in Log(R)}
    BY <1>1 DEF Made, Ingests, Ingest, Compress, ContentTypes
  <2> HIDE DEF R
  <2>3. PICK s : Hits(R) = {FirstN(s, MaxHits)}
    BY <2>1, SortedHits
  <2>4. \E r : Log(R) = {r}
    <3> DEFINE L(hits) == [listed |-> hits,
                 signals |-> [k \in DOMAIN hits |-> SignalAt(R, FirstLine(R, hits[k]))]]
    <3>1. Log(R) = {L(hits) : hits \in Hits(R)}
      BY DEF Log
    <3> HIDE DEF L
    <3>2. Log(R) = {L(FirstN(s, MaxHits))}
      BY <2>3, <3>1
    <3> QED
      BY <3>2
  <2>5. PICK r : Log(R) = {r}
    BY <2>4
  <2>6. made["log"] = {Outcome(Redact(text), r)}
    BY <2>2, <2>5
  <2> QED
    BY <2>6, FS_Singleton
<1>2. Made => LeavesOutTheLeast
  BY <1>1, LogLeavesOutTheLeast, TraceLeavesOutTheLater DEF LeavesOutTheLeast
<1> QED
  BY <1>2, MadeAlways, PTL

-----------------------------------------------------------------------------
(* Bytes: what is made of lines has whole characters.                      *)

Byte == {"ascii", "lead", "tail"}

Whole(s) ==
  /\ s \in Seq(Byte)
  /\ \A i \in 1 .. Len(s) : s[i] = "lead" => i < Len(s) /\ s[i + 1] = "tail"

LEMMA AsciiWhole ==
  ASSUME NEW n \in Nat
  PROVE  Whole(Ascii(n)) /\ Len(Ascii(n)) = n /\ \A i \in 1 .. n : Ascii(n)[i] = "ascii"
<1>1. Ascii(n) \in [1 .. n -> Byte]
  BY DEF Ascii, Byte
<1>2. \A i \in 1 .. n : Ascii(n)[i] = "ascii"
  BY DEF Ascii
<1>3. Ascii(n) \in Seq(Byte) /\ Len(Ascii(n)) = n
  BY <1>1
<1> QED
  BY <1>2, <1>3 DEF Whole

LEMMA SpellingWhole ==
  ASSUME NEW w \in Words \cup Space
  PROVE  Whole(Spelling[w])
<1>1. Spelling[w] \in Seq(Byte)
  BY SizesTyped DEF Byte
<1>2. DOMAIN Spelling[w] = 1 .. Len(Spelling[w])
  BY <1>1
<1>3. \A i \in DOMAIN Spelling[w] :
        Spelling[w][i] = "lead" => i < Len(Spelling[w]) /\ Spelling[w][i + 1] = "tail"
  BY SpelledInCharacters
<1> DEFINE s == Spelling[w]
<1>4. /\ s \in Seq(Byte) /\ DOMAIN s = 1 .. Len(s)
      /\ \A i \in DOMAIN s : s[i] = "lead" => i < Len(s) /\ s[i + 1] = "tail"
  BY <1>1, <1>2, <1>3, Zenon
<1> HIDE DEF s
<1>5. Whole(s)
  BY <1>4, Zenon DEF Whole
<1> QED
  BY <1>5 DEF s

LEMMA ConcatWhole ==
  ASSUME NEW s, NEW t, Whole(s), Whole(t)
  PROVE  Whole(s \o t)
<1> DEFINE u == s \o t
           m == Len(s)
           n == Len(t)
<1>1. /\ m \in Nat /\ n \in Nat /\ u \in Seq(Byte) /\ Len(u) = m + n
      /\ \A i \in 1 .. (m + n) : u[i] = IF i <= m THEN s[i] ELSE t[i - m]
  BY ConcatProperties DEF Whole
<1>2. /\ \A i \in 1 .. m : s[i] = "lead" => i < m /\ s[i + 1] = "tail"
      /\ \A i \in 1 .. n : t[i] = "lead" => i < n /\ t[i + 1] = "tail"
  BY DEF Whole
<1> HIDE DEF u, m, n
<1>3. ASSUME NEW i \in 1 .. (m + n), u[i] = "lead"
      PROVE  i < m + n /\ u[i + 1] = "tail"
  <2>1. CASE i <= m
    <3>1. i \in 1 .. m /\ s[i] = "lead"
      BY <1>1, <1>3, <2>1
    <3>2. i < m /\ s[i + 1] = "tail" /\ i + 1 \in 1 .. (m + n) /\ i + 1 <= m
      BY <1>1, <1>2, <3>1
    <3>3. u[i + 1] = s[i + 1]
      BY <1>1, <3>2
    <3> QED
      BY <1>1, <3>2, <3>3
  <2>2. CASE ~(i <= m)
    <3>1. i - m \in 1 .. n /\ t[i - m] = "lead"
      BY <1>1, <1>3, <2>2
    <3>2. i - m < n /\ t[(i - m) + 1] = "tail"
      BY <1>2, <3>1
    <3>3. /\ i + 1 \in 1 .. (m + n) /\ ~(i + 1 <= m) /\ (i + 1) - m = (i - m) + 1
          /\ i < m + n
      BY <1>1, <2>2, <3>2
    <3>4. u[i + 1] = t[(i + 1) - m]
      BY <1>1, <3>3
    <3> QED
      BY <3>2, <3>3, <3>4
  <2> QED
    BY <2>1, <2>2
<1> QED
  BY <1>1, <1>3 DEF Whole, u

(* Pieces of whole characters, joined, have whole characters.              *)
LEMMA JoinedWhole ==
  ASSUME NEW parts \in Seq(Seq(Byte)), \A k \in DOMAIN parts : Whole(parts[k])
  PROVE  Whole(Joined(parts))
<1> DEFINE n == Len(parts)
           S == Seq(Byte)
           Add(s, i) == s \o parts[i]
           step == [p \in (1 .. n) \X S |-> Add(p[2], p[1])]
<1>0. n \in Nat /\ DOMAIN parts = 1 .. n
  OBVIOUS
<1>1. \A i \in 1 .. n, s \in S : Add(s, i) \in S
  <2> SUFFICES ASSUME NEW i \in 1 .. n, NEW s \in S PROVE Add(s, i) \in S
    OBVIOUS
  <2>1. parts[i] \in Seq(Byte)
    OBVIOUS
  <2> QED
    BY <2>1, ConcatProperties
<1>2. << >> \in S
  OBVIOUS
<1> HIDE DEF S, Add
<1>3. step \in [(1 .. n) \X S -> S]
  BY <1>1
<1>4. \A i \in 1 .. n, s \in S : step[<<i, s>>] = Add(s, i)
  OBVIOUS
<1> HIDE DEF step
<1>5. PICK f : Run(f, S, << >>, n, step)
  BY <1>0, <1>2, <1>3, Repeated
<1>6. /\ f \in [0 .. n -> S] /\ f[0] = << >>
      /\ \A i \in 1 .. n : f[i] = Add(f[i - 1], i)
  <2>1. /\ f \in [0 .. n -> S] /\ f[0] = << >>
        /\ \A i \in 1 .. n : f[i] = step[<<i, f[i - 1]>>]
    BY <1>5 DEF Run
  <2>2. ASSUME NEW i \in 1 .. n PROVE f[i - 1] \in S
    <3>1. i - 1 \in 0 .. n
      BY <1>0
    <3> QED
      BY <2>1, <3>1
  <2> QED
    BY <1>4, <2>1, <2>2
<1>7. f = [i \in 0 .. n |-> IF i = 0 THEN << >> ELSE Add(f[i - 1], i)]
  BY <1>0, <1>6
<1> DEFINE J == Joining(parts)
<1>8. J = [i \in 0 .. n |-> IF i = 0 THEN << >> ELSE Add(J[i - 1], i)]
  BY <1>7 DEF Joining, Add
<1> HIDE DEF n, J
<1>9. /\ J[0] = << >>
      /\ \A i \in 1 .. n : J[i] = Add(J[i - 1], i)
  BY <1>0, <1>8
<1> DEFINE G == {i \in 0 .. n : Whole(J[i])}
<1>10. 0 \in G
  <2>1. Whole(<< >>)
    BY DEF Whole
  <2> QED
    BY <1>0, <1>9, <2>1
<1>11. ASSUME NEW i \in 0 .. (n - 1), i \in G PROVE i + 1 \in G
  <2>1. i + 1 \in 1 .. n /\ i + 1 \in 0 .. n /\ (i + 1) - 1 = i
    BY <1>0
  <2>2. J[i + 1] = J[i] \o parts[i + 1]
    <3>1. J[i + 1] = Add(J[(i + 1) - 1], i + 1)
      BY <1>9, <2>1
    <3> QED
      BY <2>1, <3>1 DEF Add
  <2>3. Whole(J[i]) /\ Whole(parts[i + 1])
    BY <1>0, <1>11, <2>1
  <2>4. Whole(J[i] \o parts[i + 1])
    BY <2>3, ConcatWhole
  <2> QED
    BY <2>1, <2>2, <2>4
<1> HIDE DEF G
<1>12. n \in G
  <2>1. 0 .. n \subseteq G
    BY <1>0, <1>10, <1>11, UpTo
  <2> QED
    BY <1>0, <2>1
<1> QED
  BY <1>12 DEF G, J, n, Joined

LEMMA SpelledWhole ==
  ASSUME NEW line \in Lines
  PROVE  Whole(Spelled(line))
<1> DEFINE parts == [i \in DOMAIN line |-> Spelling[line[i]] \o Ascii(1)]
<1>1. line \in Seq(Words \cup Space) /\ DOMAIN line = 1 .. Len(line) /\ Len(line) \in Nat
  BY DEF Lines, Space
<1>2. \A i \in 1 .. Len(line) : Whole(Spelling[line[i]] \o Ascii(1))
  <2> SUFFICES ASSUME NEW i \in 1 .. Len(line) PROVE Whole(Spelling[line[i]] \o Ascii(1))
    OBVIOUS
  <2>1. line[i] \in Words \cup Space
    BY <1>1
  <2> QED
    BY <2>1, SpellingWhole, AsciiWhole, ConcatWhole
<1>3. parts \in [1 .. Len(line) -> Seq(Byte)]
  BY <1>1, <1>2 DEF Whole
<1>4. parts \in Seq(Seq(Byte)) /\ \A i \in DOMAIN parts : Whole(parts[i])
  BY <1>1, <1>2, <1>3
<1> HIDE DEF parts
<1>5. Whole(Joined(parts))
  BY <1>4, JoinedWhole
<1> QED
  BY <1>5 DEF Spelled, parts

LEMMA RenderWhole ==
  ASSUME NEW listed \in Seq(Lines)
  PROVE  Whole(Render(listed))
<1> DEFINE parts == [k \in DOMAIN listed |-> Spelled(listed[k])]
<1>1. DOMAIN listed = 1 .. Len(listed) /\ Len(listed) \in Nat
  OBVIOUS
<1>2. \A k \in 1 .. Len(listed) : Whole(Spelled(listed[k]))
  BY <1>1, SpelledWhole
<1>3. parts \in [1 .. Len(listed) -> Seq(Byte)]
  BY <1>1, <1>2 DEF Whole
<1>4. parts \in Seq(Seq(Byte)) /\ \A k \in DOMAIN parts : Whole(parts[k])
  BY <1>1, <1>2, <1>3
<1> HIDE DEF parts
<1>5. Whole(Joined(parts))
  BY <1>4, JoinedWhole
<1>6. Whole(Ascii(HeaderBytes))
  BY SizesTyped, AsciiWhole
<1>7. Whole(Ascii(HeaderBytes) \o Joined(parts))
  BY <1>5, <1>6, ConcatWhole
<1> QED
  BY <1>7 DEF Render, parts

(* A text has no more characters than bytes.                               *)
Weight(s) == Cardinality(Runes(s))

LEMMA RunesFinite ==
  ASSUME NEW s \in Seq(Byte)
  PROVE  /\ Runes(s) \in SUBSET (1 .. Len(s)) /\ IsFiniteSet(Runes(s))
         /\ Weight(s) \in Nat /\ Weight(s) <= Len(s)
<1>0. Len(s) \in Nat
  OBVIOUS
<1>1. Runes(s) \in SUBSET (1 .. Len(s))
  BY DEF Runes
<1>2. IsFiniteSet(1 .. Len(s)) /\ Cardinality(1 .. Len(s)) = Len(s)
  <2>1. 1 \in Int /\ Len(s) \in Int
    BY <1>0
  <2>2. /\ IsFiniteSet(1 .. Len(s))
        /\ Cardinality(1 .. Len(s)) = IF 1 > Len(s) THEN 0 ELSE Len(s) - 1 + 1
    BY <2>1, FS_Interval, Zenon
  <2> QED
    BY <1>0, <2>2
<1>3. IsFiniteSet(Runes(s)) /\ Cardinality(Runes(s)) <= Cardinality(1 .. Len(s))
  BY <1>1, <1>2, FS_Subset
<1> QED
  BY <1>1, <1>2, <1>3, FS_CardinalityType DEF Weight

(* Whatever the limit and the lines listed: a summary costs at most the    *)
(* budget of tokens and the mark of truncation, and is whole characters    *)
(* unless it was cut in the middle of one (compressor.go:42-51).           *)
THEOREM SummaryAlwaysFits == Spec => []SummaryFits
<1>1. ASSUME Made, NEW o \in Ingested
      PROVE  LET bytes == o.summary
                 broken == \E i \in DOMAIN bytes : bytes[i] = "lead" /\
                             (i = Len(bytes) \/ bytes[i + 1] # "tail")
             IN  /\ Tokens(bytes) <= (Budget + TruncatedBytes) \div 4
                 /\ broken => /\ Len(Render(o.listed)) > Budget
                              /\ Render(o.listed)[Budget + 1] = "tail"
  <2> DEFINE m == IF MaxTokens <= 0 THEN 1200 ELSE MaxTokens
             r == Render(o.listed)
             n == Len(r)
             bytes == o.summary
             mark == Ascii(20)
             B == Budget
  <2>1. /\ m \in Nat /\ B = 4 * m
    BY SizesTyped DEF Budget
  <2>2. o.listed \in Seq(Lines) /\ bytes = Limit(r)
    BY <1>1, IngestedIs
  <2>3. Whole(r)
    BY <2>2, RenderWhole
  <2>4. /\ r \in Seq(Byte) /\ n \in Nat
        /\ \A i \in 1 .. n : r[i] = "lead" => i < n /\ r[i + 1] = "tail"
    BY <2>3 DEF Whole
  <2>5. /\ mark \in Seq(Byte) /\ Len(mark) = 20 /\ \A i \in 1 .. 20 : mark[i] = "ascii"
    BY AsciiWhole DEF Whole
  <2>6. bytes = IF n <= B THEN r ELSE SubSeq(r, 1, B) \o mark
    BY <2>2 DEF Limit, TruncatedBytes
  <2> HIDE DEF m, r, n, bytes, mark, B
  <2>7. B \in Nat
    BY <2>1
  <2>8. /\ bytes \in Seq(Byte) /\ Len(bytes) <= B + 20
        /\ \A i \in 1 .. Len(bytes) :
             bytes[i] = "lead" /\ (i = Len(bytes) \/ bytes[i + 1] # "tail")
               => n > B /\ r[B + 1] = "tail"
    <3>1. CASE n <= B
      <4>1. bytes = r
        BY <2>6, <3>1
      <4>2. ASSUME NEW i \in 1 .. n, r[i] = "lead", i = n \/ r[i + 1] # "tail" PROVE FALSE
        BY <2>4, <4>2
      <4>3. Len(bytes) = n
        BY <4>1 DEF n
      <4> QED
        BY <2>4, <2>7, <3>1, <4>1, <4>2, <4>3
    <3>2. CASE ~(n <= B)
      <4> DEFINE cut == SubSeq(r, 1, B)
      <4>1. \A i \in 1 .. B : r[i] \in Byte
        <5>1. \A i \in 1 .. n : r[i] \in Byte
          BY <2>4 DEF n
        <5>2. \A i \in 1 .. B : i \in 1 .. n
          BY <2>4, <2>7, <3>2
        <5> QED
          BY <5>1, <5>2
      <4>2. /\ cut \in Seq(Byte)
            /\ Len(cut) = IF 1 <= B THEN B - 1 + 1 ELSE 0
            /\ \A i \in 1 .. (B - 1 + 1) : cut[i] = r[1 + i - 1]
        BY <2>7, <4>1, SubSeqProperties
      <4>3. cut \in Seq(Byte) /\ Len(cut) = B /\ \A i \in 1 .. B : cut[i] = r[i]
        BY <2>7, <4>2
      <4> HIDE DEF cut
      <4>4. /\ cut \o mark \in Seq(Byte) /\ Len(cut \o mark) = B + 20
            /\ \A i \in 1 .. (B + 20) :
                 (cut \o mark)[i] = IF i <= B THEN cut[i] ELSE mark[i - B]
        <5>1. mark \in Seq(Byte) /\ cut \in Seq(Byte) /\ Len(mark) = 20 /\ Len(cut) = B
          BY <2>5, <4>3
        <5>2. /\ cut \o mark \in Seq(Byte) /\ Len(cut \o mark) = Len(cut) + Len(mark)
              /\ \A i \in 1 .. (Len(cut) + Len(mark)) :
                   (cut \o mark)[i] = IF i <= Len(cut) THEN cut[i] ELSE mark[i - Len(cut)]
          BY <5>1, ConcatProperties, Zenon
        <5> QED
          BY <5>1, <5>2, Zenon
      <4>5. bytes = cut \o mark
        BY <2>6, <3>2 DEF cut
      <4>6. /\ bytes \in Seq(Byte) /\ Len(bytes) = B + 20
            /\ \A i \in 1 .. (B + 20) : bytes[i] = IF i <= B THEN r[i] ELSE "ascii"
        <5>1. \A i \in 1 .. (B + 20) : ~(i <= B) => i - B \in 1 .. 20
          BY <2>7
        <5>2. ASSUME NEW i \in 1 .. (B + 20)
              PROVE  bytes[i] = IF i <= B THEN r[i] ELSE "ascii"
          <6>1. bytes[i] = IF i <= B THEN cut[i] ELSE mark[i - B]
            BY <4>4, <4>5, Zenon
          <6>2. i <= B => cut[i] = r[i]
            BY <2>7, <4>3
          <6>3. ~(i <= B) => mark[i - B] = "ascii"
            BY <2>5, <5>1
          <6> QED
            BY <6>1, <6>2, <6>3, Zenon
        <5> QED
          BY <4>4, <4>5, <5>2, Zenon
      <4>7. ASSUME NEW i \in 1 .. Len(bytes), bytes[i] = "lead",
                   i = Len(bytes) \/ bytes[i + 1] # "tail"
            PROVE  n > B /\ r[B + 1] = "tail"
        <5>1. i <= B /\ r[i] = "lead"
          BY <4>6, <4>7
        <5>2. r[i + 1] = "tail" /\ i \in 1 .. n
          BY <2>4, <2>7, <3>2, <5>1
        <5>3. CASE i = B
          BY <2>4, <2>7, <3>2, <5>2, <5>3
        <5>4. CASE i # B
          <6>1. i + 1 \in 1 .. (B + 20) /\ i + 1 <= B /\ i # B + 20
            BY <2>7, <5>1, <5>4
          <6>2. bytes[i + 1] = r[i + 1]
            BY <4>6, <6>1
          <6> QED
            BY <4>6, <4>7, <5>2, <6>1, <6>2
        <5> QED
          BY <5>3, <5>4
      <4> QED
        BY <2>7, <4>6, <4>7
    <3> QED
      BY <3>1, <3>2
  <2>9. Tokens(bytes) <= (B + 20) \div 4
    <3> DEFINE w == Weight(bytes)
    <3>1. w \in Nat /\ w <= Len(bytes)
      BY <2>8, RunesFinite
    <3>2. Tokens(bytes) = (w + 3) \div 4
      BY DEF Tokens, Weight
    <3>3. Len(bytes) \in Nat
      BY <2>8
    <3> HIDE DEF w
    <3>4. w <= 4 * m + 20
      BY <2>1, <2>8, <3>1, <3>3
    <3>5. (w + 3) \div 4 <= m + 5 /\ (4 * m + 20) \div 4 = m + 5
      BY <2>1, <3>1, <3>4
    <3> QED
      BY <2>1, <3>2, <3>5
  <2>10. DOMAIN bytes = 1 .. Len(bytes)
    BY <2>8
  <2> QED
    BY <2>8, <2>9, <2>10 DEF n, r, bytes, B, TruncatedBytes
<1>2. Made => SummaryFits
  BY <1>1, Zenon DEF SummaryFits
<1> QED
  BY <1>2, MadeAlways, PTL

=============================================================================
