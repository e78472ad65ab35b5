--------------------------- MODULE RecoveryProofs ---------------------------
(***************************************************************************)
(* Proofs about Recovery, for any runs, questions, pages and reader:       *)
(*   - the search looks at every page, whatever the ranking;               *)
(*   - a question is decided on its first complete answer, which makes all *)
(*     runs find the same (the invariant SearchInv);                       *)
(*   - so the export is whole, and nobody is refused it (ExportInv).       *)
(***************************************************************************)
EXTENDS Recovery, TLAPS, FiniteSetTheorems, SequenceTheorems

-----------------------------------------------------------------------------
\* What it takes to put a finite set in order: of two items one precedes the
\* other, and not in a circle.
Orders(R, S) == /\ \A x \in S : <<x, x>> \notin R
                /\ \A x, y \in S : x # y => <<x, y>> \in R \/ <<y, x>> \in R
                /\ \A x, y, z \in S : <<x, y>> \in R /\ <<y, z>> \in R => <<x, z>> \in R

Before(R, S, x) == Cardinality({y \in S : <<y, x>> \in R})

\* No two items have as many before them, and there is an item for each place.
LEMMA PlaceOfEach ==
  ASSUME NEW S, IsFiniteSet(S), NEW R, Orders(R, S)
  PROVE  /\ \A x \in S : Before(R, S, x) \in 0..(Cardinality(S) - 1)
         /\ \A x, y \in S : <<x, y>> \in R => Before(R, S, x) < Before(R, S, y)
         /\ \A x, y \in S : Before(R, S, x) = Before(R, S, y) => x = y
         /\ \A i \in 1..Cardinality(S) : \E x \in S : Before(R, S, x) = i - 1
<1>. DEFINE below(x) == {y \in S : <<y, x>> \in R}
            n == Cardinality(S)
<1>1. n \in Nat /\ \A x \in S : IsFiniteSet(below(x)) /\ Cardinality(below(x)) \in Nat
  <2>1. \A x \in S : IsFiniteSet(below(x))
    BY FS_Subset
  <2>. QED
    BY <2>1, FS_CardinalityType
<1>2. ASSUME NEW x \in S, NEW y \in S, <<x, y>> \in R
      PROVE  Cardinality(below(x)) < Cardinality(below(y))
  <2>1. below(x) \in SUBSET below(y) /\ x \in below(y) /\ x \notin below(x)
    BY <1>2 DEF Orders
  <2>2. Cardinality(below(x)) <= Cardinality(below(y)) /\ Cardinality(below(x)) # Cardinality(below(y))
    BY <1>1, <2>1, FS_Subset
  <2>. QED
    BY <1>1, <2>2
<1>3. ASSUME NEW x \in S PROVE Cardinality(below(x)) \in 0..(n - 1)
  <2>1. below(x) \in SUBSET S /\ x \notin below(x)
    BY DEF Orders
  <2>2. Cardinality(below(x)) <= n /\ Cardinality(below(x)) # n
    BY <2>1, FS_Subset
  <2>. QED
    BY <1>1, <2>2
<1>. DEFINE place == [x \in S |-> Cardinality(below(x))]
<1>4. place \in Injection(S, 0..(n - 1))
  <2>1. place \in [S -> 0..(n - 1)]
    BY <1>3
  <2>2. ASSUME NEW x \in S, NEW y \in S, place[x] = place[y] PROVE x = y
    <3>1. Cardinality(below(x)) = Cardinality(below(y))
      BY <2>2
    <3>2. ~(Cardinality(below(x)) < Cardinality(below(y))) /\ ~(Cardinality(below(y)) < Cardinality(below(x)))
      BY <1>1, <3>1
    <3>3. <<x, y>> \notin R /\ <<y, x>> \notin R
      BY <1>2, <3>2
    <3>. QED
      BY <3>3 DEF Orders
  <2>. QED
    BY <2>1, <2>2 DEF Injection, IsInjective
<1>5. IsFiniteSet(0..(n - 1)) /\ Cardinality(0..(n - 1)) = n
  BY <1>1, FS_Interval
<1>6. place \in Surjection(S, 0..(n - 1))
  BY <1>4, <1>5, FS_Injection
<1>7. ASSUME NEW i \in 1..n PROVE \E x \in S : Cardinality(below(x)) = i - 1
  <2>1. i - 1 \in 0..(n - 1)
    BY <1>1
  <2>2. PICK x \in S : place[x] = i - 1
    BY <1>6, <2>1 DEF Surjection
  <2>. QED
    BY <2>2
<1>8. ASSUME NEW x \in S, NEW y \in S, Cardinality(below(x)) = Cardinality(below(y)) PROVE x = y
  BY <1>4, <1>8 DEF Injection, IsInjective
<1>9. \A x : Before(R, S, x) = Cardinality(below(x))
  BY DEF Before
<1>. HIDE DEF below
<1>. QED
  BY <1>2, <1>3, <1>7, <1>8, <1>9

\* Ordered puts all items into places, the preceding ones first.
LEMMA OrderedForm ==
  ASSUME NEW S, IsFiniteSet(S), NEW R, Orders(R, S)
  PROVE  /\ Cardinality(S) \in Nat
         /\ Ordered(S, R) \in [1..Cardinality(S) -> S]
         /\ \A i, j \in 1..Cardinality(S) :
              i < j <=> <<Ordered(S, R)[i], Ordered(S, R)[j]>> \in R
         /\ \A x \in S : \E i \in 1..Cardinality(S) : Ordered(S, R)[i] = x
<1>. DEFINE n == Cardinality(S)
            o == Ordered(S, R)
            before(x) == Before(R, S, x)
<1>1. n \in Nat
  BY FS_CardinalityType
<1>2. /\ \A x \in S : before(x) \in 0..(n - 1)
      /\ \A x, y \in S : <<x, y>> \in R => before(x) < before(y)
      /\ \A x, y \in S : before(x) = before(y) => x = y
      /\ \A i \in 1..n : \E x \in S : before(x) = i - 1
  BY PlaceOfEach
<1>3. o = [i \in 1..n |-> CHOOSE x \in S : before(x) = i - 1]
  BY DEF Ordered, Before
<1>. HIDE DEF before, o
<1>4. \A i \in 1..n : o[i] \in S /\ before(o[i]) = i - 1
  BY <1>2, <1>3
<1>6. ASSUME NEW x \in S PROVE \E i \in 1..n : o[i] = x
  <2>1. before(x) + 1 \in 1..n
    BY <1>1, <1>2
  <2>2. before(o[before(x) + 1]) = before(x) /\ o[before(x) + 1] \in S
    BY <1>1, <1>2, <1>4, <2>1
  <2>. QED
    BY <1>2, <2>1, <2>2
<1>7. ASSUME NEW i \in 1..n, NEW j \in 1..n PROVE i < j <=> <<o[i], o[j]>> \in R
  <2>1. before(o[i]) = i - 1 /\ before(o[j]) = j - 1 /\ o[i] \in S /\ o[j] \in S
    BY <1>4
  <2>2. CASE i < j
    <3>1. o[i] # o[j]
      BY <1>1, <2>1, <2>2
    <3>2. <<o[j], o[i]>> \notin R
      BY <1>1, <1>2, <2>1, <2>2
    <3>. QED
      BY <2>1, <2>2, <3>1, <3>2 DEF Orders
  <2>3. CASE ~(i < j)
    BY <1>1, <1>2, <2>1, <2>3
  <2>. QED
    BY <2>2, <2>3
<1>8. o \in [1..n -> S]
  BY <1>3, <1>4
<1>. QED
  BY <1>1, <1>6, <1>7, <1>8 DEF o

\* Numbers in ascending order.
LEMMA AscendingForm ==
  ASSUME NEW S, IsFiniteSet(S), S \subseteq Int
  PROVE  /\ Cardinality(S) \in Nat
         /\ Ascending(S) \in [1..Cardinality(S) -> S]
         /\ \A i, j \in 1..Cardinality(S) : i < j <=> Ascending(S)[i] < Ascending(S)[j]
         /\ \A x \in S : \E i \in 1..Cardinality(S) : Ascending(S)[i] = x
<1>. DEFINE R == {p \in S \X S : p[1] < p[2]}
<1>1. \A x, y \in S : <<x, y>> \in R <=> x < y
  OBVIOUS
<1>. HIDE DEF R
<1>2. Orders(R, S)
  BY <1>1 DEF Orders
<1>3. Ascending(S) = Ordered(S, R)
  BY DEF Ascending, R
<1>4. /\ Cardinality(S) \in Nat
      /\ Ordered(S, R) \in [1..Cardinality(S) -> S]
      /\ \A i, j \in 1..Cardinality(S) :
           i < j <=> <<Ordered(S, R)[i], Ordered(S, R)[j]>> \in R
      /\ \A x \in S : \E i \in 1..Cardinality(S) : Ordered(S, R)[i] = x
  BY <1>2, OrderedForm
<1>. QED
  BY <1>1, <1>3, <1>4

\* A function on 1..n is a sequence.
LEMMA FunctionIsSeq ==
  ASSUME NEW S, NEW n \in Nat, NEW f \in [1..n -> S]
  PROVE  f \in Seq(S) /\ Len(f) = n /\ DOMAIN f = 1..n
<1>1. f \in Seq(S)
  BY SeqDef
<1>2. Len(f) \in Nat /\ 1..Len(f) = 1..n
  BY <1>1, LenProperties
<1>. QED
  BY <1>1, <1>2

\* A nonempty finite set of numbers has a least one.
LEMMA LeastNumber ==
  ASSUME NEW S, IsFiniteSet(S), S \subseteq Int, S # {}
  PROVE  \E x \in S : \A y \in S : x <= y
<1>. DEFINE n == Cardinality(S)
            a == Ascending(S)
<1>1. /\ n \in Nat /\ a \in [1..n -> S]
      /\ \A i, j \in 1..n : i < j <=> a[i] < a[j]
      /\ \A x \in S : \E i \in 1..n : a[i] = x
  BY AscendingForm
<1>. HIDE DEF n, a
<1>2. 1 \in 1..n /\ a[1] \in S
  <2>1. PICK x \in S : TRUE
    OBVIOUS
  <2>2. PICK i \in 1..n : a[i] = x
    BY <1>1
  <2>3. 1 \in 1..n
    BY <1>1, <2>2
  <2>. QED
    BY <1>1, <2>3
<1>3. ASSUME NEW y \in S PROVE a[1] <= y
  <2>1. PICK i \in 1..n : a[i] = y
    BY <1>1
  <2>2. a[1] \in Int /\ y \in Int
    BY <1>2
  <2>3. CASE i = 1
    BY <2>1, <2>2, <2>3
  <2>4. CASE i # 1
    <3>1. 1 < i
      BY <2>4
    <3>2. a[1] < a[i]
      BY <1>1, <1>2, <3>1
    <3>. QED
      BY <2>1, <2>2, <3>2
  <2>. QED
    BY <2>3, <2>4
<1>. QED
  BY <1>1, <1>2, <1>3

\* Distinct keeps every item, once, and the first one in its place.
LEMMA DistinctForm ==
  ASSUME NEW S, NEW s \in Seq(S)
  PROVE  /\ Distinct(s) \in Seq(S)
         /\ ToSet(Distinct(s)) = ToSet(s)
         /\ IsInjective(Distinct(s))
         /\ s # << >> => Distinct(s)[1] = s[1]
<1>. DEFINE first == {i \in DOMAIN s : \A j \in 1..(i - 1) : s[j] # s[i]}
            a == Ascending(first)
            n == Cardinality(first)
            d == Distinct(s)
<1>1. Len(s) \in Nat /\ DOMAIN s = 1..Len(s) /\ \A i \in 1..Len(s) : s[i] \in S
  BY LenProperties
<1>2. IsFiniteSet(first) /\ first \subseteq 1..Len(s)
  <2>1. first \in SUBSET (1..Len(s)) /\ IsFiniteSet(1..Len(s))
    BY <1>1, FS_Interval
  <2>. QED
    BY <2>1, FS_Subset
<1>3. /\ n \in Nat /\ a \in [1..n -> first]
      /\ \A i, j \in 1..n : i < j <=> a[i] < a[j]
      /\ \A x \in first : \E i \in 1..n : a[i] = x
  <2>1. first \subseteq Int
    BY <1>1, <1>2
  <2>. QED
    BY <1>2, <2>1, AscendingForm
<1>4. d = [i \in 1..n |-> s[a[i]]]
  BY <1>3 DEF Distinct
<1>5. \A i \in first : \A j \in first : s[i] = s[j] => i = j
  BY <1>1
<1>6. \A i \in DOMAIN s : \E j \in first : s[j] = s[i]
  <2>. SUFFICES ASSUME NEW i \in DOMAIN s PROVE \E j \in first : s[j] = s[i]
    OBVIOUS
  <2>. DEFINE same == {j \in 1..Len(s) : s[j] = s[i]}
  <2>1. IsFiniteSet(same) /\ same \subseteq Int /\ same # {}
    <3>1. same \in SUBSET (1..Len(s)) /\ IsFiniteSet(1..Len(s))
      BY <1>1, FS_Interval
    <3>2. i \in same
      BY <1>1
    <3>. QED
      BY <3>1, <3>2, FS_Subset
  <2>2. PICK j \in same : \A k \in same : j <= k
    BY <2>1, LeastNumber
  <2>3. j \in first
    BY <1>1, <2>2
  <2>. QED
    BY <2>2, <2>3
<1>7. s # << >> => 1 \in first
  BY <1>1, EmptySeq
<1>. HIDE DEF first, a, n, d
<1>8. d \in [1..n -> S]
  BY <1>1, <1>2, <1>3, <1>4
<1>9. d \in Seq(S) /\ DOMAIN d = 1..n
  BY <1>3, <1>8, FunctionIsSeq
<1>10. IsInjective(d)
  <2>. SUFFICES ASSUME NEW i \in 1..n, NEW j \in 1..n, d[i] = d[j] PROVE i = j
    BY <1>9 DEF IsInjective
  <2>1. a[i] = a[j]
    BY <1>3, <1>4, <1>5
  <2>2. a[i] \in Int
    <3>1. a[i] \in first
      BY <1>3
    <3>2. a[i] \in 1..Len(s)
      BY <1>2, <3>1
    <3>. QED
      BY <3>2
  <2>3. ~(i < j) /\ ~(j < i)
    BY <1>3, <2>1, <2>2
  <2>. QED
    BY <1>3, <2>3
<1>11. ToSet(d) = ToSet(s)
  <2>1. ASSUME NEW x \in ToSet(d) PROVE x \in ToSet(s)
    BY <1>1, <1>2, <1>3, <1>4, <1>9 DEF ToSet
  <2>2. ASSUME NEW x \in ToSet(s) PROVE x \in ToSet(d)
    <3>1. PICK j \in first : s[j] = x
      BY <1>6 DEF ToSet
    <3>2. PICK i \in 1..n : a[i] = j
      BY <1>3
    <3>. QED
      BY <1>4, <1>9, <3>1, <3>2 DEF ToSet
  <2>. QED
    BY <2>1, <2>2
<1>12. s # << >> => d[1] = s[1]
  <2>. SUFFICES ASSUME s # << >> PROVE d[1] = s[1]
    OBVIOUS
  <2>1. PICK i \in 1..n : a[i] = 1
    BY <1>3, <1>7
  <2>2. a[1] \in 1..Len(s) /\ 1 \in 1..n
    <3>1. 1 \in 1..n
      BY <1>3
    <3>2. a[1] \in first
      BY <1>3, <3>1
    <3>. QED
      BY <1>2, <3>1, <3>2
  <2>3. ~(1 < i)
    BY <1>1, <1>3, <2>1, <2>2
  <2>. QED
    BY <1>3, <1>4, <2>1, <2>2, <2>3
<1>. QED
  BY <1>9, <1>10, <1>11, <1>12 DEF d

-----------------------------------------------------------------------------
\* A ranking of the pages 1..n, n > 0, has each at one place.
IsRanking(ranked, n) == /\ n \in Nat \ {0}
                        /\ ranked \in [1..n -> 1..n]
                        /\ \A i, j \in 1..n : ranked[i] = ranked[j] => i = j
                        /\ \A p \in 1..n : \E i \in 1..n : ranked[i] = p

\* BM25Index.rank ranks.
LEMMA RankForm ==
  ASSUME NEW n \in Nat \ {0}, NEW score \in [1..n -> Int]
  PROVE  IsRanking(Rank(score), n)
<1>. DEFINE S == 1..n
            R == Better(score)
            o == Rank(score)
<1>1. IsFiniteSet(S) /\ Cardinality(S) = n
  BY FS_Interval
<1>2. \A x, y \in S : <<x, y>> \in R <=> score[x] > score[y] \/ (score[x] = score[y] /\ x < y)
  <2>1. DOMAIN score = 1..n
    OBVIOUS
  <2>. QED
    BY <2>1 DEF Better
<1>3. \A x \in S : x \in Int /\ score[x] \in Int
  OBVIOUS
<1>4. o = Ordered(S, R)
  BY DEF Rank
<1>. HIDE DEF S, R, o
<1>5. Orders(R, S)
  <2>1. \A x \in S : <<x, x>> \notin R
    BY <1>2, <1>3
  <2>2. \A x, y \in S : x # y => <<x, y>> \in R \/ <<y, x>> \in R
    BY <1>2, <1>3
  <2>3. ASSUME NEW x \in S, NEW y \in S, NEW z \in S, <<x, y>> \in R, <<y, z>> \in R
        PROVE  <<x, z>> \in R
    <3>1. /\ score[x] > score[y] \/ (score[x] = score[y] /\ x < y)
          /\ score[y] > score[z] \/ (score[y] = score[z] /\ y < z)
      BY <1>2, <2>3
    <3>2. score[x] > score[z] \/ (score[x] = score[z] /\ x < z)
      BY <1>3, <3>1
    <3>. QED
      BY <1>2, <3>2
  <2>. QED
    BY <2>1, <2>2, <2>3 DEF Orders
<1>6. /\ o \in [1..n -> S]
      /\ \A i, j \in 1..n : i < j <=> <<o[i], o[j]>> \in R
      /\ \A x \in S : \E i \in 1..n : o[i] = x
  <2>1. /\ Ordered(S, R) \in [1..Cardinality(S) -> S]
        /\ \A i, j \in 1..Cardinality(S) :
             i < j <=> <<Ordered(S, R)[i], Ordered(S, R)[j]>> \in R
        /\ \A x \in S : \E i \in 1..Cardinality(S) : Ordered(S, R)[i] = x
    BY <1>1, <1>5, OrderedForm
  <2>. QED
    BY <1>1, <1>4, <2>1
<1>7. ASSUME NEW i \in 1..n, NEW j \in 1..n, o[i] = o[j] PROVE i = j
  <2>1. o[i] \in S /\ <<o[i], o[i]>> \notin R
    BY <1>5, <1>6 DEF Orders
  <2>2. ~(i < j) /\ ~(j < i)
    BY <1>6, <1>7, <2>1
  <2>. QED
    BY <2>2
<1>. QED
  BY <1>6, <1>7 DEF IsRanking, S, o

Segment(ranked, a, b) == {ranked[i] : i \in a..b}

\* A part of a ranking: its pages, and how many they are at most.
LEMMA PartForm ==
  ASSUME NEW n, NEW ranked, IsRanking(ranked, n), NEW a \in 1..n, NEW b \in 1..n, a <= b
  PROVE  /\ SubSeq(ranked, a, b) \in Seq(1..n)
         /\ Len(SubSeq(ranked, a, b)) = b - a + 1
         /\ \A i \in 1..(b - a + 1) : SubSeq(ranked, a, b)[i] = ranked[a + i - 1]
         /\ ToSet(SubSeq(ranked, a, b)) = Segment(ranked, a, b)
         /\ IsFiniteSet(Segment(ranked, a, b))
         /\ Cardinality(Segment(ranked, a, b)) <= b - a + 1
         /\ Segment(ranked, a, b) \subseteq 1..n
         /\ Segment(ranked, a, b) # {}
<1>. DEFINE s == SubSeq(ranked, a, b)
            T == {ranked[i] : i \in a..b}
<1>1. n \in Nat /\ ranked \in [1..n -> 1..n]
  BY DEF IsRanking
<1>2. /\ s \in Seq(1..n) /\ Len(s) = b - a + 1
      /\ \A i \in 1..(b - a + 1) : s[i] = ranked[a + i - 1]
  <2>1. \A i \in a..b : ranked[i] \in 1..n
    BY <1>1
  <2>2. a \in Int /\ b \in Int /\ a <= b
    BY <1>1
  <2>. QED
    BY <2>1, <2>2, SubSeqProperties
<1>3. DOMAIN s = 1..(b - a + 1)
  BY <1>2, LenProperties
<1>. HIDE DEF s
<1>4. ToSet(s) = T
  <2>1. ASSUME NEW x \in ToSet(s) PROVE x \in T
    <3>1. PICK i \in 1..(b - a + 1) : x = s[i]
      BY <1>3 DEF ToSet
    <3>2. a + i - 1 \in a..b
      BY <1>1
    <3>. QED
      BY <1>2, <3>1, <3>2
  <2>2. ASSUME NEW x \in T PROVE x \in ToSet(s)
    <3>1. PICK i \in a..b : x = ranked[i]
      OBVIOUS
    <3>2. i - a + 1 \in 1..(b - a + 1) /\ a + (i - a + 1) - 1 = i
      BY <1>1
    <3>3. s[i - a + 1] = x
      BY <1>2, <3>1, <3>2
    <3>. QED
      BY <1>3, <3>2, <3>3 DEF ToSet
  <2>. QED
    BY <2>1, <2>2
<1>5. IsFiniteSet(T) /\ Cardinality(T) <= b - a + 1
  <2>1. IsFiniteSet(a..b) /\ Cardinality(a..b) = b - a + 1
    BY <1>1, FS_Interval
  <2>. DEFINE f == [i \in a..b |-> ranked[i]]
  <2>2. f \in Surjection(a..b, T)
    BY DEF Surjection
  <2>. QED
    BY <2>1, <2>2, FS_Surjection
<1>6. T \subseteq 1..n /\ T # {}
  <2>1. a \in a..b /\ \A i \in a..b : i \in 1..n
    BY <1>1
  <2>2. \A i \in a..b : ranked[i] \in 1..n
    BY <1>1, <2>1
  <2>3. ranked[a] \in T
    BY <2>1
  <2>. QED
    BY <2>2, <2>3
<1>7. T = Segment(ranked, a, b)
  BY DEF Segment
<1>. HIDE DEF T
<1>. QED
  BY <1>2, <1>4, <1>5, <1>6, <1>7 DEF s

LEMMA MinOfTwo ==
  ASSUME NEW a \in Int, NEW b \in Int
  PROVE  Min({a, b}) = IF a <= b THEN a ELSE b
<1>. DEFINE m == IF a <= b THEN a ELSE b
<1>1. m \in {a, b} /\ \A y \in {a, b} : m <= y
  OBVIOUS
<1>2. \A x \in {a, b} : (\A y \in {a, b} : x <= y) => x = m
  OBVIOUS
<1>. HIDE DEF m
<1>3. Min({a, b}) = m
  BY <1>1, <1>2 DEF Min
<1>. QED
  BY <1>3 DEF m

LEMMA MaxOfTwo ==
  ASSUME NEW a \in Int, NEW b \in Int
  PROVE  Max({a, b}) = IF a <= b THEN b ELSE a
<1>. DEFINE m == IF a <= b THEN b ELSE a
<1>1. m \in {a, b} /\ \A y \in {a, b} : m >= y
  OBVIOUS
<1>2. \A x \in {a, b} : (\A y \in {a, b} : x >= y) => x = m
  OBVIOUS
<1>. HIDE DEF m
<1>3. Max({a, b}) = m
  BY <1>1, <1>2 DEF Max
<1>. QED
  BY <1>3 DEF m

\* The best pages of a ranking.
Size(k, n) == IF k <= n THEN k ELSE n

LEMMA TopForm ==
  ASSUME NEW n, NEW ranked, IsRanking(ranked, n), NEW k \in Nat, 0 < k
  PROVE  /\ n \in Nat /\ Len(ranked) = n /\ ranked \in [1..n -> 1..n]
         /\ Size(k, n) \in 1..n /\ 1 \in 1..n /\ 1 <= Size(k, n) /\ Size(k, n) <= k
         /\ Top(ranked, k) = SubSeq(ranked, 1, Size(k, n))
         /\ Top(ranked, k) \in [1..Size(k, n) -> 1..n]
         /\ ToSet(Top(ranked, k)) = Segment(ranked, 1, Size(k, n))
         /\ \A i \in 1..Size(k, n) : Top(ranked, k)[i] = ranked[i]
<1>1. n \in Nat \ {0} /\ Len(ranked) = n
  BY FunctionIsSeq DEF IsRanking
<1>2. Min({k, n}) = IF k <= n THEN k ELSE n
  BY <1>1, MinOfTwo
<1>3. Top(ranked, k) = SubSeq(ranked, 1, Min({k, n}))
  BY <1>1 DEF Top
<1>4. Size(k, n) \in 1..n /\ 1 \in 1..n /\ 1 <= Size(k, n) /\ Size(k, n) <= k
  BY <1>1 DEF Size
<1>5. Top(ranked, k) = SubSeq(ranked, 1, Size(k, n))
  BY <1>2, <1>3 DEF Size
<1>6. /\ SubSeq(ranked, 1, Size(k, n)) \in Seq(1..n)
      /\ Len(SubSeq(ranked, 1, Size(k, n))) = Size(k, n) - 1 + 1
      /\ \A i \in 1..(Size(k, n) - 1 + 1) : SubSeq(ranked, 1, Size(k, n))[i] = ranked[1 + i - 1]
      /\ ToSet(SubSeq(ranked, 1, Size(k, n))) = Segment(ranked, 1, Size(k, n))
  BY <1>4, PartForm
<1>7. Size(k, n) - 1 + 1 = Size(k, n) /\ \A i \in 1..Size(k, n) : 1 + i - 1 = i
  BY <1>4
<1>8. SubSeq(ranked, 1, Size(k, n)) \in [1..Size(k, n) -> 1..n]
  BY <1>6, <1>7, LenProperties
<1>9. ranked \in [1..n -> 1..n]
  BY DEF IsRanking
<1>. QED
  BY <1>1, <1>4, <1>5, <1>6, <1>7, <1>8, <1>9

\* What the reader may be shown at once.
PageWindows(n) == {v \in SUBSET (1..n) : v # {} /\ Cardinality(v) <= Batch}

\* A page, the one before it and the one after it.
LEMMA NeighboursForm ==
  ASSUME NEW n \in Nat \ {0}, NEW p \in 1..n
  PROVE  Neighbours(p, n) \in PageWindows(n)
<1>. DEFINE a == IF 1 <= p - 1 THEN p - 1 ELSE 1
            b == IF n <= p + 1 THEN n ELSE p + 1
<1>1. Neighbours(p, n) = a..b
  BY MinOfTwo, MaxOfTwo DEF Neighbours
<1>2. a \in Int /\ b \in Int /\ 1 <= a /\ b <= n /\ a <= p /\ p <= b /\ b - a + 1 <= 3
  OBVIOUS
<1>. HIDE DEF a, b
<1>3. Cardinality(a..b) = b - a + 1
  BY <1>2, FS_Interval
<1>4. a..b \subseteq 1..n /\ p \in a..b
  BY <1>2
<1>5. b - a + 1 <= Batch
  BY <1>2 DEF Batch
<1>6. a..b # {}
  BY <1>4
<1>. QED
  BY <1>1, <1>3, <1>4, <1>5, <1>6 DEF PageWindows

\* The items of one sequence after another.
LEMMA ConcatItems ==
  ASSUME NEW S, NEW s \in Seq(S), NEW t \in Seq(S)
  PROVE  s \o t \in Seq(S) /\ ToSet(s \o t) = ToSet(s) \cup ToSet(t)
<1>. DEFINE u == s \o t
<1>1. /\ Len(s) \in Nat /\ DOMAIN s = 1..Len(s)
      /\ Len(t) \in Nat /\ DOMAIN t = 1..Len(t)
  BY LenProperties
<1>2. /\ u \in Seq(S) /\ Len(u) = Len(s) + Len(t)
      /\ \A i \in 1..(Len(s) + Len(t)) : u[i] = IF i <= Len(s) THEN s[i] ELSE t[i - Len(s)]
  BY ConcatProperties
<1>3. DOMAIN u = 1..(Len(s) + Len(t))
  BY <1>2, LenProperties
<1>. HIDE DEF u
<1>4. ASSUME NEW x \in ToSet(u) PROVE x \in ToSet(s) \cup ToSet(t)
  <2>1. PICK i \in 1..(Len(s) + Len(t)) : x = u[i]
    BY <1>3 DEF ToSet
  <2>2. CASE i <= Len(s)
    <3>1. i \in 1..Len(s)
      BY <1>1, <2>2
    <3>. QED
      BY <1>1, <1>2, <2>1, <2>2, <3>1 DEF ToSet
  <2>3. CASE ~(i <= Len(s))
    <3>1. i - Len(s) \in 1..Len(t)
      BY <1>1, <2>3
    <3>. QED
      BY <1>1, <1>2, <2>1, <2>3, <3>1 DEF ToSet
  <2>. QED
    BY <2>2, <2>3
<1>5. ASSUME NEW x \in ToSet(s) PROVE x \in ToSet(u)
  <2>1. PICK i \in 1..Len(s) : x = s[i]
    BY <1>1 DEF ToSet
  <2>2. i \in 1..(Len(s) + Len(t)) /\ i <= Len(s)
    BY <1>1
  <2>. QED
    BY <1>2, <1>3, <2>1, <2>2 DEF ToSet
<1>6. ASSUME NEW x \in ToSet(t) PROVE x \in ToSet(u)
  <2>1. PICK i \in 1..Len(t) : x = t[i]
    BY <1>1 DEF ToSet
  <2>2. Len(s) + i \in 1..(Len(s) + Len(t)) /\ ~(Len(s) + i <= Len(s)) /\ (Len(s) + i) - Len(s) = i
    BY <1>1
  <2>3. u[Len(s) + i] = x
    BY <1>2, <2>1, <2>2
  <2>. QED
    BY <1>3, <2>2, <2>3 DEF ToSet
<1>. QED
  BY <1>2, <1>4, <1>5, <1>6 DEF u

\* The four parts of the candidates, and the items of each.
LEMMA FirstCandidate ==
  ASSUME NEW n, NEW ranked, IsRanking(ranked, n)
  PROVE  /\ <<ToSet(Top(ranked, Batch))>> \in Seq(PageWindows(n))
         /\ ToSet(<<ToSet(Top(ranked, Batch))>>) = {ToSet(Top(ranked, Batch))}
<1>. DEFINE m == Size(Batch, n)
            T == ToSet(Top(ranked, Batch))
            U == Segment(ranked, 1, m)
<1>1. Batch \in Nat /\ 0 < Batch
  BY DEF Batch
<1>2. T = U /\ m \in 1..n /\ 1 \in 1..n /\ 1 <= m /\ m <= Batch /\ n \in Nat
  BY <1>1, TopForm
<1>. HIDE DEF m, T
<1>3. Cardinality(U) <= m - 1 + 1 /\ U \subseteq 1..n /\ U # {} /\ IsFiniteSet(U)
  BY <1>2, PartForm
<1>. HIDE DEF U
<1>4. Cardinality(U) \in Nat
  BY <1>3, FS_CardinalityType
<1>5. Cardinality(U) <= Batch
  BY <1>1, <1>2, <1>3, <1>4
<1>6. T \in PageWindows(n)
  BY <1>2, <1>3, <1>5 DEF PageWindows
<1>. QED
  BY <1>6 DEF T, ToSet

LEMMA NeighbourCandidates ==
  ASSUME NEW n, NEW ranked, IsRanking(ranked, n)
  PROVE  [i \in DOMAIN Top(ranked, 2) |-> Neighbours(ranked[i], Len(ranked))] \in Seq(PageWindows(n))
<1>. DEFINE m == Size(2, n)
            s == [i \in DOMAIN Top(ranked, 2) |-> Neighbours(ranked[i], Len(ranked))]
<1>1. /\ m \in 1..n /\ n \in Nat \ {0} /\ Len(ranked) = n /\ ranked \in [1..n -> 1..n]
      /\ DOMAIN Top(ranked, 2) = 1..m
  <2>1. /\ m \in 1..n /\ n \in Nat /\ 1 \in 1..n /\ Len(ranked) = n /\ ranked \in [1..n -> 1..n]
        /\ Top(ranked, 2) \in [1..m -> 1..n]
    BY 0 < 2, 2 \in Nat, TopForm
  <2>. HIDE DEF m
  <2>2. DOMAIN Top(ranked, 2) = 1..m
    BY <2>1
  <2>3. n \in Nat \ {0}
    BY <2>1
  <2>. QED
    BY <2>1, <2>2, <2>3
<1>. HIDE DEF m
<1>2. ASSUME NEW i \in 1..m PROVE Neighbours(ranked[i], n) \in PageWindows(n)
  <2>1. ranked[i] \in 1..n
    BY <1>1
  <2>. QED
    BY <1>1, <2>1, NeighboursForm
<1>3. s = [i \in 1..m |-> Neighbours(ranked[i], n)]
  BY <1>1
<1>. HIDE DEF s
<1>4. s \in [1..m -> PageWindows(n)] /\ m \in Nat
  BY <1>1, <1>2, <1>3
<1>. QED
  BY <1>4, FunctionIsSeq DEF s

LEMMA SingleCandidates ==
  ASSUME NEW n, NEW ranked, IsRanking(ranked, n)
  PROVE  /\ Singles(Top(ranked, Batch)) \in Seq(PageWindows(n))
         /\ \A p \in ToSet(Top(ranked, Batch)) : {p} \in ToSet(Singles(Top(ranked, Batch)))
<1>. DEFINE m == Size(Batch, n)
            t == Top(ranked, Batch)
            s == Singles(t)
<1>1. m \in 1..n /\ n \in Nat /\ t \in [1..m -> 1..n]
  <2>1. Batch \in Nat /\ 0 < Batch
    BY DEF Batch
  <2>. QED
    BY <2>1, TopForm
<1>. HIDE DEF m, t
<1>2. s = [i \in 1..m |-> {t[i]}]
  BY <1>1 DEF Singles
<1>. HIDE DEF s
<1>3. ASSUME NEW p \in 1..n PROVE {p} \in PageWindows(n)
  <2>1. Cardinality({p}) = 1
    BY FS_Singleton
  <2>2. Cardinality({p}) <= Batch
    BY <2>1 DEF Batch
  <2>3. {p} \subseteq 1..n /\ {p} # {}
    OBVIOUS
  <2>. QED
    BY <2>2, <2>3 DEF PageWindows
<1>4. s \in [1..m -> PageWindows(n)] /\ m \in Nat
  <2>1. \A i \in 1..m : {t[i]} \in PageWindows(n)
    BY <1>1, <1>3
  <2>. QED
    BY <1>1, <1>2, <2>1
<1>5. s \in Seq(PageWindows(n)) /\ DOMAIN s = 1..m
  BY <1>4, FunctionIsSeq
<1>6. ASSUME NEW p \in ToSet(t) PROVE {p} \in ToSet(s)
  <2>1. PICK i \in 1..m : p = t[i]
    BY <1>1 DEF ToSet
  <2>2. s[i] = {p}
    BY <1>2, <2>1
  <2>. QED
    BY <1>5, <2>2 DEF ToSet
<1>. QED
  BY <1>5, <1>6 DEF s, t

\* The batches hold whatever is not among the best.
LEMMA BatchCandidates ==
  ASSUME NEW n, NEW ranked, IsRanking(ranked, n)
  PROVE  /\ Batches(ranked) \in Seq(PageWindows(n))
         /\ \A k \in 1..n : k > Batch => \E v \in ToSet(Batches(ranked)) : ranked[k] \in v
<1>. DEFINE s == Batches(ranked)
            m == (n - 1) \div 4
            a(i) == 4 * i + 1
            b(i) == IF 4 * (i + 1) <= n THEN 4 * (i + 1) ELSE n
<1>1. n \in Nat \ {0} /\ Len(ranked) = n
  BY FunctionIsSeq DEF IsRanking
<1>2. m \in Nat /\ \A i \in 1..m : a(i) \in 1..n /\ b(i) \in a(i)..n /\ b(i) - a(i) + 1 <= 4
  BY <1>1
<1>3. s = [i \in 1..m |-> ToSet(SubSeq(ranked, a(i), b(i)))]
  <2>1. \A i \in 1..m : Min({4 * (i + 1), n}) = b(i)
    BY <1>1, MinOfTwo
  <2>. QED
    BY <1>1, <2>1 DEF Batches, Batch
<1>. HIDE DEF s, a, b, m
<1>4. ASSUME NEW i \in 1..m
      PROVE  /\ s[i] \in PageWindows(n)
             /\ \A k \in a(i)..b(i) : ranked[k] \in s[i]
  <2>. DEFINE T == Segment(ranked, a(i), b(i))
  <2>1. /\ s[i] = T
        /\ Cardinality(T) <= b(i) - a(i) + 1
        /\ T \subseteq 1..n
        /\ T # {}
        /\ IsFiniteSet(T)
    <3>1. a(i) \in 1..n /\ b(i) \in 1..n /\ a(i) <= b(i)
      BY <1>1, <1>2
    <3>2. s[i] = ToSet(SubSeq(ranked, a(i), b(i)))
      BY <1>3
    <3>. QED
      BY <3>1, <3>2, PartForm
  <2>2. \A k \in a(i)..b(i) : ranked[k] \in T
    BY DEF Segment
  <2>. HIDE DEF T
  <2>3. Cardinality(T) <= 4
    <3>1. Cardinality(T) \in Nat
      BY <2>1, FS_CardinalityType
    <3>2. b(i) - a(i) + 1 <= 4 /\ a(i) \in Int /\ b(i) \in Int
      BY <1>1, <1>2
    <3>. QED
      BY <2>1, <3>1, <3>2
  <2>4. T \in PageWindows(n)
    BY <2>1, <2>3 DEF PageWindows, Batch
  <2>. QED
    BY <2>1, <2>2, <2>4
<1>5. s \in [1..m -> PageWindows(n)]
  BY <1>3, <1>4
<1>6. s \in Seq(PageWindows(n)) /\ DOMAIN s = 1..m
  BY <1>2, <1>5, FunctionIsSeq
<1>7. ASSUME NEW k \in 1..n, k > Batch PROVE \E v \in ToSet(s) : ranked[k] \in v
  <2>. DEFINE i == (k - 1) \div 4
  <2>1. i \in 1..m /\ k \in a(i)..b(i)
    BY <1>1, <1>7 DEF Batch, a, b, m
  <2>. HIDE DEF i
  <2>2. s[i] \in ToSet(s) /\ ranked[k] \in s[i]
    BY <1>4, <1>6, <2>1 DEF ToSet
  <2>. QED
    BY <2>2
<1>. QED
  BY <1>6, <1>7 DEF s

LEMMA HeadOfConcat ==
  ASSUME NEW S, NEW s \in Seq(S), NEW t \in Seq(S), 1 <= Len(s)
  PROVE  /\ s \o t \in Seq(S) /\ ToSet(s \o t) = ToSet(s) \cup ToSet(t)
         /\ Len(s \o t) \in Nat /\ 1 <= Len(s \o t) /\ (s \o t)[1] = s[1]
<1>1. Len(s) \in Nat /\ Len(t) \in Nat
  BY LenProperties
<1>2. /\ Len(s \o t) = Len(s) + Len(t)
      /\ \A i \in 1..(Len(s) + Len(t)) : (s \o t)[i] = IF i <= Len(s) THEN s[i] ELSE t[i - Len(s)]
  BY ConcatProperties
<1>3. 1 \in 1..(Len(s) + Len(t))
  BY <1>1
<1>. QED
  BY <1>1, <1>2, <1>3, ConcatItems

\* All candidates: what the reader may be shown, the best first together and
\* each alone, and every page somewhere.
LEMMA CandidatesForm ==
  ASSUME NEW n, NEW ranked, IsRanking(ranked, n)
  PROVE  /\ Candidates(ranked) \in Seq(PageWindows(n))
         /\ Candidates(ranked) # << >>
         /\ Candidates(ranked)[1] = ToSet(Top(ranked, Batch))
         /\ \A p \in ToSet(Top(ranked, Batch)) : {p} \in ToSet(Candidates(ranked))
         /\ \A p \in 1..n : \E v \in ToSet(Candidates(ranked)) : p \in v
<1>. DEFINE T  == ToSet(Top(ranked, Batch))
            s1 == <<T>>
            s2 == [i \in DOMAIN Top(ranked, 2) |-> Neighbours(ranked[i], Len(ranked))]
            s3 == Singles(Top(ranked, Batch))
            s4 == Batches(ranked)
            c  == Candidates(ranked)
            W  == PageWindows(n)
<1>1. s1 \in Seq(W) /\ ToSet(s1) = {T} /\ Len(s1) = 1 /\ s1[1] = T
  BY FirstCandidate
<1>2. s2 \in Seq(W)
  BY NeighbourCandidates
<1>3. s3 \in Seq(W) /\ \A p \in T : {p} \in ToSet(s3)
  BY SingleCandidates
<1>4. s4 \in Seq(W) /\ \A k \in 1..n : k > Batch => \E v \in ToSet(s4) : ranked[k] \in v
  BY BatchCandidates
<1>. DEFINE s12  == s1 \o s2
            s123 == s12 \o s3
<1>5. c = s123 \o s4
  BY DEF Candidates
<1>6. /\ n \in Nat /\ T = Segment(ranked, 1, Size(Batch, n))
      /\ \A p \in 1..n : \E i \in 1..n : ranked[i] = p
  <2>1. Batch \in Nat /\ 0 < Batch
    BY DEF Batch
  <2>. QED
    BY <2>1, TopForm DEF IsRanking
<1>. HIDE DEF s1, s2, s3, s4, c, T, W
<1>7. /\ s12 \in Seq(W) /\ ToSet(s12) = ToSet(s1) \cup ToSet(s2)
      /\ Len(s12) \in Nat /\ 1 <= Len(s12) /\ s12[1] = T
  <2>1. 1 <= Len(s1)
    BY <1>1
  <2>2. /\ s1 \o s2 \in Seq(W) /\ ToSet(s1 \o s2) = ToSet(s1) \cup ToSet(s2)
        /\ Len(s1 \o s2) \in Nat /\ 1 <= Len(s1 \o s2) /\ (s1 \o s2)[1] = s1[1]
    <3>1. s1 \in Seq(W)
      BY <1>1
    <3>. QED
      BY <1>2, <2>1, <3>1, HeadOfConcat
  <2>. QED
    BY <1>1, <2>2
<1>. HIDE DEF s12
<1>8. /\ s123 \in Seq(W) /\ ToSet(s123) = ToSet(s12) \cup ToSet(s3)
      /\ Len(s123) \in Nat /\ 1 <= Len(s123) /\ s123[1] = T
  BY <1>3, <1>7, HeadOfConcat
<1>. HIDE DEF s123
<1>9. /\ c \in Seq(W) /\ ToSet(c) = ToSet(s123) \cup ToSet(s4)
      /\ Len(c) \in Nat /\ 1 <= Len(c) /\ c[1] = T
  BY <1>4, <1>5, <1>8, HeadOfConcat
<1>10. c # << >> /\ \A v : v \in ToSet(s1) \/ v \in ToSet(s3) \/ v \in ToSet(s4) => v \in ToSet(c)
  BY <1>7, <1>8, <1>9, EmptySeq
<1>11. ASSUME NEW p \in 1..n PROVE \E v \in ToSet(c) : p \in v
  <2>1. PICK k \in 1..n : ranked[k] = p
    BY <1>6
  <2>2. CASE k > Batch
    BY <1>4, <1>10, <2>1, <2>2
  <2>3. CASE ~(k > Batch)
    <3>1. k \in 1..Size(Batch, n)
      BY <1>6, <2>3 DEF Size, Batch
    <3>2. p \in T
      BY <1>6, <2>1, <3>1 DEF Segment
    <3>. QED
      BY <1>1, <1>10, <3>2
  <2>. QED
    BY <2>2, <2>3
<1>. QED
  BY <1>3, <1>9, <1>10, <1>11 DEF c, T, W

\* For a document of any length and any ranking of its pages, the search looks
\* at every page, in windows that one request can carry, none of them twice,
\* the four best pages first together and later each alone
\* (recovery.py, page_search_order).
THEOREM EverySearchIsComplete ==
  ASSUME NEW n, NEW ranked, IsRanking(ranked, n)
  PROVE  /\ SearchOrder(ranked) \in Seq(PageWindows(n))
         /\ CoversPages(ranked)
         /\ IsCompleteSearch(SearchOrder(ranked), ranked)
<1>. DEFINE c == Candidates(ranked)
            w == SearchOrder(ranked)
            W == PageWindows(n)
            T == ToSet(Top(ranked, Batch))
<1>1. /\ c \in Seq(W) /\ c # << >> /\ c[1] = T
      /\ \A p \in T : {p} \in ToSet(c)
      /\ \A p \in 1..n : \E v \in ToSet(c) : p \in v
  BY CandidatesForm
<1>2. w = Distinct(c)
  BY DEF SearchOrder
<1>. HIDE DEF c, w, T
<1>3. w \in Seq(W) /\ ToSet(w) = ToSet(c) /\ IsInjective(w) /\ w[1] = T
  BY <1>1, <1>2, DistinctForm
<1>. HIDE DEF W
<1>4. \A v \in ToSet(w) : v \in W
  BY <1>3, LenProperties DEF ToSet
<1>5. \A v \in W : v \subseteq 1..n /\ v # {} /\ Cardinality(v) <= Batch
  BY DEF PageWindows, W
<1>7. ToSet(ranked) = 1..n /\ Len(ranked) = n
  <2>1. ranked \in [1..n -> 1..n] /\ n \in Nat /\ \A p \in 1..n : \E i \in 1..n : ranked[i] = p
    BY DEF IsRanking
  <2>2. DOMAIN ranked = 1..n /\ Len(ranked) = n
    BY <2>1, FunctionIsSeq
  <2>. QED
    BY <2>1, <2>2 DEF ToSet
<1>8. UNION ToSet(w) = 1..n
  <2>1. ASSUME NEW p \in 1..n PROVE p \in UNION ToSet(w)
    BY <1>1, <1>3
  <2>2. ASSUME NEW p \in UNION ToSet(w) PROVE p \in 1..n
    BY <1>4, <1>5
  <2>. QED
    BY <2>1, <2>2
<1>9. IsCompleteSearch(w, ranked)
  <2>1. w[1] = SelectPages(ranked, Batch)
    BY <1>3 DEF SelectPages, T
  <2>2. \A p \in w[1] : {p} \in ToSet(w)
    BY <1>1, <1>3
  <2>3. \A v \in ToSet(w) : v # {} /\ Cardinality(v) <= Batch
    BY <1>4, <1>5
  <2>. QED
    BY <1>3, <1>7, <1>8, <2>1, <2>2, <2>3 DEF IsCompleteSearch
<1>. QED
  BY <1>3, <1>7, <1>9 DEF CoversPages, w, W
-----------------------------------------------------------------------------
(***************************************************************************)
(* The invariant.  Once a run is past OCR, what it shows of a page is what *)
(* is saved of it, for good; so all runs agree on the windows and on what  *)
(* an attempt is named for.  There is one attempt for each name, and its   *)
(* response never changes.  Hence what a run has tried of a question, what *)
(* it found no window to be enough for, and what it decided on, holds for  *)
(* every run.                                                              *)
(***************************************************************************)
Full(c) == None \notin {c[p] : p \in PageSet}

OneOfEachAttempt == \A s, t \in attempts : s.question = t.question /\ s.context = t.context => s = t

\* Window j of the search, and whether it was tried for q and was not enough.
Excerpt(j)  == [p \in Windows[ocr][j] |-> ocr[p]]
Tried(q, j) == \E s \in attempts : s.question = q /\ s.context = Excerpt(j) /\ ~Complete(s)
Hopeless(q) == Full(ocr) /\ \A j \in 1..Len(Windows[ocr]) : Tried(q, j)

FirstComplete(q) ==
  /\ decision[q] \in attempts /\ Complete(decision[q]) /\ decision[q].question = q
  /\ Full(ocr)
  /\ \E i \in 1..Len(Windows[ocr]) :
       decision[q].context = Excerpt(i) /\ \A j \in 1..(i - 1) : Tried(q, j)

Asking    == {"window", "predict", "save", "decide"}
Holding   == {"save", "decide"}
Exporting == {"csv", "manifest", "copycsv", "copymanifest", "receipt"}
Reporting == {"report", "writereport", "export"} \cup Exporting

\* The pages a run has read are the ones that are saved.
Reading(r) ==
  /\ \A p \in PageSet : mem[r].context[p] # None => mem[r].context[p] = ocr[p]
  /\ pc[r] \in Active \ {"ocr"} => Full(mem[r].context)
  /\ pc[r] = "ocr" => mem[r].asked = {}
  /\ pc[r] \in Ended => mem[r] = Nothing

\* What it has found out about the questions behind it ...
Finding(r) ==
  /\ \A q \in Failed : mem[r].recovered[q] # None => mem[r].recovered[q] = decision[q]
  /\ \A q \in mem[r].asked : mem[r].recovered[q] = None => Hopeless(q)
  /\ pc[r] \in Reporting => mem[r].asked = Failed

\* ... and about the one it is at.
Searching(r) ==
  /\ pc[r] \in Asking => /\ mem[r].asked # Failed
                         /\ mem[r].at \in 1..(Len(Windows[ocr]) + 1)
                         /\ \A j \in 1..(mem[r].at - 1) : Tried(question(r), j)
  /\ pc[r] \in Asking \ {"window"} => mem[r].at \in 1..Len(Windows[ocr])
  /\ pc[r] \in Holding => /\ mem[r].saved # None
                          /\ mem[r].saved.question = question(r)
                          /\ mem[r].saved.context = Excerpt(mem[r].at)
  /\ pc[r] = "predict" => mem[r].calls < MaxCalls
  /\ pc[r] = "decide" => mem[r].saved \in attempts /\ Complete(mem[r].saved)

\* The report is what every run finds that comes to its end.
ReportStands ==
  report # None => \A q \in Failed : IF q \in report.unresolved THEN Hopeless(q) ELSE decision[q] # None

SearchInv == /\ SearchTypes
             /\ OneOfEachAttempt
             /\ \A q \in Failed : decision[q] # None => FirstComplete(q)
             /\ \A r \in Runs : Reading(r) /\ Finding(r) /\ Searching(r)
             /\ ReportStands

\* From the export on.
Publishing(r) ==
  /\ pc[r] \in Exporting => Unresolved(r) = {}
  /\ pc[r] \in Exporting \ {"csv"} => Exported(r) \in csvs
  /\ pc[r] \in {"copycsv", "copymanifest", "receipt"} => Exported(r) \in manifests
  /\ pc[r] \in {"copymanifest", "receipt"} => current[r].csv = Exported(r)
  /\ pc[r] = "receipt" => current[r].manifest = Exported(r)

ExportInv == /\ SearchInv
             /\ ExportTypes
             /\ ExportIsWhole
             /\ \A r \in Runs : Publishing(r)
             /\ NoDeadEnd

-----------------------------------------------------------------------------
\* What the invariant says of a run is about durable objects that only grow.
Grows == /\ \A p \in PageSet : ocr[p] # None => ocr'[p] = ocr[p]
         /\ attempts \subseteq attempts'
         /\ \A q \in Failed : decision[q] # None => decision'[q] = decision[q]
         /\ report # None => report' = report

OthersRest(r) == \A t \in Runs \ {r} : pc'[t] = pc[t] /\ mem'[t] = mem[t]

LEMMA FailedIsFinite == IsFiniteSet(Failed) /\ Failed \subseteq Int
<1>1. /\ Len(Order) \in Nat /\ DOMAIN Order = 1..Len(Order)
      /\ Order \in [1..Len(Order) -> Nat]
  BY RecoveryAssumption, LenProperties
<1>2. Order \in Surjection(1..Len(Order), ToSet(Order))
  BY <1>1 DEF Surjection, ToSet
<1>3. IsFiniteSet(1..Len(Order))
  BY <1>1, FS_Interval
<1>4. IsFiniteSet(ToSet(Order))
  BY <1>2, <1>3, FS_Surjection
<1>5. Failed \in SUBSET ToSet(Order) /\ ToSet(Order) \subseteq Int
  BY <1>1 DEF Failed, Questions, ToSet
<1>. QED
  BY <1>4, <1>5, FS_Subset

LEMMA LeastOpen ==
  ASSUME NEW A \in SUBSET Failed, A # Failed
  PROVE  Min(Failed \ A) \in Failed /\ Min(Failed \ A) \notin A
<1>. DEFINE S == Failed \ A
<1>1. S # {} /\ S \subseteq Int
  BY FailedIsFinite
<1>2. IsFiniteSet(S)
  <2>1. S \in SUBSET Failed
    OBVIOUS
  <2>. QED
    BY <2>1, FailedIsFinite, FS_Subset
<1>. HIDE DEF S
<1>3. \E x \in S : \A y \in S : x <= y
  BY <1>1, <1>2, LeastNumber
<1>4. Min(S) \in S
  BY <1>3 DEF Min
<1>. QED
  BY <1>4 DEF S

\* The windows of a text that OCR may have read.
LEMMA WindowsForm ==
  ASSUME NEW c \in [PageSet -> Texts]
  PROVE  /\ Windows[c] \in Seq(PageWindows(PageCount))
         /\ Len(Windows[c]) \in Nat
         /\ \A j \in 1..Len(Windows[c]) : Windows[c][j] \in PageWindows(PageCount)
<1>. DEFINE n == PageCount
<1>1. n \in Nat \ {0} /\ c \in [1..n -> Int]
  <2>1. n \in Nat \ {0} /\ Texts \subseteq Nat /\ PageSet = 1..n
    BY RecoveryAssumption DEF PageSet
  <2>2. c \in [1..n -> Texts]
    BY <2>1
  <2>. HIDE DEF n
  <2>3. ASSUME NEW i \in 1..n PROVE c[i] \in Int
    <3>1. c[i] \in Texts
      BY <2>2
    <3>2. \A t \in Texts : t \in Int
      BY RecoveryAssumption
    <3>. QED
      BY <3>1, <3>2, Zenon
  <2>. QED
    BY <2>1, <2>2, <2>3
<1>. HIDE DEF n
<1>2. IsRanking(Rank(c), n)
  BY <1>1, RankForm
<1>3. SearchOrder(Rank(c)) \in Seq(PageWindows(n))
  BY <1>2, EverySearchIsComplete
<1>4. Windows[c] = SearchOrder(Rank(c))
  BY DEF Windows
<1>5. Windows[c] \in Seq(PageWindows(n))
  BY <1>3, <1>4
<1>. QED
  BY <1>5, LenProperties DEF n

\* Past OCR a run has all pages, the ones that are saved.
LEMMA PastOcr ==
  ASSUME SearchTypes, NEW r \in Runs, Reading(r), pc[r] \in Active \ {"ocr"}
  PROVE  /\ Full(ocr) /\ ocr \in [PageSet -> Texts]
         /\ mem[r].context = ocr
         /\ windows(r) = Windows[ocr]
         /\ Len(Windows[ocr]) \in Nat
         /\ \A j : shown(r, Windows[ocr][j]) = Excerpt(j)
         /\ \A j \in 1..Len(Windows[ocr]) : Excerpt(j) \in Contexts
<1>1. mem[r].context \in [PageSet -> Texts \cup {None}] /\ ocr \in [PageSet -> Texts \cup {None}]
  BY DEF SearchTypes, Memory
<1>2. \A p \in PageSet : mem[r].context[p] # None
  BY DEF Reading, Full
<1>3. \A p \in PageSet : mem[r].context[p] = ocr[p]
  BY <1>2 DEF Reading
<1>4. mem[r].context = ocr
  BY <1>1, <1>3
<1>5. ocr \in [PageSet -> Texts]
  BY <1>1, <1>2, <1>4
<1>6. \A j : shown(r, Windows[ocr][j]) = Excerpt(j)
  BY <1>4 DEF shown, Excerpt
<1>7. windows(r) = Windows[ocr]
  BY <1>4 DEF windows
<1>8. Full(ocr)
  BY <1>2, <1>4 DEF Full
<1>9. /\ Len(Windows[ocr]) \in Nat
      /\ \A j \in 1..Len(Windows[ocr]) : Windows[ocr][j] \in PageWindows(PageCount)
  BY <1>5, WindowsForm
<1>10. ASSUME NEW j \in 1..Len(Windows[ocr]) PROVE Excerpt(j) \in Contexts
  <2>1. Windows[ocr][j] \in (SUBSET PageSet) \ {{}}
    <3>1. Windows[ocr][j] \in PageWindows(PageCount)
      BY <1>9
    <3>2. \A v \in PageWindows(PageCount) : v \subseteq PageSet /\ v # {}
      BY DEF PageWindows, PageSet
    <3>3. Windows[ocr][j] \subseteq PageSet /\ Windows[ocr][j] # {}
      BY <3>1, <3>2
    <3>. QED
      BY <3>3
  <2>2. Excerpt(j) \in [Windows[ocr][j] -> Texts]
    BY <1>5, <2>1 DEF Excerpt
  <2>. QED
    BY <2>1, <2>2 DEF Contexts
<1>. QED
  BY <1>4, <1>5, <1>6, <1>7, <1>8, <1>9, <1>10

\* What was found out about a question stays found out.
LEMMA FoundStays ==
  ASSUME SearchTypes, SearchTypes', Grows
  PROVE  /\ Full(ocr) => ocr' = ocr /\ Full(ocr)' /\ \A j : Excerpt(j)' = Excerpt(j)
         /\ \A q, j : Full(ocr) /\ Tried(q, j) => Tried(q, j)'
         /\ \A q : Hopeless(q) => Hopeless(q)'
         /\ \A q \in Failed : decision[q] # None /\ FirstComplete(q) => FirstComplete(q)'
<1>1. ASSUME Full(ocr) PROVE ocr' = ocr /\ Full(ocr)' /\ \A j : Excerpt(j)' = Excerpt(j)
  <2>1. \A p \in PageSet : ocr[p] # None
    BY <1>1 DEF Full
  <2>2. \A p \in PageSet : ocr'[p] = ocr[p]
    BY <2>1 DEF Grows
  <2>3. ocr' = ocr
    BY <2>2 DEF SearchTypes
  <2>4. \A j : Excerpt(j)' = Excerpt(j)
    BY <2>3 DEF Excerpt
  <2>. QED
    BY <1>1, <2>3, <2>4 DEF Full
<1>2. ASSUME NEW q, NEW j, Full(ocr), Tried(q, j) PROVE Tried(q, j)'
  BY <1>1, <1>2 DEF Tried, Grows
<1>3. ASSUME NEW q, Hopeless(q) PROVE Hopeless(q)'
  BY <1>1, <1>2, <1>3 DEF Hopeless
<1>4. ASSUME NEW q \in Failed, decision[q] # None, FirstComplete(q) PROVE FirstComplete(q)'
  <2>1. decision'[q] = decision[q] /\ decision'[q] \in attempts'
    BY <1>4 DEF FirstComplete, Grows
  <2>2. Full(ocr)
    BY <1>4 DEF FirstComplete
  <2>. QED
    BY <1>1, <1>2, <1>4, <2>1, <2>2 DEF FirstComplete
<1>. QED
  BY <1>1, <1>2, <1>3, <1>4

\* A run that rests keeps its part of the invariant.
LEMMA RestingRun ==
  ASSUME SearchTypes, SearchTypes', Grows, NEW t \in Runs, pc'[t] = pc[t], mem'[t] = mem[t],
         Reading(t), Finding(t), Searching(t)
  PROVE  Reading(t)' /\ Finding(t)' /\ Searching(t)'
<1>1. Reading(t)'
  <2>1. ASSUME NEW p \in PageSet, mem[t].context[p] # None PROVE ocr'[p] = mem[t].context[p]
    <3>1. mem[t].context[p] = ocr[p]
      BY <2>1 DEF Reading
    <3>. QED
      BY <2>1, <3>1 DEF Grows
  <2>. QED
    BY <2>1 DEF Reading, Full
<1>2. Finding(t)'
  <2>1. ASSUME NEW q \in Failed, mem[t].recovered[q] # None PROVE mem[t].recovered[q] = decision'[q]
    <3>1. mem[t].recovered[q] = decision[q]
      BY <2>1 DEF Finding
    <3>. QED
      BY <2>1, <3>1 DEF Grows
  <2>2. \A q \in mem[t].asked : mem[t].recovered[q] = None => Hopeless(q)'
    BY FoundStays DEF Finding
  <2>. QED
    BY <2>1, <2>2 DEF Finding
<1>3. Searching(t)'
  <2>1. CASE pc[t] \in Asking
    <3>1. Full(ocr)
      BY <2>1, PastOcr DEF Asking, Active
    <3>2. ocr' = ocr /\ (\A j : Excerpt(j)' = Excerpt(j)) /\ \A q, j : Tried(q, j) => Tried(q, j)'
      BY <3>1, FoundStays
    <3>3. question(t)' = question(t)
      BY DEF question
    <3>4. attempts \subseteq attempts'
      BY DEF Grows
    <3>5. /\ mem[t].asked # Failed
          /\ mem[t].at \in 1..(Len(Windows[ocr']) + 1)
          /\ \A j \in 1..(mem[t].at - 1) : Tried(question(t), j)'
      <4>1. /\ mem[t].asked # Failed
            /\ mem[t].at \in 1..(Len(Windows[ocr]) + 1)
            /\ \A j \in 1..(mem[t].at - 1) : Tried(question(t), j)
        BY <2>1 DEF Searching
      <4>2. ASSUME NEW j \in 1..(mem[t].at - 1) PROVE Tried(question(t), j)'
        <5>1. Tried(question(t), j)
          BY <4>1
        <5>2. Tried(question(t), j)'
          BY <3>2, <3>3, <5>1 DEF Tried, Grows
        <5>. QED
          BY <5>2
      <4>. QED
        BY <3>2, <4>1, <4>2
    <3>6. pc[t] \in Asking \ {"window"} => mem[t].at \in 1..Len(Windows[ocr'])
      BY <3>2 DEF Searching
    <3>7. pc[t] \in Holding => /\ mem[t].saved # None
                               /\ mem[t].saved.question = question(t)
                               /\ mem[t].saved.context = Excerpt(mem[t].at)'
      BY <3>2 DEF Searching
    <3>8. /\ pc[t] = "predict" => mem[t].calls < MaxCalls
          /\ pc[t] = "decide" => mem[t].saved \in attempts' /\ Complete(mem[t].saved)
      BY <3>4 DEF Searching
    <3>. HIDE DEF Tried, Excerpt
    <3>. QED
      BY <3>3, <3>5, <3>6, <3>7, <3>8 DEF Searching
  <2>2. CASE pc[t] \notin Asking
    BY <2>2 DEF Searching, Asking, Holding
  <2>. QED
    BY <2>1, <2>2
<1>. QED
  BY <1>1, <1>2, <1>3

\* The step of one run.
LEMMA StepOfOne ==
  ASSUME SearchInv, NEW r \in Runs, SearchTypes', Grows, OthersRest(r),
         Reading(r)' /\ Finding(r)' /\ Searching(r)', OneOfEachAttempt',
         \A q \in Failed : decision[q] = None /\ decision'[q] # None => FirstComplete(q)',
         report = None => ReportStands'
  PROVE  SearchInv'
<1>1. ASSUME NEW t \in Runs PROVE Reading(t)' /\ Finding(t)' /\ Searching(t)'
  <2>1. CASE t = r
    BY <2>1
  <2>2. CASE t # r
    <3>1. pc'[t] = pc[t] /\ mem'[t] = mem[t]
      BY <2>2 DEF OthersRest
    <3>. QED
      BY <3>1, RestingRun DEF SearchInv
  <2>. QED
    BY <2>1, <2>2
<1>2. ASSUME NEW q \in Failed, decision'[q] # None PROVE FirstComplete(q)'
  <2>1. CASE decision[q] = None
    BY <1>2, <2>1
  <2>2. CASE decision[q] # None
    BY <2>2, FoundStays DEF SearchInv
  <2>. QED
    BY <2>1, <2>2
<1>3. ReportStands'
  <2>1. CASE report = None
    BY <2>1
  <2>2. CASE report # None
    <3>1. report' = report
      BY <2>2 DEF Grows
    <3>2. ASSUME NEW q \in Failed
          PROVE  IF q \in report'.unresolved THEN Hopeless(q)' ELSE decision'[q] # None
      <4>1. IF q \in report.unresolved THEN Hopeless(q) ELSE decision[q] # None
        BY <2>2 DEF SearchInv, ReportStands
      <4>2. Hopeless(q) => Hopeless(q)'
        BY FoundStays DEF SearchInv
      <4>3. decision[q] # None => decision'[q] # None
        BY DEF Grows
      <4>. QED
        BY <3>1, <4>1, <4>2, <4>3
    <3>. QED
      BY <3>2 DEF ReportStands
  <2>. QED
    BY <2>1, <2>2
<1>. QED
  BY <1>1, <1>2, <1>3 DEF SearchInv

\* The step of one run that changes nothing durable.
LEMMA StepInMemory ==
  ASSUME SearchInv, NEW r \in Runs, UNCHANGED <<ocr, attempts, decision, report>>,
         pc' \in [Runs -> Ended \cup Active], mem' \in [Runs -> Memory], OthersRest(r),
         Reading(r)' /\ Finding(r)' /\ Searching(r)'
  PROVE  SearchInv'
<1>1. SearchTypes' /\ Grows
  BY DEF SearchInv, SearchTypes, Grows
<1>2. OneOfEachAttempt'
  BY DEF SearchInv, OneOfEachAttempt
<1>3. \A q \in Failed : decision[q] = None /\ decision'[q] # None => FirstComplete(q)'
  OBVIOUS
<1>4. report = None => ReportStands'
  BY DEF ReportStands
<1>. QED
  BY <1>1, <1>2, <1>3, <1>4, StepOfOne

\* The end of a run.
LEMMA EndOfRun ==
  ASSUME SearchTypes, NEW r \in Runs, NEW l \in Ended, End(r, l)
  PROVE  /\ pc' \in [Runs -> Ended \cup Active] /\ mem' \in [Runs -> Memory] /\ OthersRest(r)
         /\ Reading(r)' /\ Finding(r)' /\ Searching(r)'
<1>1. pc' = [pc EXCEPT ![r] = l] /\ mem' = [mem EXCEPT ![r] = Nothing]
  BY DEF End, Goto
<1>2. pc \in [Runs -> Ended \cup Active] /\ mem \in [Runs -> Memory]
  BY DEF SearchTypes
<1>3. Nothing \in Memory
  BY RecoveryAssumption DEF Nothing, Memory
<1>4. pc' \in [Runs -> Ended \cup Active] /\ mem' \in [Runs -> Memory] /\ OthersRest(r)
  BY <1>1, <1>2, <1>3 DEF OthersRest
<1>5. pc'[r] \in Ended /\ mem'[r] = Nothing
  BY <1>1, <1>2
<1>6. pc'[r] \notin Active
  BY <1>5 DEF Ended, Active
<1>7. Reading(r)'
  BY <1>5, <1>6 DEF Reading, Nothing, Active
<1>8. Finding(r)'
  BY <1>5, <1>6 DEF Finding, Nothing, Reporting, Exporting, Active
<1>9. Searching(r)'
  BY <1>6 DEF Searching, Asking, Holding, Active
<1>. QED
  BY <1>4, <1>7, <1>8, <1>9

\* What is made of the answer to the window a run is at.
LEMMA JudgedRun ==
  ASSUME SearchInv, NEW r \in Runs, UNCHANGED <<ocr, decision, report>>,
         attempts \subseteq attempts', attempts' \subseteq Records,
         pc[r] \in {"window", "save"}, mem[r].at \in 1..Len(Windows[ocr]),
         NEW s \in attempts', s.question = question(r), s.context = Excerpt(mem[r].at), Judge(r, s)
  PROVE  /\ SearchTypes' /\ Grows /\ OthersRest(r)
         /\ Reading(r)' /\ Finding(r)' /\ Searching(r)'
<1>. DEFINE m == mem[r]
<1>1. SearchTypes /\ Reading(r) /\ Finding(r) /\ Searching(r)
  BY DEF SearchInv
<1>2. /\ pc \in [Runs -> Ended \cup Active] /\ mem \in [Runs -> Memory] /\ m \in Memory
      /\ pc[r] \in Active \ {"ocr"} /\ pc[r] \in Asking /\ s \in Records
  BY <1>1 DEF SearchTypes, Active, Asking
<1>3. ASSUME pc' \in [Runs -> Ended \cup Active], mem' \in [Runs -> Memory]
      PROVE  SearchTypes' /\ Grows
  BY <1>1, <1>3 DEF SearchTypes, Grows
<1>4. CASE ~Fits(r, s)
  <2>1. End(r, "failed") /\ "failed" \in Ended
    BY <1>4 DEF Judge, Ended
  <2>. QED
    BY <1>1, <1>3, <2>1, EndOfRun
<1>5. CASE Fits(r, s) /\ Complete(s)
  <2>1. pc' = [pc EXCEPT ![r] = "decide"] /\ mem' = [mem EXCEPT ![r].saved = s]
    BY <1>5 DEF Judge, Goto
  <2>2. /\ pc'[r] = "decide"
        /\ mem'[r] = [m EXCEPT !.saved = s]
        /\ \A t \in Runs \ {r} : pc'[t] = pc[t] /\ mem'[t] = mem[t]
    BY <1>2, <2>1
  <2>3. /\ mem'[r].context = m.context /\ mem'[r].asked = m.asked /\ mem'[r].recovered = m.recovered
        /\ mem'[r].at = m.at /\ mem'[r].saved = s
    BY <1>2, <2>2 DEF Memory
  <2>4. mem'[r] \in Memory
    BY <1>2, <2>2 DEF Memory
  <2>5. pc' \in [Runs -> Ended \cup Active] /\ mem' \in [Runs -> Memory]
    BY <1>2, <2>1, <2>2, <2>4 DEF Active
  <2>6. SearchTypes' /\ Grows
    BY <1>3, <2>5
  <2>7. Reading(r)'
    BY <1>1, <1>2, <2>2, <2>3 DEF Reading, Full, Ended
  <2>8. Finding(r)'
    <3>1. \A q : Hopeless(q) => Hopeless(q)'
      BY <1>1, <2>6, FoundStays
    <3>. QED
      BY <1>1, <2>2, <2>3, <3>1 DEF Finding, Reporting, Exporting
  <2>9. Searching(r)'
    <3>1. Full(ocr) /\ (\A j : Excerpt(j)' = Excerpt(j)) /\ question(r)' = question(r)
      BY <1>1, <1>2, <2>3, <2>6, FoundStays, PastOcr DEF question
    <3>2. m.asked # Failed /\ \A j \in 1..(m.at - 1) : Tried(question(r), j)
      BY <1>1, <1>2 DEF Searching
    <3>3. \A j \in 1..(m.at - 1) : Tried(question(r), j)'
      BY <1>1, <2>6, <3>1, <3>2, FoundStays
    <3>4. s # None
      BY <1>2, NoneAssumption
    <3>5. /\ mem'[r].asked # Failed
          /\ mem'[r].at \in 1..Len(Windows[ocr'])
          /\ mem'[r].at \in 1..(Len(Windows[ocr']) + 1)
          /\ \A j \in 1..(mem'[r].at - 1) : Tried(question(r), j)'
      <4>1. Len(Windows[ocr]) \in Nat
        BY <1>1, <1>2, PastOcr
      <4>. QED
        BY <2>3, <3>2, <3>3, <4>1
    <3>6. /\ mem'[r].saved # None
          /\ mem'[r].saved.question = question(r)'
          /\ mem'[r].saved.context = Excerpt(mem[r].at)'
          /\ mem'[r].saved \in attempts' /\ Complete(mem'[r].saved)
      BY <1>5, <2>3, <3>1, <3>4 DEF Excerpt
    <3>. QED
      BY <2>2, <3>5, <3>6 DEF Searching
  <2>. QED
    BY <2>2, <2>6, <2>7, <2>8, <2>9 DEF OthersRest
<1>6. CASE Fits(r, s) /\ ~Complete(s)
  <2>1. pc' = [pc EXCEPT ![r] = "window"] /\ mem' = [mem EXCEPT ![r].saved = None, ![r].at = @ + 1]
    BY <1>6 DEF Judge, Goto
  <2>2. /\ pc'[r] = "window"
        /\ mem'[r] = [m EXCEPT !.saved = None, !.at = @ + 1]
        /\ \A t \in Runs \ {r} : pc'[t] = pc[t] /\ mem'[t] = mem[t]
    BY <1>2, <2>1
  <2>3. /\ mem'[r].context = m.context /\ mem'[r].asked = m.asked /\ mem'[r].recovered = m.recovered
        /\ mem'[r].at = m.at + 1 /\ m.at \in Nat
    BY <1>2, <2>2 DEF Memory
  <2>4. mem'[r] \in Memory
    <3>1. m.at + 1 \in Nat /\ None \in Records \cup {None}
      BY <2>3
    <3>2. mem'[r] = [[m EXCEPT !.saved = None] EXCEPT !.at = m.at + 1]
      BY <1>2, <2>2 DEF Memory
    <3>3. [m EXCEPT !.saved = None] \in Memory
      BY <1>2, <3>1 DEF Memory
    <3>. QED
      BY <3>1, <3>2, <3>3 DEF Memory
  <2>5. pc' \in [Runs -> Ended \cup Active] /\ mem' \in [Runs -> Memory]
    BY <1>2, <2>1, <2>2, <2>4 DEF Active
  <2>6. SearchTypes' /\ Grows
    BY <1>3, <2>5
  <2>7. Reading(r)'
    BY <1>1, <1>2, <2>2, <2>3 DEF Reading, Full, Ended
  <2>8. Finding(r)'
    <3>1. \A q : Hopeless(q) => Hopeless(q)'
      BY <1>1, <2>6, FoundStays
    <3>. QED
      BY <1>1, <2>2, <2>3, <3>1 DEF Finding, Reporting, Exporting
  <2>9. Searching(r)'
    <3>1. Full(ocr) /\ (\A j : Excerpt(j)' = Excerpt(j)) /\ question(r)' = question(r)
      BY <1>1, <1>2, <2>3, <2>6, FoundStays, PastOcr DEF question
    <3>2. m.asked # Failed /\ \A j \in 1..(m.at - 1) : Tried(question(r), j)
      BY <1>1, <1>2 DEF Searching
    <3>3. ASSUME NEW j \in 1..m.at PROVE Tried(question(r), j)'
      <4>1. CASE j = m.at
        BY <1>6, <3>1, <4>1 DEF Tried
      <4>2. CASE j # m.at
        <5>1. j \in 1..(m.at - 1)
          BY <2>3, <4>2
        <5>. QED
          BY <1>1, <2>6, <3>1, <3>2, <5>1, FoundStays
      <4>. QED
        BY <4>1, <4>2
    <3>4. Len(Windows[ocr]) \in Nat
      BY <1>1, <1>2, PastOcr
    <3>5. mem'[r].at \in 1..(Len(Windows[ocr']) + 1) /\ mem'[r].at - 1 = m.at
      BY <2>3, <3>4
    <3>. QED
      BY <2>2, <2>3, <3>2, <3>3, <3>5 DEF Searching, Asking, Holding
  <2>. QED
    BY <2>2, <2>6, <2>7, <2>8, <2>9 DEF OthersRest
<1>. QED
  BY <1>4, <1>5, <1>6

\* Each action keeps the invariant.
LEMMA StartKeeps ==
  ASSUME SearchInv, NEW r \in Runs, Start(r)
  PROVE  SearchInv'
<1>. DEFINE l == AfterOcr(ocr)
<1>1. /\ pc \in [Runs -> Ended \cup Active] /\ mem \in [Runs -> Memory]
      /\ ocr \in [PageSet -> Texts \cup {None}]
  BY DEF SearchInv, SearchTypes
<1>2. /\ UNCHANGED <<ocr, attempts, decision, report>>
      /\ mem' = [mem EXCEPT ![r] = [Nothing EXCEPT !.context = ocr]] /\ pc' = [pc EXCEPT ![r] = l]
  BY DEF Start, Goto, durable
<1>3. l \in {"ocr", "question"} /\ (l # "ocr" => Full(ocr))
  BY DEF AfterOcr, Full
<1>. HIDE DEF l
<1>4. /\ mem'[r].context = ocr /\ mem'[r].asked = {} /\ mem'[r].recovered = [q \in Failed |-> None]
      /\ mem'[r] \in Memory
  <2>1. mem'[r] = [Nothing EXCEPT !.context = ocr]
    BY <1>1, <1>2
  <2>2. Nothing \in Memory
    BY RecoveryAssumption DEF Nothing, Memory
  <2>3. mem'[r] \in Memory
    BY <1>1, <2>1, <2>2 DEF Memory
  <2>. QED
    BY <2>1, <2>3 DEF Nothing
<1>5. /\ pc'[r] = l /\ pc' \in [Runs -> Ended \cup Active] /\ mem' \in [Runs -> Memory]
      /\ OthersRest(r)
  BY <1>1, <1>2, <1>3, <1>4 DEF OthersRest, Active
<1>6. Reading(r)'
  BY <1>2, <1>3, <1>4, <1>5 DEF Reading, Full, Ended
<1>7. Finding(r)'
  BY <1>3, <1>4, <1>5 DEF Finding, Reporting, Exporting
<1>8. Searching(r)'
  BY <1>3, <1>5 DEF Searching, Asking, Holding
<1>. QED
  BY <1>2, <1>5, <1>6, <1>7, <1>8, StepInMemory

LEMMA EndKeeps ==
  ASSUME SearchInv, NEW r \in Runs, NEW l \in Ended, End(r, l),
         UNCHANGED <<ocr, attempts, decision, report>>
  PROVE  SearchInv'
<1>1. SearchTypes
  BY DEF SearchInv
<1>. QED
  BY <1>1, EndOfRun, StepInMemory

LEMMA ReuseKeeps ==
  ASSUME SearchInv, NEW r \in Runs, Reuse(r)
  PROVE  SearchInv'
<1>1. (End(r, "done") \/ End(r, "failed")) /\ UNCHANGED <<ocr, attempts, decision, report>>
  BY DEF Reuse, durable
<1>2. "done" \in Ended /\ "failed" \in Ended
  BY DEF Ended
<1>. QED
  BY <1>1, <1>2, EndKeeps

LEMMA CrashKeeps ==
  ASSUME SearchInv, NEW r \in Runs, Crash(r)
  PROVE  SearchInv'
<1>1. End(r, "failed") /\ "failed" \in Ended /\ UNCHANGED <<ocr, attempts, decision, report>>
  BY DEF Crash, durable, Ended
<1>. QED
  BY <1>1, EndKeeps

LEMMA OcrPageKeeps ==
  ASSUME SearchInv, NEW r \in Runs, NEW p \in PageSet, NEW t \in Texts, OcrPage(r, p, t)
  PROVE  SearchInv'
<1>1. /\ pc \in [Runs -> Ended \cup Active] /\ mem \in [Runs -> Memory] /\ mem[r] \in Memory
      /\ ocr \in [PageSet -> Texts \cup {None}]
      /\ Reading(r) /\ Finding(r)
  BY DEF SearchInv, SearchTypes
<1>2. UNCHANGED <<attempts, decision, report>> /\ pc[r] = "ocr" /\ mem[r].context[p] = None
  BY DEF OcrPage
<1>3. CASE ocr[p] \notin {None, t}
  <2>1. End(r, "failed") /\ "failed" \in Ended /\ UNCHANGED ocr
    BY <1>3 DEF OcrPage, Ended
  <2>. QED
    BY <1>2, <2>1, EndKeeps
<1>4. CASE ocr[p] \in {None, t}
  <2>. DEFINE c == [mem[r].context EXCEPT ![p] = t]
              l == AfterOcr(c)
  <2>1. /\ ocr' = [ocr EXCEPT ![p] = t] /\ mem' = [mem EXCEPT ![r].context[p] = t]
        /\ pc' = [pc EXCEPT ![r] = AfterOcr(mem'[r].context)]
    BY <1>4 DEF OcrPage, Goto
  <2>2. /\ mem'[r] = [mem[r] EXCEPT !.context = c]
        /\ \A s \in Runs \ {r} : mem'[s] = mem[s]
    BY <1>1, <2>1
  <2>3. mem[r].context \in [PageSet -> Texts \cup {None}] /\ c \in [PageSet -> Texts \cup {None}]
    BY <1>1 DEF Memory
  <2>4. /\ mem'[r].context = c /\ mem'[r].asked = mem[r].asked
        /\ mem'[r].recovered = mem[r].recovered
    BY <1>1, <2>2 DEF Memory
  <2>5. c[p] = t /\ \A x \in PageSet \ {p} : c[x] = mem[r].context[x]
    BY <2>3
  <2>6. l \in {"ocr", "question"} /\ (l # "ocr" => Full(c))
    BY DEF AfterOcr, Full
  <2>. HIDE DEF c, l
  <2>7. mem'[r] \in Memory
    BY <1>1, <2>2, <2>3 DEF Memory
  <2>8. /\ pc'[r] = l /\ pc' \in [Runs -> Ended \cup Active] /\ mem' \in [Runs -> Memory]
        /\ OthersRest(r)
    <3>1. pc' = [pc EXCEPT ![r] = l]
      BY <2>1, <2>4 DEF l
    <3>2. mem' \in [Runs -> Memory]
      BY <1>1, <2>1, <2>2, <2>7
    <3>. QED
      BY <1>1, <2>2, <2>6, <3>1, <3>2 DEF OthersRest, Active
  <2>9. ocr' \in [PageSet -> Texts \cup {None}] /\ \A x \in PageSet : ocr[x] # None => ocr'[x] = ocr[x]
    BY <1>1, <1>4, <2>1
  <2>10. SearchTypes' /\ Grows
    BY <1>2, <2>8, <2>9 DEF SearchInv, SearchTypes, Grows
  <2>11. Reading(r)'
    <3>1. ASSUME NEW x \in PageSet, c[x] # None PROVE c[x] = ocr'[x]
      <4>1. CASE x = p
        BY <1>1, <2>1, <2>5, <4>1
      <4>2. CASE x # p
        BY <1>1, <2>1, <2>5, <3>1, <4>2 DEF Reading
      <4>. QED
        BY <4>1, <4>2
    <3>2. mem[r].asked = {}
      BY <1>1, <1>2 DEF Reading
    <3>. QED
      BY <2>4, <2>6, <2>8, <3>1, <3>2 DEF Reading, Full, Ended
  <2>12. Finding(r)'
    <3>1. mem[r].asked = {}
      BY <1>1, <1>2 DEF Reading
    <3>. QED
      BY <1>1, <1>2, <2>4, <2>6, <2>8, <3>1 DEF Finding, Reporting, Exporting
  <2>13. Searching(r)'
    BY <2>6, <2>8 DEF Searching, Asking, Holding
  <2>14. OneOfEachAttempt'
    BY <1>2 DEF SearchInv, OneOfEachAttempt
  <2>15. report = None => ReportStands'
    BY <1>2 DEF ReportStands
  <2>. QED
    BY <1>2, <2>8, <2>10, <2>11, <2>12, <2>13, <2>14, <2>15, StepOfOne
<1>. QED
  BY <1>3, <1>4

LEMMA NextQuestionKeeps ==
  ASSUME SearchInv, NEW r \in Runs, NextQuestion(r)
  PROVE  SearchInv'
<1>. DEFINE m == mem[r]
            q == question(r)
<1>1. /\ pc \in [Runs -> Ended \cup Active] /\ mem \in [Runs -> Memory] /\ m \in Memory
      /\ decision \in [Failed -> Records \cup {None}]
      /\ SearchTypes /\ Reading(r) /\ Finding(r)
  BY DEF SearchInv, SearchTypes
<1>2. UNCHANGED <<ocr, attempts, decision, report>> /\ pc[r] = "question"
  BY DEF NextQuestion, durable
<1>3. Full(ocr) /\ Len(Windows[ocr]) \in Nat
  BY <1>1, <1>2, PastOcr DEF Active
<1>4. \A i : Hopeless(i) => Hopeless(i)'
  BY <1>2 DEF Hopeless, Full, Tried, Excerpt
<1>5. CASE m.asked = Failed
  <2>1. pc' = [pc EXCEPT ![r] = "report"] /\ UNCHANGED mem
    BY <1>5 DEF NextQuestion, Goto
  <2>2. /\ pc'[r] = "report" /\ mem'[r] = m /\ OthersRest(r)
        /\ pc' \in [Runs -> Ended \cup Active] /\ mem' \in [Runs -> Memory]
    BY <1>1, <2>1 DEF OthersRest, Active
  <2>3. Reading(r)'
    BY <1>1, <1>2, <2>2 DEF Reading, Full, Active, Ended
  <2>4. Finding(r)'
    BY <1>1, <1>2, <1>4, <1>5, <2>2 DEF Finding
  <2>5. Searching(r)'
    BY <2>2 DEF Searching, Asking, Holding
  <2>. QED
    BY <1>2, <2>2, <2>3, <2>4, <2>5, StepInMemory
<1>6. CASE m.asked # Failed /\ decision[q] = None
  <2>1. pc' = [pc EXCEPT ![r] = "window"] /\ mem' = [mem EXCEPT ![r].at = 1]
    BY <1>6 DEF NextQuestion, Goto
  <2>2. mem'[r] = [m EXCEPT !.at = 1]
    BY <1>1, <2>1
  <2>3. /\ mem'[r].context = m.context /\ mem'[r].asked = m.asked /\ mem'[r].recovered = m.recovered
        /\ mem'[r].at = 1 /\ mem'[r] \in Memory
    <3>1. 1 \in Nat
      OBVIOUS
    <3>2. [m EXCEPT !.at = 1] \in Memory
      BY <1>1, <3>1 DEF Memory
    <3>. QED
      BY <1>1, <2>2, <3>2 DEF Memory
  <2>4. /\ pc'[r] = "window" /\ OthersRest(r)
        /\ pc' \in [Runs -> Ended \cup Active] /\ mem' \in [Runs -> Memory]
    BY <1>1, <2>1, <2>3 DEF OthersRest, Active
  <2>5. Reading(r)'
    BY <1>1, <1>2, <2>3, <2>4 DEF Reading, Full, Active, Ended
  <2>6. Finding(r)'
    BY <1>1, <1>2, <1>4, <2>3, <2>4 DEF Finding, Reporting, Exporting
  <2>7. Searching(r)'
    <3>1. mem'[r].at \in 1..(Len(Windows[ocr']) + 1) /\ 1..(mem'[r].at - 1) = {}
      BY <1>2, <1>3, <2>3
    <3>. QED
      BY <1>6, <2>3, <2>4, <3>1 DEF Searching, Asking, Holding
  <2>. QED
    BY <1>2, <2>4, <2>5, <2>6, <2>7, StepInMemory
<1>7. CASE m.asked # Failed /\ decision[q] # None /\ ~(Fits(r, decision[q]) /\ Complete(decision[q]))
  <2>1. End(r, "failed") /\ "failed" \in Ended
    BY <1>7 DEF NextQuestion, Ended
  <2>. QED
    BY <1>2, <2>1, EndKeeps
<1>8. CASE m.asked # Failed /\ decision[q] # None /\ Fits(r, decision[q]) /\ Complete(decision[q])
  <2>1. /\ UNCHANGED pc
        /\ mem' = [mem EXCEPT ![r].recovered[q] = decision[q], ![r].asked = @ \cup {q}]
    BY <1>8 DEF NextQuestion
  <2>2. q \in Failed /\ m.asked \in SUBSET Failed /\ m.recovered \in [Failed -> Records \cup {None}]
    <3>1. m.asked \in SUBSET Failed /\ m.recovered \in [Failed -> Records \cup {None}]
      BY <1>1 DEF Memory
    <3>. QED
      BY <1>8, <3>1, LeastOpen DEF question
  <2>. DEFINE rec == [m.recovered EXCEPT ![q] = decision[q]]
              ask == m.asked \cup {q}
  <2>3. mem'[r] = [[m EXCEPT !.recovered = rec] EXCEPT !.asked = ask]
    BY <1>1, <2>1 DEF Memory
  <2>4. rec \in [Failed -> Records \cup {None}] /\ ask \in SUBSET Failed
    BY <1>1, <2>2
  <2>5. rec[q] = decision[q] /\ \A i \in Failed \ {q} : rec[i] = m.recovered[i]
    BY <2>2
  <2>. HIDE DEF rec
  <2>6. /\ mem'[r].context = m.context /\ mem'[r].asked = ask /\ mem'[r].recovered = rec
        /\ mem'[r] \in Memory
    BY <1>1, <2>3, <2>4 DEF Memory
  <2>7. /\ pc'[r] = "question" /\ OthersRest(r)
        /\ pc' \in [Runs -> Ended \cup Active] /\ mem' \in [Runs -> Memory]
    BY <1>1, <1>2, <2>1, <2>6 DEF OthersRest, Active
  <2>8. Reading(r)'
    BY <1>1, <1>2, <2>6, <2>7 DEF Reading, Full, Active, Ended
  <2>9. Finding(r)'
    <3>1. ASSUME NEW i \in Failed, rec[i] # None PROVE rec[i] = decision[i]
      BY <1>1, <2>5, <3>1 DEF Finding
    <3>2. ASSUME NEW i \in ask, rec[i] = None PROVE Hopeless(i)'
      <4>1. i # q
        BY <1>8, <2>5, <3>2
      <4>2. i \in m.asked /\ m.recovered[i] = None
        BY <2>2, <2>5, <3>2, <4>1
      <4>. QED
        BY <1>1, <1>4, <4>2 DEF Finding
    <3>3. decision' = decision
      BY <1>2
    <3>. HIDE DEF ask
    <3>. QED
      BY <2>6, <2>7, <3>1, <3>2, <3>3 DEF Finding, Reporting, Exporting
  <2>10. Searching(r)'
    BY <2>7 DEF Searching, Asking, Holding
  <2>. QED
    BY <1>2, <2>7, <2>8, <2>9, <2>10, StepInMemory
<1>. QED
  BY <1>5, <1>6, <1>7, <1>8

\* A question that no window is enough for.
LEMMA ExhaustedKeeps ==
  ASSUME SearchInv, NEW r \in Runs, NextWindow(r), mem[r].at > Len(windows(r))
  PROVE  SearchInv'
<1>. DEFINE m == mem[r]
            q == question(r)
            ask == m.asked \cup {q}
<1>1. /\ pc \in [Runs -> Ended \cup Active] /\ mem \in [Runs -> Memory] /\ m \in Memory
      /\ SearchTypes /\ Reading(r) /\ Finding(r) /\ Searching(r)
  BY DEF SearchInv, SearchTypes
<1>2. UNCHANGED <<ocr, attempts, decision, report>> /\ pc[r] = "window"
  BY DEF NextWindow, durable
<1>3. /\ pc' = [pc EXCEPT ![r] = "question"]
      /\ mem' = [mem EXCEPT ![r].asked = @ \cup {question(r)}, ![r].at = 0]
  BY DEF NextWindow, Goto
<1>4. Full(ocr) /\ Len(Windows[ocr]) \in Nat /\ windows(r) = Windows[ocr]
  BY <1>1, <1>2, PastOcr DEF Active
<1>5. /\ m.asked # Failed /\ m.at \in 1..(Len(Windows[ocr]) + 1)
      /\ \A j \in 1..(m.at - 1) : Tried(q, j)
  BY <1>1, <1>2 DEF Searching, Asking
<1>6. Hopeless(q)
  <2>1. m.at - 1 = Len(Windows[ocr])
    BY <1>4, <1>5
  <2>. QED
    BY <1>4, <1>5, <2>1 DEF Hopeless
<1>7. \A i : Hopeless(i) => Hopeless(i)'
  BY <1>2 DEF Hopeless, Full, Tried, Excerpt
<1>8. ask \in SUBSET Failed
  <2>1. m.asked \in SUBSET Failed
    BY <1>1 DEF Memory
  <2>. QED
    BY <1>5, <2>1, LeastOpen DEF question
<1>9. mem'[r] = [[m EXCEPT !.asked = ask] EXCEPT !.at = 0]
  BY <1>1, <1>3 DEF Memory
<1>10. /\ mem'[r].context = m.context /\ mem'[r].asked = ask /\ mem'[r].recovered = m.recovered
       /\ mem'[r] \in Memory
  <2>1. 0 \in Nat
    OBVIOUS
  <2>2. [m EXCEPT !.asked = ask] \in Memory
    BY <1>1, <1>8 DEF Memory
  <2>3. [[m EXCEPT !.asked = ask] EXCEPT !.at = 0] \in Memory
    BY <2>1, <2>2 DEF Memory
  <2>. QED
    BY <1>1, <1>9, <2>3 DEF Memory
<1>11. /\ pc'[r] = "question" /\ OthersRest(r)
       /\ pc' \in [Runs -> Ended \cup Active] /\ mem' \in [Runs -> Memory]
  BY <1>1, <1>3, <1>10 DEF OthersRest, Active
<1>12. Reading(r)'
  BY <1>1, <1>2, <1>10, <1>11 DEF Reading, Full, Active, Ended
<1>13. Finding(r)'
  <2>1. ASSUME NEW i \in ask, m.recovered[i] = None PROVE Hopeless(i)'
    <3>1. Hopeless(i)
      BY <1>1, <1>6, <2>1 DEF Finding
    <3>. QED
      BY <1>7, <3>1
  <2>. HIDE DEF ask
  <2>. QED
    BY <1>1, <1>2, <1>10, <1>11, <2>1 DEF Finding, Reporting, Exporting
<1>14. Searching(r)'
  BY <1>11 DEF Searching, Asking, Holding
<1>. QED
  BY <1>2, <1>11, <1>12, <1>13, <1>14, StepInMemory

LEMMA NextWindowKeeps ==
  ASSUME SearchInv, NEW r \in Runs, NextWindow(r)
  PROVE  SearchInv'
<1>. DEFINE m == mem[r]
            q == question(r)
            old == Saved(q, shown(r, window(r)))
<1>1. /\ pc \in [Runs -> Ended \cup Active] /\ mem \in [Runs -> Memory] /\ m \in Memory
      /\ attempts \subseteq Records
      /\ SearchTypes /\ Reading(r) /\ Finding(r) /\ Searching(r)
  BY DEF SearchInv, SearchTypes
<1>2. UNCHANGED <<ocr, attempts, decision, report>> /\ pc[r] = "window"
  BY DEF NextWindow, durable
<1>3. CASE m.at > Len(windows(r))
  BY <1>3, ExhaustedKeeps
<1>4. CASE ~(m.at > Len(windows(r))) /\ m.calls >= MaxCalls
  <2>1. End(r, "failed") /\ "failed" \in Ended
    BY <1>4 DEF NextWindow, Ended
  <2>. QED
    BY <1>2, <2>1, EndKeeps
<1>5. CASE ~(m.at > Len(windows(r))) /\ ~(m.calls >= MaxCalls)
  <2>1. /\ Full(ocr) /\ Len(Windows[ocr]) \in Nat /\ windows(r) = Windows[ocr]
        /\ \A j : shown(r, Windows[ocr][j]) = Excerpt(j)
    BY <1>1, <1>2, PastOcr DEF Active
  <2>2. /\ m.asked # Failed /\ m.at \in 1..(Len(Windows[ocr]) + 1)
        /\ \A j \in 1..(m.at - 1) : Tried(q, j)
    BY <1>1, <1>2 DEF Searching, Asking
  <2>3. m.at \in 1..Len(Windows[ocr])
    BY <1>5, <2>1, <2>2
  <2>4. shown(r, window(r)) = Excerpt(m.at)
    BY <2>1 DEF window
  <2>5. CASE old = {}
    <3>1. pc' = [pc EXCEPT ![r] = "predict"] /\ UNCHANGED mem
      BY <1>5, <2>5 DEF NextWindow, Goto
    <3>2. /\ pc'[r] = "predict" /\ mem'[r] = m /\ OthersRest(r)
          /\ pc' \in [Runs -> Ended \cup Active] /\ mem' \in [Runs -> Memory]
      BY <1>1, <3>1 DEF OthersRest, Active
    <3>3. Reading(r)'
      BY <1>1, <1>2, <3>2 DEF Reading, Full, Active, Ended
    <3>4. Finding(r)'
      <4>1. \A i : Hopeless(i) => Hopeless(i)'
        BY <1>2 DEF Hopeless, Full, Tried, Excerpt
      <4>. QED
        BY <1>1, <1>2, <3>2, <4>1 DEF Finding, Reporting, Exporting
    <3>5. Searching(r)'
      <4>1. \A i, j : Tried(i, j) => Tried(i, j)'
        BY <1>2 DEF Tried, Excerpt
      <4>2. question(r)' = q
        BY <3>2 DEF question
      <4>3. ASSUME NEW j \in 1..(m.at - 1) PROVE Tried(question(r), j)'
        <5>1. Tried(q, j)
          BY <2>2
        <5>. QED
          BY <1>2, <4>2, <5>1 DEF Tried, Excerpt
      <4>4. m.calls < MaxCalls
        BY <1>1, <1>5, RecoveryAssumption DEF Memory
      <4>. QED
        BY <1>2, <2>2, <2>3, <3>2, <4>3, <4>4 DEF Searching, Asking, Holding
    <3>. QED
      BY <1>2, <3>2, <3>3, <3>4, <3>5, StepInMemory
  <2>6. CASE old # {}
    <3>. DEFINE s == CHOOSE s \in old : TRUE
    <3>1. Judge(r, s)
      BY <1>5, <2>6 DEF NextWindow
    <3>2. s \in attempts /\ s.question = question(r) /\ s.context = Excerpt(m.at)
      <4>1. s \in old
        BY <2>6
      <4>. QED
        BY <2>4, <4>1 DEF Saved
    <3>. HIDE DEF s
    <3>3. /\ attempts \subseteq attempts' /\ attempts' \subseteq Records /\ s \in attempts'
          /\ pc[r] \in {"window", "save"}
      BY <1>1, <1>2, <3>2
    <3>4. /\ SearchTypes' /\ Grows /\ OthersRest(r)
          /\ Reading(r)' /\ Finding(r)' /\ Searching(r)'
      BY <1>2, <2>3, <3>1, <3>2, <3>3, JudgedRun
    <3>5. pc' \in [Runs -> Ended \cup Active] /\ mem' \in [Runs -> Memory]
      BY <3>4 DEF SearchTypes
    <3>. QED
      BY <1>2, <3>4, <3>5, StepInMemory
  <2>. QED
    BY <2>5, <2>6
<1>. QED
  BY <1>3, <1>4, <1>5

LEMMA PredictKeeps ==
  ASSUME SearchInv, NEW r \in Runs, NEW x \in Responses, Predict(r, x)
  PROVE  SearchInv'
<1>. DEFINE m == mem[r]
            s == [question |-> question(r), context |-> shown(r, window(r)), response |-> x]
<1>1. /\ pc \in [Runs -> Ended \cup Active] /\ mem \in [Runs -> Memory] /\ m \in Memory
      /\ SearchTypes /\ Reading(r) /\ Finding(r) /\ Searching(r)
  BY DEF SearchInv, SearchTypes
<1>2. UNCHANGED <<ocr, attempts, decision, report>> /\ pc[r] = "predict"
  BY DEF Predict, durable
<1>3. pc' = [pc EXCEPT ![r] = "save"] /\ mem' = [mem EXCEPT ![r].saved = s, ![r].calls = @ + 1]
  BY DEF Predict, Goto
<1>4. /\ Full(ocr) /\ Len(Windows[ocr]) \in Nat /\ windows(r) = Windows[ocr]
      /\ shown(r, Windows[ocr][m.at]) = Excerpt(m.at)
      /\ \A j \in 1..Len(Windows[ocr]) : Excerpt(j) \in Contexts
  BY <1>1, <1>2, PastOcr DEF Active
<1>5. /\ m.asked # Failed /\ m.at \in 1..(Len(Windows[ocr]) + 1) /\ m.at \in 1..Len(Windows[ocr])
      /\ \A j \in 1..(m.at - 1) : Tried(question(r), j)
  BY <1>1, <1>2 DEF Searching, Asking
<1>6. s.context = Excerpt(m.at) /\ s.question = question(r)
  BY <1>4 DEF window
<1>7. question(r) \in Failed
  <2>1. m.asked \in SUBSET Failed
    BY <1>1 DEF Memory
  <2>. QED
    BY <1>5, <2>1, LeastOpen DEF question
<1>8. s \in Records /\ s # None
  <2>1. s \in Records
    BY <1>4, <1>5, <1>6, <1>7 DEF Records
  <2>. QED
    BY <2>1, NoneAssumption
<1>. HIDE DEF s
<1>9. m.calls + 1 \in 0..MaxCalls
  <2>1. m.calls \in 0..MaxCalls /\ m.calls < MaxCalls /\ MaxCalls \in Nat
    BY <1>1, <1>2, RecoveryAssumption DEF Memory, Searching
  <2>. QED
    BY <2>1
<1>10. mem'[r] = [[m EXCEPT !.saved = s] EXCEPT !.calls = m.calls + 1]
  BY <1>1, <1>3 DEF Memory
<1>11. /\ mem'[r].context = m.context /\ mem'[r].asked = m.asked /\ mem'[r].recovered = m.recovered
       /\ mem'[r].at = m.at /\ mem'[r].saved = s /\ mem'[r] \in Memory
  <2>1. [m EXCEPT !.saved = s] \in Memory
    BY <1>1, <1>8 DEF Memory
  <2>2. [[m EXCEPT !.saved = s] EXCEPT !.calls = m.calls + 1] \in Memory
    BY <1>9, <2>1 DEF Memory
  <2>. QED
    BY <1>1, <1>10, <2>2 DEF Memory
<1>12. /\ pc'[r] = "save" /\ OthersRest(r)
       /\ pc' \in [Runs -> Ended \cup Active] /\ mem' \in [Runs -> Memory]
  BY <1>1, <1>3, <1>11 DEF OthersRest, Active
<1>13. Reading(r)'
  BY <1>1, <1>2, <1>11, <1>12 DEF Reading, Full, Active, Ended
<1>14. Finding(r)'
  <2>1. \A i : Hopeless(i) => Hopeless(i)'
    BY <1>2 DEF Hopeless, Full, Tried, Excerpt
  <2>. QED
    BY <1>1, <1>2, <1>11, <1>12, <2>1 DEF Finding, Reporting, Exporting
<1>15. Searching(r)'
  <2>1. question(r)' = question(r)
    BY <1>11 DEF question
  <2>2. ASSUME NEW j \in 1..(m.at - 1) PROVE Tried(question(r), j)'
    <3>1. Tried(question(r), j)
      BY <1>5
    <3>. QED
      BY <1>2, <2>1, <3>1 DEF Tried, Excerpt
  <2>3. mem'[r].saved.context = Excerpt(mem[r].at)'
    BY <1>2, <1>6, <1>11 DEF Excerpt
  <2>. QED
    BY <1>2, <1>5, <1>6, <1>8, <1>11, <1>12, <2>1, <2>2, <2>3 DEF Searching, Asking, Holding
<1>. QED
  BY <1>2, <1>12, <1>13, <1>14, <1>15, StepInMemory

LEMMA SaveKeeps ==
  ASSUME SearchInv, NEW r \in Runs, Save(r)
  PROVE  SearchInv'
<1>. DEFINE m == mem[r]
            s == m.saved
<1>1. /\ pc \in [Runs -> Ended \cup Active] /\ mem \in [Runs -> Memory] /\ m \in Memory
      /\ attempts \subseteq Records
      /\ SearchTypes /\ Reading(r) /\ Finding(r) /\ Searching(r)
  BY DEF SearchInv, SearchTypes
<1>2. UNCHANGED <<ocr, decision, report>> /\ pc[r] = "save"
  BY DEF Save
<1>3. /\ m.at \in 1..Len(Windows[ocr])
      /\ s # None /\ s.question = question(r) /\ s.context = Excerpt(m.at)
  BY <1>1, <1>2 DEF Searching, Asking, Holding
<1>4. s \in Records
  BY <1>1, <1>3 DEF Memory
<1>. HIDE DEF s
<1>5. CASE Saved(s.question, s.context) # {}
  <2>1. End(r, "failed") /\ "failed" \in Ended /\ UNCHANGED attempts
    BY <1>5 DEF Save, Ended, s
  <2>. QED
    BY <1>2, <2>1, EndKeeps
<1>6. CASE Saved(s.question, s.context) = {}
  <2>1. attempts' = attempts \cup {s} /\ Judge(r, s)
    BY <1>6 DEF Save, s
  <2>2. attempts \subseteq attempts' /\ attempts' \subseteq Records /\ s \in attempts'
    BY <1>1, <1>4, <2>1
  <2>3. /\ SearchTypes' /\ Grows /\ OthersRest(r)
        /\ Reading(r)' /\ Finding(r)' /\ Searching(r)'
    BY <1>2, <1>3, <2>1, <2>2, JudgedRun
  <2>4. OneOfEachAttempt'
    <3>1. ASSUME NEW a \in attempts, a.question = s.question, a.context = s.context PROVE FALSE
      BY <1>6, <3>1 DEF Saved
    <3>2. OneOfEachAttempt
      BY DEF SearchInv
    <3>. QED
      BY <2>1, <3>1, <3>2 DEF OneOfEachAttempt
  <2>5. report = None => ReportStands'
    BY <1>2 DEF ReportStands
  <2>6. \A q \in Failed : decision[q] = None /\ decision'[q] # None => FirstComplete(q)'
    BY <1>2
  <2>. QED
    BY <2>3, <2>4, <2>5, <2>6, StepOfOne
<1>. QED
  BY <1>5, <1>6

LEMMA DecidedForm ==
  ASSUME SearchTypes, SearchTypes', Grows, Full(ocr),
         NEW q, NEW s \in attempts', decision'[q] = s, s.question = q, Complete(s),
         NEW k \in 1..Len(Windows[ocr]), s.context = Excerpt(k),
         \A j \in 1..(k - 1) : Tried(q, j)
  PROVE  FirstComplete(q)'
<1>1. Full(ocr)' /\ ocr' = ocr /\ s.context = Excerpt(k)'
  BY FoundStays
<1>2. \A j \in 1..(k - 1) : Tried(q, j)'
  BY FoundStays
<1>. QED
  BY <1>1, <1>2 DEF FirstComplete

LEMMA DecideKeeps ==
  ASSUME SearchInv, NEW r \in Runs, Decide(r)
  PROVE  SearchInv'
<1>. DEFINE m == mem[r]
            s == m.saved
            q == s.question
<1>1. /\ pc \in [Runs -> Ended \cup Active] /\ mem \in [Runs -> Memory] /\ m \in Memory
      /\ decision \in [Failed -> Records \cup {None}] /\ attempts \subseteq Records
      /\ SearchTypes /\ Reading(r) /\ Finding(r) /\ Searching(r)
  BY DEF SearchInv, SearchTypes
<1>2. UNCHANGED <<ocr, attempts, report>> /\ pc[r] = "decide"
  BY DEF Decide
<1>3. CASE decision[q] \notin {None, s}
  <2>1. End(r, "failed") /\ "failed" \in Ended /\ UNCHANGED decision
    BY <1>3 DEF Decide, Ended
  <2>. QED
    BY <1>2, <2>1, EndKeeps
<1>4. CASE decision[q] \in {None, s}
  <2>1. /\ decision' = [decision EXCEPT ![q] = s]
        /\ mem' = [mem EXCEPT ![r].recovered[q] = s, ![r].asked = @ \cup {q},
                              ![r].saved = None, ![r].at = 0]
        /\ pc' = [pc EXCEPT ![r] = "question"]
    BY <1>4 DEF Decide, Goto
  <2>2. /\ m.at \in 1..Len(Windows[ocr])
        /\ q = question(r) /\ s.context = Excerpt(m.at)
        /\ s \in attempts /\ Complete(s)
        /\ \A j \in 1..(m.at - 1) : Tried(q, j)
    BY <1>1, <1>2 DEF Searching, Asking, Holding
  <2>3. s \in Records /\ s # None
    BY <1>1, <2>2, NoneAssumption
  <2>4. q \in Failed /\ m.asked \in SUBSET Failed /\ m.recovered \in [Failed -> Records \cup {None}]
    BY <1>1, <2>3 DEF Memory, Records
  <2>. DEFINE rec == [m.recovered EXCEPT ![q] = s]
              ask == m.asked \cup {q}
  <2>5. mem'[r] = [[[[m EXCEPT !.recovered = rec] EXCEPT !.asked = ask] EXCEPT !.saved = None] EXCEPT !.at = 0]
    BY <1>1, <2>1 DEF Memory
  <2>6. rec \in [Failed -> Records \cup {None}] /\ ask \in SUBSET Failed
    BY <2>3, <2>4
  <2>7. rec[q] = s /\ \A i \in Failed \ {q} : rec[i] = m.recovered[i]
    BY <2>4
  <2>8. Full(ocr)
    BY <1>1, <1>2, PastOcr DEF Active
  <2>. HIDE DEF rec, s, q, ask
  <2>9. /\ mem'[r].context = m.context /\ mem'[r].asked = ask /\ mem'[r].recovered = rec
        /\ mem'[r] \in Memory
    <3>1. [m EXCEPT !.recovered = rec] \in Memory
      BY <1>1, <2>6 DEF Memory
    <3>2. [[m EXCEPT !.recovered = rec] EXCEPT !.asked = ask] \in Memory
      BY <2>6, <3>1 DEF Memory
    <3>3. [[[m EXCEPT !.recovered = rec] EXCEPT !.asked = ask] EXCEPT !.saved = None] \in Memory
      BY <3>2 DEF Memory
    <3>4. 0 \in Nat
      OBVIOUS
    <3>5. mem'[r] \in Memory
      BY <2>5, <3>3, <3>4 DEF Memory
    <3>. QED
      BY <1>1, <2>5, <3>5 DEF Memory
  <2>10. /\ pc'[r] = "question" /\ OthersRest(r)
         /\ pc' \in [Runs -> Ended \cup Active] /\ mem' \in [Runs -> Memory]
    <3>1. \A t \in Runs \ {r} : mem'[t] = mem[t]
      BY <1>1, <2>1
    <3>2. mem' \in [Runs -> Memory]
      BY <1>1, <2>1, <2>9, <3>1
    <3>. QED
      BY <1>1, <2>1, <3>1, <3>2 DEF OthersRest, Active
  <2>11. /\ decision' \in [Failed -> Records \cup {None}]
         /\ decision'[q] = s /\ \A i \in Failed \ {q} : decision'[i] = decision[i]
    BY <1>1, <2>1, <2>3, <2>4 DEF s, q
  <2>12. SearchTypes'
    BY <1>1, <1>2, <2>10, <2>11 DEF SearchTypes
  <2>13. Grows
    BY <1>2, <1>4, <2>11 DEF Grows, s, q
  <2>14. \A i : Hopeless(i) => Hopeless(i)'
    BY <1>1, <2>12, <2>13, FoundStays
  <2>15. Reading(r)'
    BY <1>1, <1>2, <2>9, <2>10 DEF Reading, Full, Active, Ended
  <2>16. Finding(r)'
    <3>1. ASSUME NEW i \in Failed, rec[i] # None PROVE rec[i] = decision'[i]
      <4>1. CASE i = q
        BY <2>7, <2>11, <4>1
      <4>2. CASE i # q
        BY <1>1, <2>7, <2>11, <3>1, <4>2 DEF Finding
      <4>. QED
        BY <4>1, <4>2
    <3>2. ASSUME NEW i \in ask, rec[i] = None PROVE Hopeless(i)'
      <4>1. i # q
        BY <2>3, <2>7, <3>2
      <4>2. i \in m.asked /\ m.recovered[i] = None
        BY <2>4, <2>7, <3>2, <4>1 DEF ask
      <4>. QED
        BY <1>1, <2>14, <4>2 DEF Finding
    <3>. QED
      BY <2>9, <2>10, <3>1, <3>2 DEF Finding, Reporting, Exporting
  <2>17. Searching(r)'
    BY <2>10 DEF Searching, Asking, Holding
  <2>18. OneOfEachAttempt'
    BY <1>2 DEF SearchInv, OneOfEachAttempt
  <2>19. report = None => ReportStands'
    BY <1>2 DEF ReportStands
  <2>20. ASSUME NEW i \in Failed, decision[i] = None, decision'[i] # None PROVE FirstComplete(i)'
    <3>1. i = q
      BY <2>11, <2>20
    <3>2. /\ decision'[i] = s /\ s \in attempts' /\ s.question = i
          /\ \A j \in 1..(m.at - 1) : Tried(i, j)
      BY <1>2, <2>2, <2>11, <3>1 DEF q
    <3>. QED
      BY <1>1, <2>2, <2>8, <2>12, <2>13, <3>2, DecidedForm
  <2>. QED
    BY <2>10, <2>12, <2>13, <2>15, <2>16, <2>17, <2>18, <2>19, <2>20, StepOfOne
<1>. QED
  BY <1>3, <1>4

\* A run that has been through all questions.
LEMMA ReportingRun ==
  ASSUME SearchTypes, NEW r \in Runs, Reading(r), Finding(r), pc[r] \in Reporting, NEW l \in Reporting,
         pc' = [pc EXCEPT ![r] = l], UNCHANGED <<mem, ocr, attempts, decision>>
  PROVE  /\ pc' \in [Runs -> Ended \cup Active] /\ mem' \in [Runs -> Memory] /\ OthersRest(r)
         /\ Reading(r)' /\ Finding(r)' /\ Searching(r)'
<1>1. /\ pc \in [Runs -> Ended \cup Active] /\ mem \in [Runs -> Memory]
  BY DEF SearchTypes
<1>2. Reporting \subseteq Active \ {"ocr"} /\ Reporting \cap Asking = {} /\ Reporting \cap Ended = {}
  BY DEF Reporting, Exporting, Active, Asking, Ended
<1>. HIDE DEF Reporting
<1>3. /\ pc' \in [Runs -> Ended \cup Active] /\ mem' \in [Runs -> Memory] /\ OthersRest(r)
      /\ pc'[r] = l
  BY <1>1, <1>2 DEF OthersRest
<1>4. Reading(r)'
  BY <1>2, <1>3 DEF Reading, Full
<1>5. Finding(r)'
  BY <1>3 DEF Finding, Hopeless, Full, Tried, Excerpt
<1>6. Searching(r)'
  <2>1. pc'[r] \notin Asking /\ pc'[r] \notin Holding
    BY <1>2, <1>3 DEF Asking, Holding
  <2>. QED
    BY <2>1 DEF Searching, Asking
<1>. QED
  BY <1>3, <1>4, <1>5, <1>6

LEMMA MoveKeeps ==
  ASSUME SearchInv, NEW r \in Runs, pc[r] \in Reporting, NEW l \in Reporting,
         pc' = [pc EXCEPT ![r] = l], UNCHANGED <<mem, ocr, attempts, decision, report>>
  PROVE  SearchInv'
<1>1. SearchTypes /\ Reading(r) /\ Finding(r)
  BY DEF SearchInv
<1>2. /\ pc' \in [Runs -> Ended \cup Active] /\ mem' \in [Runs -> Memory] /\ OthersRest(r)
      /\ Reading(r)' /\ Finding(r)' /\ Searching(r)'
  BY <1>1, ReportingRun
<1>. QED
  BY <1>2, StepInMemory

\* Every run that has been through all questions finds what the report says.
LEMMA ReportAgrees ==
  ASSUME SearchInv, NEW r \in Runs, pc[r] \in Reporting, report # None
  PROVE  report.unresolved = Unresolved(r)
<1>1. /\ SearchTypes /\ Reading(r) /\ Finding(r) /\ OneOfEachAttempt /\ ReportStands
      /\ mem[r].asked = Failed
  BY DEF SearchInv, Finding
<1>2. report.unresolved \in SUBSET Failed
  BY <1>1 DEF SearchTypes
<1>3. \A q \in Failed : ~(Hopeless(q) /\ decision[q] # None)
  <2>. SUFFICES ASSUME NEW q \in Failed, Hopeless(q), decision[q] # None PROVE FALSE
    OBVIOUS
  <2>1. FirstComplete(q)
    BY DEF SearchInv
  <2>2. PICK i \in 1..Len(Windows[ocr]) : decision[q].context = Excerpt(i)
    BY <2>1 DEF FirstComplete
  <2>3. PICK s \in attempts : s.question = q /\ s.context = Excerpt(i) /\ ~Complete(s)
    BY DEF Hopeless, Tried
  <2>4. decision[q] \in attempts /\ decision[q].question = q /\ Complete(decision[q])
    BY <2>1 DEF FirstComplete
  <2>5. s = decision[q]
    BY <1>1, <2>2, <2>3, <2>4 DEF OneOfEachAttempt
  <2>. QED
    BY <2>3, <2>4, <2>5
<1>4. ASSUME NEW q \in Failed PROVE q \in report.unresolved <=> mem[r].recovered[q] = None
  <2>1. mem[r].recovered[q] # None => decision[q] # None
    BY <1>1 DEF Finding
  <2>2. mem[r].recovered[q] = None => Hopeless(q)
    BY <1>1 DEF Finding
  <2>3. IF q \in report.unresolved THEN Hopeless(q) ELSE decision[q] # None
    BY <1>1 DEF ReportStands
  <2>. QED
    BY <1>3, <2>1, <2>2, <2>3
<1>. QED
  BY <1>2, <1>4 DEF Unresolved

LEMMA ReportKeeps ==
  ASSUME SearchInv, NEW r \in Runs, Report(r)
  PROVE  SearchInv' /\ pc'[r] # "disagree"
<1>1. pc[r] = "report" /\ UNCHANGED <<ocr, attempts, decision, report>>
  BY DEF Report, durable
<1>2. pc[r] \in Reporting /\ "writereport" \in Reporting /\ "export" \in Reporting
  BY <1>1 DEF Reporting
<1>3. PICK l \in Reporting : pc' = [pc EXCEPT ![r] = l] /\ UNCHANGED mem
  <2>1. CASE report = None
    BY <1>2, <2>1 DEF Report, Goto
  <2>2. CASE report # None
    BY <1>2, <2>2, ReportAgrees DEF Report, Goto
  <2>. QED
    BY <2>1, <2>2
<1>4. SearchInv'
  BY <1>1, <1>2, <1>3, MoveKeeps
<1>5. pc'[r] = l
  BY <1>3 DEF SearchInv, SearchTypes
<1>. QED
  BY <1>4, <1>5 DEF Reporting, Exporting

LEMMA WriteReportKeeps ==
  ASSUME SearchInv, NEW r \in Runs, WriteReport(r)
  PROVE  SearchInv'
<1>1. /\ SearchTypes /\ Reading(r) /\ Finding(r)
      /\ pc[r] = "writereport" /\ UNCHANGED <<ocr, attempts, decision>>
  BY DEF WriteReport, SearchInv
<1>2. CASE report # None
  <2>1. End(r, "failed") /\ "failed" \in Ended /\ UNCHANGED report
    BY <1>2 DEF WriteReport, Ended
  <2>. QED
    BY <1>1, <2>1, EndKeeps
<1>3. CASE report = None
  <2>1. /\ report' = [unresolved |-> Unresolved(r), by |-> r]
        /\ pc' = [pc EXCEPT ![r] = "export"] /\ UNCHANGED mem
    BY <1>3 DEF WriteReport, Goto
  <2>2. pc[r] \in Reporting /\ "export" \in Reporting
    BY <1>1 DEF Reporting
  <2>3. /\ pc' \in [Runs -> Ended \cup Active] /\ mem' \in [Runs -> Memory] /\ OthersRest(r)
        /\ Reading(r)' /\ Finding(r)' /\ Searching(r)'
    BY <1>1, <2>1, <2>2, ReportingRun
  <2>4. report'.unresolved = Unresolved(r) /\ report' \in [unresolved : SUBSET Failed, by : Runs] \cup {None}
    BY <2>1 DEF Unresolved
  <2>5. SearchTypes' /\ Grows
    BY <1>1, <1>3, <2>3, <2>4 DEF SearchTypes, Grows
  <2>6. OneOfEachAttempt'
    BY <1>1 DEF SearchInv, OneOfEachAttempt
  <2>7. ReportStands'
    <3>1. mem[r].asked = Failed
      BY <1>1, <2>2 DEF Finding
    <3>2. ASSUME NEW q \in Failed
          PROVE  IF q \in report'.unresolved THEN Hopeless(q)' ELSE decision'[q] # None
      <4>1. q \in report'.unresolved <=> mem[r].recovered[q] = None
        BY <2>4 DEF Unresolved
      <4>2. mem[r].recovered[q] = None => Hopeless(q)
        BY <1>1, <3>1 DEF Finding
      <4>3. Hopeless(q) => Hopeless(q)'
        BY <1>1, <2>5, FoundStays
      <4>4. mem[r].recovered[q] # None => decision'[q] # None
        BY <1>1 DEF Finding
      <4>. QED
        BY <4>1, <4>2, <4>3, <4>4
    <3>. QED
      BY <3>2 DEF ReportStands
  <2>8. \A q \in Failed : decision[q] = None /\ decision'[q] # None => FirstComplete(q)'
    BY <1>1
  <2>. QED
    BY <2>3, <2>5, <2>6, <2>7, <2>8, StepOfOne
<1>. QED
  BY <1>2, <1>3

LEMMA ExportKeeps ==
  ASSUME SearchInv, NEW r \in Runs, Export(r)
  PROVE  SearchInv'
<1>1. pc[r] = "export" /\ UNCHANGED <<ocr, attempts, decision, report>>
  BY DEF Export, durable
<1>2. pc[r] \in Reporting /\ "csv" \in Reporting /\ "unresolved" \in Ended /\ "refused" \in Ended
  BY <1>1 DEF Reporting, Exporting, Ended
<1>3. \/ End(r, "unresolved") \/ End(r, "refused")
      \/ pc' = [pc EXCEPT ![r] = "csv"] /\ UNCHANGED mem
  BY DEF Export, Goto
<1>. QED
  BY <1>1, <1>2, <1>3, EndKeeps, MoveKeeps

\* The writes of the export.
Publish(r) == PutCsv(r) \/ PutManifest(r) \/ CopyCsv(r) \/ CopyManifest(r) \/ Receipt(r)

LEMMA PublishKeeps ==
  ASSUME SearchInv, NEW r \in Runs, Publish(r)
  PROVE  SearchInv'
<1>1. pc[r] \in Reporting /\ UNCHANGED <<ocr, attempts, decision, report>>
  BY DEF Publish, PutCsv, PutManifest, CopyCsv, CopyManifest, Receipt, durable, Reporting, Exporting
<1>2. CASE PutCsv(r) \/ PutManifest(r) \/ CopyCsv(r) \/ CopyManifest(r)
  <2>1. \E l \in Reporting : pc' = [pc EXCEPT ![r] = l] /\ UNCHANGED mem
    BY <1>2 DEF PutCsv, PutManifest, CopyCsv, CopyManifest, Goto, Reporting, Exporting
  <2>. QED
    BY <1>1, <2>1, MoveKeeps
<1>3. CASE Receipt(r)
  <2>1. "done" \in Ended /\ "failed" \in Ended /\ (End(r, "done") \/ End(r, "failed"))
    BY <1>3 DEF Receipt, Ended
  <2>. QED
    BY <1>1, <2>1, EndKeeps
<1>. QED
  BY <1>2, <1>3 DEF Publish

-----------------------------------------------------------------------------
LEMMA SearchInit == Init => SearchInv
<1>. SUFFICES ASSUME Init PROVE SearchInv
  OBVIOUS
<1>1. Nothing \in Memory
  BY RecoveryAssumption DEF Nothing, Memory
<1>2. SearchTypes
  BY <1>1 DEF Init, SearchTypes, Ended
<1>3. OneOfEachAttempt /\ ReportStands /\ \A q \in Failed : decision[q] # None => FirstComplete(q)
  BY DEF Init, OneOfEachAttempt, ReportStands
<1>4. ASSUME NEW r \in Runs PROVE Reading(r) /\ Finding(r) /\ Searching(r)
  <2>1. pc[r] = "idle" /\ mem[r] = Nothing
    BY DEF Init
  <2>. QED
    BY <2>1 DEF Reading, Finding, Searching, Nothing, Active, Ended, Reporting, Exporting, Asking, Holding
<1>. QED
  BY <1>2, <1>3, <1>4 DEF SearchInv

LEMMA SearchStep == SearchInv /\ [Next]_vars => SearchInv'
<1>. SUFFICES ASSUME SearchInv, [Next]_vars PROVE SearchInv'
  OBVIOUS
<1>1. CASE UNCHANGED vars
  <2>1. UNCHANGED <<ocr, attempts, decision, report, pc, mem>>
    BY <1>1 DEF vars, durable
  <2>2. SearchTypes' /\ Grows
    BY <2>1 DEF SearchInv, SearchTypes, Grows
  <2>3. ASSUME NEW r \in Runs PROVE Reading(r)' /\ Finding(r)' /\ Searching(r)'
    BY <2>1, <2>2, RestingRun DEF SearchInv
  <2>4. OneOfEachAttempt'
    BY <2>1 DEF SearchInv, OneOfEachAttempt
  <2>5. \A q \in Failed : decision'[q] # None => FirstComplete(q)'
    BY <2>1, <2>2, FoundStays DEF SearchInv
  <2>6. ReportStands'
    <3>1. \A q : Hopeless(q) => Hopeless(q)'
      BY <2>2, FoundStays DEF SearchInv
    <3>. QED
      BY <2>1, <3>1 DEF SearchInv, ReportStands
  <2>. QED
    BY <2>2, <2>3, <2>4, <2>5, <2>6 DEF SearchInv
<1>2. ASSUME NEW r \in Runs, Step(r) PROVE SearchInv'
  <2>1. CASE Start(r)
    BY <2>1, StartKeeps
  <2>2. CASE Reuse(r)
    BY <2>2, ReuseKeeps
  <2>3. CASE \E p \in PageSet, t \in Texts : OcrPage(r, p, t)
    BY <2>3, OcrPageKeeps
  <2>4. CASE NextQuestion(r)
    BY <2>4, NextQuestionKeeps
  <2>5. CASE NextWindow(r)
    BY <2>5, NextWindowKeeps
  <2>6. CASE \E x \in Responses : Predict(r, x)
    BY <2>6, PredictKeeps
  <2>7. CASE Save(r)
    BY <2>7, SaveKeeps
  <2>8. CASE Decide(r)
    BY <2>8, DecideKeeps
  <2>9. CASE Report(r)
    BY <2>9, ReportKeeps
  <2>10. CASE WriteReport(r)
    BY <2>10, WriteReportKeeps
  <2>11. CASE Export(r)
    BY <2>11, ExportKeeps
  <2>12. CASE Publish(r)
    BY <2>12, PublishKeeps
  <2>. QED
    BY <1>2, <2>1, <2>2, <2>3, <2>4, <2>5, <2>6, <2>7, <2>8, <2>9, <2>10, <2>11, <2>12
    DEF Step, Publish
<1>3. ASSUME NEW r \in Runs, Crash(r) PROVE SearchInv'
  BY <1>3, CrashKeeps
<1>. QED
  BY <1>1, <1>2, <1>3 DEF Next

\* "First complete non-abstaining answer in the fixed page-search order": for
\* any number of runs, pages and questions, and any reader, whatever the runs
\* did before and however they ended (recovery.py, recover_question).
THEOREM DecidedOnTheFirst == Spec => []DecisionIsFirstComplete
<1>1. SearchInv => DecisionIsFirstComplete
  <2>. SUFFICES ASSUME SearchInv, NEW q \in Failed, decision[q] # None
                PROVE  /\ decision[q] \in attempts /\ Complete(decision[q])
                       /\ None \notin ToSet(ocr)
                       /\ \E i \in DOMAIN Windows[ocr] :
                            /\ decision[q].context = [p \in Windows[ocr][i] |-> ocr[p]]
                            /\ \A j \in 1..(i - 1) :
                                 \E s \in Saved(q, [p \in Windows[ocr][j] |-> ocr[p]]) : ~Complete(s)
    BY DEF DecisionIsFirstComplete
  <2>1. FirstComplete(q)
    BY DEF SearchInv
  <2>2. ocr \in [PageSet -> Texts]
    BY <2>1 DEF FirstComplete, Full, SearchInv, SearchTypes
  <2>3. None \notin ToSet(ocr)
    BY <2>2, NoneAssumption DEF ToSet
  <2>4. DOMAIN Windows[ocr] = 1..Len(Windows[ocr])
    BY <2>2, WindowsForm, LenProperties
  <2>5. PICK i \in 1..Len(Windows[ocr]) :
           decision[q].context = Excerpt(i) /\ \A j \in 1..(i - 1) : Tried(q, j)
    BY <2>1 DEF FirstComplete
  <2>6. ASSUME NEW j \in 1..(i - 1)
        PROVE  \E s \in Saved(q, [p \in Windows[ocr][j] |-> ocr[p]]) : ~Complete(s)
    BY <2>5 DEF Tried, Saved, Excerpt
  <2>. QED
    BY <2>1, <2>3, <2>4, <2>5, <2>6 DEF FirstComplete, Excerpt
<1>. QED
  BY <1>1, SearchInit, SearchStep, PTL DEF Spec

-----------------------------------------------------------------------------
(***************************************************************************)
(* The export.  What a complete answer is made of passes every check of    *)
(* the submission, so that a run which has found all answers is never      *)
(* refused; and its rows are those of any other run.                       *)
(***************************************************************************)
LEMMA NonBlankForm ==
  ASSUME NEW items \in Seq(STRING)
  PROVE  /\ NonBlank(items) \in Seq(STRING)
         /\ \A k \in DOMAIN NonBlank(items) : NonBlank(items)[k] # Blank
<1>. DEFINE S == {i \in DOMAIN items : items[i] # Blank}
            a == Ascending(S)
            n == Cardinality(S)
            k == NonBlank(items)
<1>1. Len(items) \in Nat /\ DOMAIN items = 1..Len(items) /\ \A i \in 1..Len(items) : items[i] \in STRING
  BY LenProperties
<1>2. IsFiniteSet(S) /\ S \subseteq Int
  <2>1. S \in SUBSET (1..Len(items)) /\ IsFiniteSet(1..Len(items))
    BY <1>1, FS_Interval
  <2>2. S \subseteq Int
    BY <1>1
  <2>. QED
    BY <2>1, <2>2, FS_Subset
<1>3. n \in Nat /\ a \in [1..n -> S]
  BY <1>2, AscendingForm
<1>4. k = [i \in 1..n |-> items[a[i]]]
  BY <1>3 DEF NonBlank
<1>5. \A x \in S : items[x] \in STRING /\ items[x] # Blank
  BY <1>1
<1>. HIDE DEF S, a, n, k
<1>6. k \in [1..n -> STRING] /\ \A i \in 1..n : k[i] # Blank
  BY <1>3, <1>4, <1>5
<1>7. k \in Seq(STRING) /\ DOMAIN k = 1..n
  BY <1>3, <1>6, FunctionIsSeq
<1>. QED
  BY <1>6, <1>7 DEF k

Answers == Responses \cup {Base[q] : q \in Questions}

\* What counts as complete passes _answer and _pages.
LEMMA CompleteFits ==
  ASSUME NEW x \in Answers, NEW f \in Formats, NEW allowed \in SUBSET PageSet,
         CompleteAnswer(Prediction(x, f, allowed), f)
  PROVE  /\ Prediction(x, f, allowed).answer \in Seq(STRING)
         /\ AnswerFits(Prediction(x, f, allowed).answer, f)
         /\ Prediction(x, f, allowed).pages \in SUBSET PageSet
         /\ Prediction(x, f, allowed).pages # {}
<1>. DEFINE p == Prediction(x, f, allowed)
            v == x.answer
            a == CanonicalAnswer(v, f)
<1>1. ParserError(x, f, allowed) = "none"
  BY DEF CompleteAnswer, Prediction, Failure
<1>2. p.answer = a /\ p.pages = Pages(x)
  BY <1>1 DEF Prediction
<1>3. ~EmptyAnswer(a, f) /\ Pages(x) # {}
  BY <1>2 DEF CompleteAnswer
<1>4. Pages(x) \subseteq allowed
  BY <1>1 DEF ParserError, Reads
<1>5. v.text \in STRING /\ v.items \in Seq(STRING)
  BY RecoveryAssumption DEF Answers
<1>. HIDE DEF v
<1>6. CASE f \in ListFormats
  <2>1. ListItems(v) \in Seq(STRING)
    <3>1. <<v.text>> \in Seq(STRING)
      BY <1>5
    <3>2. ListItems(v) = <<v.text>> \/ ListItems(v) = v.items
      BY DEF ListItems
    <3>. QED
      BY <1>5, <3>1, <3>2
  <2>2. a \in Seq(STRING) /\ \A i \in DOMAIN a : a[i] # Blank
    BY <1>6, <2>1, NonBlankForm DEF CanonicalAnswer
  <2>3. a # << >>
    BY <1>3, <1>6 DEF EmptyAnswer
  <2>. QED
    BY <1>2, <1>3, <1>4, <1>6, <2>2, <2>3 DEF AnswerFits
<1>7. CASE f \notin ListFormats
  <2>1. a = <<v.text>>
    BY <1>7 DEF CanonicalAnswer
  <2>2. a \in Seq(STRING) /\ Len(a) = 1 /\ a[1] = v.text
    BY <1>5, <2>1
  <2>3. a[1] # Blank
    BY <1>3, <1>7 DEF EmptyAnswer
  <2>. QED
    BY <1>2, <1>3, <1>4, <1>7, <2>2, <2>3 DEF AnswerFits
<1>. QED
  BY <1>6, <1>7

\* A set of pages, listed in whatever order and then in ascending order.
LEMMA PagesForm ==
  ASSUME NEW P \in SUBSET PageSet, P # {}
  PROVE  /\ PagesFit(SetToSeq(P), PageCount) /\ ToSet(SetToSeq(P)) = P
         /\ PagesFit(Ascending(P), PageCount) /\ ToSet(Ascending(P)) = P
         /\ Ascending(P) \in Seq(Nat)
<1>. DEFINE n == Cardinality(P)
            s == SetToSeq(P)
            a == Ascending(P)
<1>1. PageCount \in Nat /\ PageSet = 1..PageCount /\ IsFiniteSet(PageSet)
  BY RecoveryAssumption, FS_Interval DEF PageSet
<1>2. IsFiniteSet(P) /\ n \in Nat /\ P \subseteq Int /\ P \subseteq Nat
  <2>1. IsFiniteSet(P)
    BY <1>1, FS_Subset
  <2>. QED
    BY <1>1, <2>1, FS_CardinalityType
<1>3. /\ a \in [1..n -> P] /\ \A x \in P : \E i \in 1..n : a[i] = x
      /\ \A i, j \in 1..n : i < j <=> a[i] < a[j]
  BY <1>2, AscendingForm
<1>. HIDE DEF a
<1>4. IsInjective(a)
  <2>. SUFFICES ASSUME NEW i \in 1..n, NEW j \in 1..n, a[i] = a[j] PROVE i = j
    BY <1>3 DEF IsInjective
  <2>1. a[i] \in Int
    BY <1>2, <1>3
  <2>2. ~(i < j) /\ ~(j < i)
    BY <1>3, <2>1
  <2>. QED
    BY <1>2, <2>2
<1>5. s \in [1..n -> P] /\ IsInjective(s)
  BY <1>3, <1>4 DEF SetToSeq
<1>6. \A x \in P : \E i \in 1..n : s[i] = x
  <2>1. IsFiniteSet(1..n) /\ Cardinality(1..n) = n
    BY <1>2, FS_Interval
  <2>2. s \in Injection(1..n, P)
    BY <1>5 DEF Injection, IsInjective
  <2>3. s \in Surjection(1..n, P)
    BY <1>2, <2>1, <2>2, FS_Injection
  <2>. QED
    BY <2>3 DEF Surjection
<1>. HIDE DEF s, n
<1>7. ASSUME NEW t \in [1..n -> P], IsInjective(t), \A x \in P : \E i \in 1..n : t[i] = x
      PROVE  PagesFit(t, PageCount) /\ ToSet(t) = P
  <2>1. DOMAIN t = 1..n /\ ToSet(t) = P
    BY <1>7 DEF ToSet
  <2>2. t # << >>
    <3>1. PICK x \in P : TRUE
      OBVIOUS
    <3>2. PICK i \in 1..n : t[i] = x
      BY <1>7
    <3>3. t \in Seq(P) /\ Len(t) = n
      BY <1>2, FunctionIsSeq
    <3>4. Len(t) # 0
      BY <1>2, <3>2, <3>3
    <3>. QED
      BY <3>3, <3>4, EmptySeq
  <2>3. ToSet(t) \subseteq 1..PageCount
    BY <1>1, <2>1
  <2>. QED
    BY <1>7, <2>1, <2>2, <2>3 DEF PagesFit
<1>8. a \in [1..n -> Nat]
  BY <1>2, <1>3
<1>9. a \in Seq(Nat)
  BY <1>2, <1>8, FunctionIsSeq
<1>10. PagesFit(s, PageCount) /\ ToSet(s) = P
  BY <1>5, <1>6, <1>7
<1>11. PagesFit(a, PageCount) /\ ToSet(a) = P
  BY <1>3, <1>4, <1>7
<1>. QED
  BY <1>9, <1>10, <1>11 DEF s, a

\* What is due for a question can be written to the CSV.
LEMMA DueFits ==
  ASSUME SearchInv, \A q \in Failed : decision[q] # None, NEW q \in Questions
  PROVE  /\ Due(q).answer \in Seq(STRING) /\ AnswerFits(Due(q).answer, Format[q])
         /\ Due(q).pages \in SUBSET PageSet /\ Due(q).pages # {}
<1>1. Format[q] \in Formats
  BY RecoveryAssumption
<1>2. CASE q \notin Failed
  <2>1. CompleteAnswer(Prediction(Base[q], Format[q], PageSet), Format[q])
    BY <1>2 DEF Failed, BasePrediction
  <2>2. Base[q] \in Answers /\ PageSet \in SUBSET PageSet
    BY DEF Answers
  <2>3. Due(q) = Prediction(Base[q], Format[q], PageSet)
    BY <1>2 DEF Due, BasePrediction
  <2>. QED
    BY <1>1, <2>1, <2>2, <2>3, CompleteFits
<1>3. CASE q \in Failed
  <2>. DEFINE s == decision[q]
  <2>1. s \in attempts /\ Complete(s) /\ s.question = q
    BY <1>3 DEF SearchInv, FirstComplete
  <2>2. s \in Records
    BY <2>1 DEF SearchInv, SearchTypes
  <2>3. s.response \in Responses /\ s.context \in Contexts
    BY <2>2 DEF Records
  <2>4. s.response \in Answers /\ DOMAIN s.context \in SUBSET PageSet
    BY <2>3 DEF Answers, Contexts
  <2>5. Due(q) = Prediction(s.response, Format[q], DOMAIN s.context)
    BY <1>3, <2>1 DEF Due, Parsed
  <2>6. CompleteAnswer(Prediction(s.response, Format[q], DOMAIN s.context), Format[q])
    BY <2>1 DEF Complete, Parsed
  <2>. QED
    BY <1>1, <2>4, <2>5, <2>6, CompleteFits
<1>. QED
  BY <1>2, <1>3

\* The rows of a run that has found all answers.
LEMMA RowsForm ==
  ASSUME SearchInv, NEW r \in Runs, pc[r] \in Reporting, Unresolved(r) = {}
  PROVE  /\ \A q \in Failed : decision[q] # None
         /\ \A i \in DOMAIN Order : /\ Exported(r).rows[i].id = Order[i]
                                    /\ Exported(r).rows[i].answer = Due(Order[i]).answer
                                    /\ ToSet(Exported(r).rows[i].pages) = Due(Order[i]).pages
         /\ Exported(r) \in Bundle
         /\ Accepted(Predicted(r), Order, Format, Counts)
         /\ ValidCsv(Exported(r).rows, Order, Format, Counts)
<1>. DEFINE n == Len(Order)
            rows == Predicted(r)
            csv == BuildSubmission(rows, Order)
<1>1. /\ n \in Nat /\ DOMAIN Order = 1..n /\ \A i \in 1..n : Order[i] \in Questions
      /\ \A i, j \in 1..n : Order[i] = Order[j] => i = j
      /\ ToSet(Order) = Questions
  BY RecoveryAssumption, LenProperties DEF IsInjective, Questions, ToSet
<1>2. \A q \in Failed : decision[q] # None /\ mem[r].recovered[q] = decision[q]
  BY DEF SearchInv, Finding, Unresolved
<1>3. \A q \in Questions : Chosen(r, q) = Due(q)
  BY <1>2 DEF Chosen, Due
<1>4. rows = [i \in 1..n |-> [id |-> Order[i], answer |-> Due(Order[i]).answer,
                              pages |-> SetToSeq(Due(Order[i]).pages)]]
  BY <1>1, <1>3 DEF Predicted
<1>. DEFINE Fit(i) == /\ Due(Order[i]).answer \in Seq(STRING)
                      /\ AnswerFits(Due(Order[i]).answer, Format[Order[i]])
                      /\ Due(Order[i]).pages \in SUBSET PageSet /\ Due(Order[i]).pages # {}
<1>5. \A i \in 1..n : Fit(i)
  BY <1>1, <1>2, DueFits
<1>. HIDE DEF rows, n
<1>6. \A i \in 1..n : RowOf(rows, Order[i]) = rows[i]
  <2>. SUFFICES ASSUME NEW i \in 1..n PROVE RowOf(rows, Order[i]) = rows[i]
    OBVIOUS
  <2>1. rows[i] \in ToSet(rows) /\ rows[i].id = Order[i]
    BY <1>4 DEF ToSet
  <2>2. \A x \in ToSet(rows) : x.id = Order[i] => x = rows[i]
    BY <1>1, <1>4 DEF ToSet
  <2>. QED
    BY <2>1, <2>2 DEF RowOf
<1>7. csv = [i \in 1..n |-> [id |-> Order[i], answer |-> Due(Order[i]).answer,
                             pages |-> Ascending(Due(Order[i]).pages)]]
  <2>1. \A i \in 1..n : /\ RowOf(rows, Order[i]).answer = Due(Order[i]).answer
                        /\ Ascending(ToSet(RowOf(rows, Order[i]).pages)) = Ascending(Due(Order[i]).pages)
    <3>. SUFFICES ASSUME NEW i \in 1..n
                  PROVE  /\ rows[i].answer = Due(Order[i]).answer
                         /\ ToSet(rows[i].pages) = Due(Order[i]).pages
      BY <1>6
    <3>1. rows[i].answer = Due(Order[i]).answer /\ rows[i].pages = SetToSeq(Due(Order[i]).pages)
      BY <1>4
    <3>2. ToSet(SetToSeq(Due(Order[i]).pages)) = Due(Order[i]).pages
      BY <1>5, PagesForm
    <3>. QED
      BY <3>1, <3>2
  <2>. QED
    BY <1>1, <2>1 DEF BuildSubmission
<1>8. \A q \in Questions : Counts[q] = PageCount
  BY DEF Counts
<1>9. Accepted(rows, Order, Format, Counts)
  <2>1. Covers(rows, Order)
    BY <1>1, <1>4 DEF Covers, ToSet
  <2>2. ASSUME NEW q \in ToSet(Order)
        PROVE  /\ AnswerFits(RowOf(rows, q).answer, Format[q])
               /\ PagesFit(RowOf(rows, q).pages, Counts[q])
    <3>1. PICK i \in 1..n : q = Order[i]
      BY <1>1, <2>2 DEF ToSet
    <3>2. /\ RowOf(rows, q).answer = Due(q).answer /\ RowOf(rows, q).pages = SetToSeq(Due(q).pages)
      BY <1>4, <1>6, <3>1
    <3>3. Fit(i)
      BY <1>5
    <3>4. PagesFit(SetToSeq(Due(q).pages), PageCount)
      BY <3>1, <3>3, PagesForm
    <3>. QED
      BY <1>1, <1>8, <3>1, <3>2, <3>3, <3>4
  <2>. QED
    BY <2>1, <2>2 DEF Accepted
<1>. HIDE DEF csv
<1>10. ASSUME NEW i \in 1..n
       PROVE  /\ csv[i].id = Order[i] /\ csv[i].answer = Due(Order[i]).answer
              /\ ToSet(csv[i].pages) = Due(Order[i]).pages
              /\ AnswerFits(csv[i].answer, Format[csv[i].id])
              /\ PagesFit(csv[i].pages, Counts[csv[i].id])
              /\ csv[i] \in [id : Questions, answer : Seq(STRING), pages : Seq(Nat)]
  <2>1. csv[i] = [id |-> Order[i], answer |-> Due(Order[i]).answer, pages |-> Ascending(Due(Order[i]).pages)]
    BY <1>7
  <2>2. Fit(i)
    BY <1>5
  <2>3. /\ PagesFit(Ascending(Due(Order[i]).pages), PageCount)
        /\ ToSet(Ascending(Due(Order[i]).pages)) = Due(Order[i]).pages
        /\ Ascending(Due(Order[i]).pages) \in Seq(Nat)
    BY <2>2, PagesForm
  <2>4. Order[i] \in Questions
    BY <1>1
  <2>. QED
    BY <1>8, <2>1, <2>2, <2>3, <2>4
<1>11. csv \in Rows /\ Len(csv) = n /\ DOMAIN csv = 1..n
  <2>1. csv \in [1..n -> [id : Questions, answer : Seq(STRING), pages : Seq(Nat)]]
    BY <1>7, <1>10
  <2>. QED
    BY <1>1, <2>1, FunctionIsSeq DEF Rows
<1>12. ValidCsv(csv, Order, Format, Counts)
  BY <1>10, <1>11 DEF ValidCsv, n
<1>13. Exported(r) = [rows |-> csv, by |-> r]
  BY DEF Exported, csv, rows
<1>14. Exported(r) \in Bundle
  BY <1>11, <1>13 DEF Bundle
<1>15. Exported(r).rows = csv
  BY <1>13
<1>. QED
  BY <1>1, <1>2, <1>9, <1>10, <1>12, <1>14, <1>15 DEF rows

\* The steps before the export, which leave its objects alone.
Search(r) == \/ Start(r)
             \/ \E p \in PageSet, t \in Texts : OcrPage(r, p, t)
             \/ NextQuestion(r) \/ NextWindow(r)
             \/ \E x \in Responses : Predict(r, x)
             \/ Save(r) \/ Decide(r) \/ Report(r) \/ WriteReport(r) \/ Crash(r)

Apart(r) == /\ OthersRest(r)
            /\ pc'[r] \notin Exporting \cup {"done", "disagree", "refused"}
            /\ UNCHANGED <<csvs, manifests, receipt, current>>
            /\ crashes' \in 0..MaxCrashes
            /\ \A q \in Failed : decision[q] # None => decision'[q] = decision[q]

LEMMA EndApart ==
  ASSUME SearchTypes, NEW r \in Runs, End(r, "failed"),
         UNCHANGED <<csvs, manifests, receipt, current, decision>>, crashes' \in 0..MaxCrashes
  PROVE  Apart(r)
<1>1. pc' = [pc EXCEPT ![r] = "failed"] /\ mem' = [mem EXCEPT ![r] = Nothing]
  BY DEF End, Goto
<1>2. pc'[r] = "failed" /\ OthersRest(r)
  BY <1>1 DEF SearchTypes, OthersRest
<1>. QED
  BY <1>2 DEF Apart, Exporting

LEMMA SearchApart ==
  ASSUME SearchInv, crashes \in 0..MaxCrashes, NEW r \in Runs, Search(r)
  PROVE  Apart(r)
<1>1. /\ SearchTypes /\ pc \in [Runs -> Ended \cup Active] /\ mem \in [Runs -> Memory]
      /\ crashes \in Nat /\ MaxCrashes \in Nat
  BY RecoveryAssumption DEF SearchInv, SearchTypes
<1>. DEFINE Away == (Active \ Exporting) \cup {"failed"}
<1>2. ASSUME NEW l \in Away, pc' = [pc EXCEPT ![r] = l], \A t \in Runs \ {r} : mem'[t] = mem[t],
             UNCHANGED <<csvs, manifests, receipt, current, crashes, decision>>
      PROVE  Apart(r)
  <2>1. pc'[r] = l /\ \A t \in Runs \ {r} : pc'[t] = pc[t]
    BY <1>1, <1>2 DEF Away, Active
  <2>2. l \notin Exporting \cup {"done", "disagree", "refused"}
    BY DEF Away, Active, Exporting
  <2>. QED
    BY <1>2, <2>1, <2>2 DEF Apart, OthersRest
<1>3. /\ {"ocr", "question", "window", "predict", "save", "decide", "report", "writereport", "export"}
           \subseteq Away
  BY DEF Away, Active, Exporting
<1>. HIDE DEF Away
<1>4. CASE Start(r)
  <2>1. /\ pc' = [pc EXCEPT ![r] = AfterOcr(ocr)] /\ AfterOcr(ocr) \in {"ocr", "question"}
        /\ mem' = [mem EXCEPT ![r] = [Nothing EXCEPT !.context = ocr]]
    BY <1>4 DEF Start, Goto, AfterOcr
  <2>2. UNCHANGED <<csvs, manifests, receipt, current, crashes, decision>>
    BY <1>4 DEF Start, durable
  <2>. QED
    BY <1>1, <1>2, <1>3, <2>1, <2>2
<1>5. ASSUME NEW p \in PageSet, NEW t \in Texts, OcrPage(r, p, t) PROVE Apart(r)
  <2>1. UNCHANGED <<csvs, manifests, receipt, current, crashes, decision>>
    BY <1>5 DEF OcrPage
  <2>2. CASE ocr[p] \in {None, t}
    <3>1. /\ mem' = [mem EXCEPT ![r].context[p] = t]
          /\ pc' = [pc EXCEPT ![r] = AfterOcr(mem'[r].context)]
          /\ AfterOcr(mem'[r].context) \in {"ocr", "question"}
      BY <1>5, <2>2 DEF OcrPage, Goto, AfterOcr
    <3>. QED
      BY <1>1, <1>2, <1>3, <2>1, <3>1
  <2>3. CASE ocr[p] \notin {None, t}
    BY <1>1, <1>5, <2>1, <2>3, EndApart DEF OcrPage
  <2>. QED
    BY <2>2, <2>3
<1>6. CASE NextQuestion(r)
  <2>1. UNCHANGED <<csvs, manifests, receipt, current, crashes, decision>>
    BY <1>6 DEF NextQuestion, durable
  <2>2. \/ pc' = [pc EXCEPT ![r] = "report"] /\ UNCHANGED mem
        \/ pc' = [pc EXCEPT ![r] = "window"] /\ mem' = [mem EXCEPT ![r].at = 1]
        \/ /\ pc[r] = "question" /\ UNCHANGED pc
           /\ mem' = [mem EXCEPT ![r].recovered[question(r)] = decision[question(r)],
                                 ![r].asked = @ \cup {question(r)}]
        \/ End(r, "failed")
    BY <1>6 DEF NextQuestion, Goto
  <2>3. CASE End(r, "failed")
    BY <1>1, <2>1, <2>3, EndApart
  <2>4. CASE ~End(r, "failed")
    <3>1. \A t \in Runs \ {r} : mem'[t] = mem[t]
      BY <1>1, <2>2, <2>4
    <3>2. \E l \in {"report", "window", "question"} : pc' = [pc EXCEPT ![r] = l]
      BY <1>1, <2>2, <2>4
    <3>. QED
      BY <1>2, <1>3, <2>1, <3>1, <3>2
  <2>. QED
    BY <2>3, <2>4
<1>7. ASSUME NEW s, Judge(r, s), UNCHANGED <<csvs, manifests, receipt, current, crashes, decision>>
      PROVE  Apart(r)
  <2>1. \/ pc' = [pc EXCEPT ![r] = "decide"] /\ mem' = [mem EXCEPT ![r].saved = s]
        \/ pc' = [pc EXCEPT ![r] = "window"] /\ mem' = [mem EXCEPT ![r].saved = None, ![r].at = @ + 1]
        \/ End(r, "failed")
    BY <1>7 DEF Judge, Goto
  <2>2. CASE End(r, "failed")
    BY <1>1, <1>7, <2>2, EndApart
  <2>3. CASE ~End(r, "failed")
    <3>1. \A t \in Runs \ {r} : mem'[t] = mem[t]
      BY <1>1, <2>1, <2>3
    <3>2. \E l \in {"decide", "window"} : pc' = [pc EXCEPT ![r] = l]
      BY <2>1, <2>3
    <3>. QED
      BY <1>2, <1>3, <1>7, <3>1, <3>2
  <2>. QED
    BY <2>2, <2>3
<1>8. CASE NextWindow(r)
  <2>1. UNCHANGED <<csvs, manifests, receipt, current, crashes, decision>>
    BY <1>8 DEF NextWindow, durable
  <2>2. \/ /\ pc' = [pc EXCEPT ![r] = "question"]
           /\ mem' = [mem EXCEPT ![r].asked = @ \cup {question(r)}, ![r].at = 0]
        \/ pc' = [pc EXCEPT ![r] = "predict"] /\ UNCHANGED mem
        \/ End(r, "failed")
        \/ \E s : Judge(r, s)
    BY <1>8 DEF NextWindow, Goto
  <2>3. CASE End(r, "failed")
    BY <1>1, <2>1, <2>3, EndApart
  <2>4. CASE \E s : Judge(r, s)
    BY <1>7, <2>1, <2>4
  <2>5. CASE ~End(r, "failed") /\ ~\E s : Judge(r, s)
    <3>1. \A t \in Runs \ {r} : mem'[t] = mem[t]
      BY <1>1, <2>2, <2>5
    <3>2. \E l \in {"question", "predict"} : pc' = [pc EXCEPT ![r] = l]
      BY <2>2, <2>5
    <3>. QED
      BY <1>2, <1>3, <2>1, <3>1, <3>2
  <2>. QED
    BY <2>3, <2>4, <2>5
<1>9. ASSUME NEW x \in Responses, Predict(r, x) PROVE Apart(r)
  <2>1. /\ UNCHANGED <<csvs, manifests, receipt, current, crashes, decision>>
        /\ pc' = [pc EXCEPT ![r] = "save"]
    BY <1>9 DEF Predict, durable, Goto
  <2>2. \A t \in Runs \ {r} : mem'[t] = mem[t]
    BY <1>1, <1>9 DEF Predict
  <2>. QED
    BY <1>2, <1>3, <2>1, <2>2
<1>10. CASE Save(r)
  <2>1. /\ UNCHANGED <<csvs, manifests, receipt, current, crashes, decision>>
        /\ Judge(r, mem[r].saved) \/ End(r, "failed")
    BY <1>10 DEF Save
  <2>. QED
    BY <1>1, <1>7, <2>1, EndApart
<1>11. CASE Decide(r)
  <2>. DEFINE s == mem[r].saved
              q == s.question
  <2>1. UNCHANGED <<csvs, manifests, receipt, current, crashes>>
    BY <1>11 DEF Decide
  <2>2. CASE decision[q] \notin {None, s}
    BY <1>1, <1>11, <2>1, <2>2, EndApart DEF Decide
  <2>3. CASE decision[q] \in {None, s}
    <3>1. /\ decision' = [decision EXCEPT ![q] = s] /\ pc' = [pc EXCEPT ![r] = "question"]
          /\ mem' = [mem EXCEPT ![r].recovered[q] = s, ![r].asked = @ \cup {q},
                                ![r].saved = None, ![r].at = 0]
      BY <1>11, <2>3 DEF Decide, Goto
    <3>2. \A t \in Runs \ {r} : pc'[t] = pc[t] /\ mem'[t] = mem[t]
      BY <1>1, <3>1
    <3>3. \A i \in Failed : decision[i] # None => decision'[i] = decision[i]
      BY <1>1, <2>3, <3>1 DEF SearchTypes
    <3>4. pc'[r] = "question"
      BY <1>1, <3>1
    <3>. QED
      BY <1>1, <2>1, <3>2, <3>3, <3>4 DEF Apart, OthersRest, Exporting
  <2>. QED
    BY <2>2, <2>3
<1>12. CASE Report(r)
  <2>1. UNCHANGED <<csvs, manifests, receipt, current, crashes, decision>>
    BY <1>12 DEF Report, durable
  <2>2. pc[r] \in Reporting
    BY <1>12 DEF Report, Reporting
  <2>3. UNCHANGED mem /\ \E l \in {"writereport", "export"} : pc' = [pc EXCEPT ![r] = l]
    BY <1>12, <2>2, ReportAgrees DEF Report, Goto
  <2>. QED
    BY <1>2, <1>3, <2>1, <2>3
<1>13. CASE WriteReport(r)
  <2>1. UNCHANGED <<csvs, manifests, receipt, current, crashes, decision>>
    BY <1>13 DEF WriteReport
  <2>2. (UNCHANGED mem /\ pc' = [pc EXCEPT ![r] = "export"]) \/ End(r, "failed")
    BY <1>13 DEF WriteReport, Goto
  <2>. QED
    BY <1>1, <1>2, <1>3, <2>1, <2>2, EndApart
<1>14. CASE Crash(r)
  <2>1. /\ End(r, "failed") /\ UNCHANGED <<csvs, manifests, receipt, current, decision>>
        /\ crashes' = crashes + 1 /\ crashes < MaxCrashes
    BY <1>14 DEF Crash, durable
  <2>2. crashes' \in 0..MaxCrashes
    BY <1>1, <2>1
  <2>. QED
    BY <1>1, <2>1, <2>2, EndApart
<1>. QED
  BY <1>4, <1>5, <1>6, <1>8, <1>9, <1>10, <1>11, <1>12, <1>13, <1>14 DEF Search

LEMMA ExportedStays ==
  ASSUME NEW t \in Runs, mem'[t] = mem[t]
  PROVE  Exported(t)' = Exported(t) /\ Unresolved(t)' = Unresolved(t)
<1>1. Predicted(t)' = Predicted(t)
  BY DEF Predicted, Chosen
<1>. QED
  BY <1>1 DEF Exported, Unresolved

LEMMA PublishingRest ==
  ASSUME NEW t \in Runs, Publishing(t), mem'[t] = mem[t], pc'[t] = pc[t], current'[t] = current[t],
         csvs \subseteq csvs', manifests \subseteq manifests'
  PROVE  Publishing(t)'
BY ExportedStays DEF Publishing

\* What a bundle agrees with stays.
LEMMA AgreesStays ==
  ASSUME \A q \in Failed : decision[q] # None => decision'[q] = decision[q], NEW b, Agrees(b)
  PROVE  Agrees(b)'
<1>1. ASSUME NEW i \in DOMAIN Order PROVE Due(Order[i])' = Due(Order[i])
  BY DEF Agrees, Due
<1>. QED
  BY <1>1 DEF Agrees

LEMMA ApartKeeps ==
  ASSUME ExportInv, SearchInv', NEW r \in Runs, Apart(r)
  PROVE  ExportInv'
<1>1. /\ UNCHANGED <<csvs, manifests, receipt, current>>
      /\ \A t \in Runs \ {r} : pc'[t] = pc[t] /\ mem'[t] = mem[t]
      /\ pc'[r] \notin Exporting \cup {"done", "disagree", "refused"}
  BY DEF Apart, OthersRest
<1>2. ExportTypes'
  BY DEF Apart, ExportInv, ExportTypes
<1>3. ExportIsWhole'
  <2>1. \A b \in csvs : Agrees(b)'
    BY AgreesStays DEF Apart, ExportInv, ExportIsWhole
  <2>2. ASSUME NEW t \in Runs, pc'[t] = "done"
        PROVE  receipt # None /\ current[t] = [csv |-> receipt, manifest |-> receipt]
    BY <1>1, <2>2 DEF ExportInv, ExportIsWhole
  <2>. QED
    BY <1>1, <2>1, <2>2 DEF ExportInv, ExportIsWhole
<1>4. ASSUME NEW t \in Runs PROVE Publishing(t)'
  <2>1. CASE t = r
    BY <1>1, <2>1 DEF Publishing, Exporting
  <2>2. CASE t # r
    BY <1>1, <2>2, PublishingRest DEF ExportInv
  <2>. QED
    BY <2>1, <2>2
<1>5. NoDeadEnd'
  BY <1>1 DEF ExportInv, NoDeadEnd
<1>. QED
  BY <1>2, <1>3, <1>4, <1>5 DEF ExportInv

\* The steps of the export change pc of one run, and its memory only at its end.
LEMMA ExportStepOfOne ==
  ASSUME ExportInv, SearchInv', NEW r \in Runs, OthersRest(r), UNCHANGED <<decision, crashes>>,
         \A t \in Runs \ {r} : current'[t] = current[t],
         csvs \subseteq csvs', manifests \subseteq manifests', receipt # None => receipt' = receipt,
         ExportTypes', Publishing(r)', pc'[r] \notin {"disagree", "refused"},
         \A b \in csvs' \ csvs : Agrees(b)', manifests' \subseteq csvs',
         receipt' # None => receipt' \in manifests',
         pc'[r] = "done" => receipt' # None /\ current'[r] = [csv |-> receipt', manifest |-> receipt']
  PROVE  ExportInv'
<1>1. \A t \in Runs \ {r} : pc'[t] = pc[t] /\ mem'[t] = mem[t]
  BY DEF OthersRest
<1>2. ExportIsWhole'
  <2>1. \A b \in csvs' : Agrees(b)'
    BY AgreesStays DEF ExportInv, ExportIsWhole
  <2>2. ASSUME NEW t \in Runs, pc'[t] = "done"
        PROVE  receipt' # None /\ current'[t] = [csv |-> receipt', manifest |-> receipt']
    BY <1>1, <2>2 DEF ExportInv, ExportIsWhole
  <2>. QED
    BY <2>1, <2>2 DEF ExportIsWhole
<1>3. ASSUME NEW t \in Runs PROVE Publishing(t)'
  <2>1. CASE t # r
    BY <1>1, <2>1, PublishingRest DEF ExportInv
  <2>. QED
    BY <2>1
<1>4. NoDeadEnd'
  BY <1>1 DEF ExportInv, NoDeadEnd
<1>. QED
  BY <1>2, <1>3, <1>4 DEF ExportInv

LEMMA ReuseExports ==
  ASSUME ExportInv, SearchInv', NEW r \in Runs, Reuse(r)
  PROVE  ExportInv'
<1>1. /\ pc \in [Runs -> Ended \cup Active] /\ mem \in [Runs -> Memory]
      /\ current \in [Runs -> [csv : Bundle \cup {None}, manifest : Bundle \cup {None}]]
      /\ receipt \in Bundle \cup {None}
      /\ ExportTypes /\ ExportIsWhole
  BY DEF ExportInv, SearchInv, SearchTypes, ExportTypes
<1>2. receipt # None /\ UNCHANGED <<decision, crashes, csvs, manifests, receipt>>
  BY DEF Reuse, durable
<1>3. receipt \in csvs /\ receipt \in manifests
  BY <1>1, <1>2 DEF ExportIsWhole
<1>4. /\ current' = [current EXCEPT ![r] = [csv |-> receipt, manifest |-> receipt]]
      /\ pc' = [pc EXCEPT ![r] = "done"] /\ mem' = [mem EXCEPT ![r] = Nothing]
  BY <1>3 DEF Reuse, End, Goto
<1>5. /\ OthersRest(r) /\ pc'[r] = "done" /\ current'[r] = [csv |-> receipt, manifest |-> receipt]
      /\ \A t \in Runs \ {r} : current'[t] = current[t]
  BY <1>1, <1>4 DEF OthersRest
<1>6. ExportTypes'
  BY <1>1, <1>2, <1>4 DEF ExportTypes
<1>7. Publishing(r)'
  BY <1>5 DEF Publishing, Exporting
<1>. QED
  BY <1>1, <1>2, <1>5, <1>6, <1>7, ExportStepOfOne DEF ExportIsWhole

LEMMA ExportExports ==
  ASSUME ExportInv, SearchInv', NEW r \in Runs, Export(r)
  PROVE  ExportInv'
<1>1. /\ pc \in [Runs -> Ended \cup Active] /\ mem \in [Runs -> Memory]
      /\ SearchInv /\ ExportTypes /\ ExportIsWhole
  BY DEF ExportInv, SearchInv, SearchTypes
<1>2. pc[r] \in Reporting /\ UNCHANGED <<decision, crashes, csvs, manifests, receipt, current>>
  BY DEF Export, durable, Reporting
<1>3. ExportTypes'
  BY <1>1, <1>2 DEF ExportTypes
<1>4. CASE Unresolved(r) # {}
  <2>1. pc' = [pc EXCEPT ![r] = "unresolved"] /\ mem' = [mem EXCEPT ![r] = Nothing]
    BY <1>4 DEF Export, End, Goto
  <2>2. OthersRest(r) /\ pc'[r] = "unresolved"
    BY <1>1, <2>1 DEF OthersRest
  <2>3. Publishing(r)'
    BY <2>2 DEF Publishing, Exporting
  <2>. QED
    BY <1>1, <1>2, <1>3, <2>2, <2>3, ExportStepOfOne DEF ExportIsWhole
<1>5. CASE Unresolved(r) = {}
  <2>1. pc' = [pc EXCEPT ![r] = "csv"] /\ UNCHANGED mem
    <3>1. Accepted(Predicted(r), Order, Format, Counts) /\ ValidCsv(Exported(r).rows, Order, Format, Counts)
      BY <1>1, <1>2, <1>5, RowsForm
    <3>. QED
      BY <1>5, <3>1 DEF Export, Goto
  <2>2. OthersRest(r) /\ pc'[r] = "csv" /\ Unresolved(r)' = {}
    BY <1>1, <1>5, <2>1 DEF OthersRest, Unresolved
  <2>3. Publishing(r)'
    BY <2>2 DEF Publishing, Exporting
  <2>. QED
    BY <1>1, <1>2, <1>3, <2>2, <2>3, ExportStepOfOne DEF ExportIsWhole
<1>. QED
  BY <1>4, <1>5

LEMMA PublishExports ==
  ASSUME ExportInv, SearchInv', NEW r \in Runs, Publish(r)
  PROVE  ExportInv'
<1>1. /\ pc \in [Runs -> Ended \cup Active] /\ mem \in [Runs -> Memory]
      /\ current \in [Runs -> [csv : Bundle \cup {None}, manifest : Bundle \cup {None}]]
      /\ SearchInv /\ ExportTypes /\ ExportIsWhole /\ Publishing(r)
  BY DEF ExportInv, SearchInv, SearchTypes, ExportTypes
<1>2. pc[r] \in Exporting /\ UNCHANGED <<decision, crashes>>
  BY DEF Publish, PutCsv, PutManifest, CopyCsv, CopyManifest, Receipt, durable, Exporting
<1>3. pc[r] \in Reporting /\ Unresolved(r) = {}
  BY <1>1, <1>2 DEF Reporting, Publishing
<1>4. /\ Exported(r) \in Bundle /\ Exported(r) # None /\ Agrees(Exported(r))
  BY <1>1, <1>3, RowsForm, NoneAssumption DEF Agrees
<1>5. ASSUME NEW l, pc' = [pc EXCEPT ![r] = l], UNCHANGED mem
      PROVE  /\ OthersRest(r) /\ pc'[r] = l
             /\ Unresolved(r)' = {} /\ Exported(r)' = Exported(r)
  BY <1>1, <1>3, <1>5, ExportedStays DEF OthersRest
<1>6. CASE PutCsv(r)
  <2>1. /\ csvs' = csvs \cup {Exported(r)} /\ UNCHANGED <<manifests, receipt, current>>
        /\ pc' = [pc EXCEPT ![r] = "manifest"] /\ UNCHANGED mem
    BY <1>6 DEF PutCsv, Goto
  <2>2. OthersRest(r) /\ pc'[r] = "manifest" /\ Unresolved(r)' = {} /\ Exported(r)' = Exported(r)
    BY <1>5, <2>1
  <2>3. ExportTypes'
    BY <1>1, <1>2, <1>4, <2>1 DEF ExportTypes
  <2>4. Publishing(r)'
    BY <2>1, <2>2 DEF Publishing, Exporting
  <2>5. \A b \in csvs' \ csvs : Agrees(b)'
    BY <1>2, <1>4, <2>1, AgreesStays
  <2>. QED
    BY <1>1, <1>2, <2>1, <2>2, <2>3, <2>4, <2>5, ExportStepOfOne DEF ExportIsWhole
<1>7. CASE PutManifest(r)
  <2>1. /\ manifests' = manifests \cup {Exported(r)} /\ UNCHANGED <<csvs, receipt, current>>
        /\ pc' = [pc EXCEPT ![r] = "copycsv"] /\ UNCHANGED mem /\ pc[r] = "manifest"
    BY <1>7 DEF PutManifest, Goto
  <2>2. OthersRest(r) /\ pc'[r] = "copycsv" /\ Unresolved(r)' = {} /\ Exported(r)' = Exported(r)
    BY <1>5, <2>1
  <2>3. Exported(r) \in csvs
    BY <1>1, <2>1 DEF Publishing, Exporting
  <2>4. ExportTypes'
    BY <1>1, <1>2, <1>4, <2>1 DEF ExportTypes
  <2>5. Publishing(r)'
    BY <2>1, <2>2, <2>3 DEF Publishing, Exporting
  <2>. QED
    BY <1>1, <1>2, <2>1, <2>2, <2>3, <2>4, <2>5, ExportStepOfOne DEF ExportIsWhole
<1>8. CASE CopyCsv(r)
  <2>1. /\ current' = [current EXCEPT ![r].csv = Exported(r)] /\ UNCHANGED <<csvs, manifests, receipt>>
        /\ pc' = [pc EXCEPT ![r] = "copymanifest"] /\ UNCHANGED mem /\ pc[r] = "copycsv"
    BY <1>8 DEF CopyCsv, Goto, durable
  <2>2. OthersRest(r) /\ pc'[r] = "copymanifest" /\ Unresolved(r)' = {} /\ Exported(r)' = Exported(r)
    BY <1>5, <2>1
  <2>3. Exported(r) \in csvs /\ Exported(r) \in manifests
    BY <1>1, <2>1 DEF Publishing, Exporting
  <2>4. /\ current'[r] = [current[r] EXCEPT !.csv = Exported(r)]
        /\ \A t \in Runs \ {r} : current'[t] = current[t]
    BY <1>1, <2>1
  <2>5. current'[r].csv = Exported(r)
        /\ current' \in [Runs -> [csv : Bundle \cup {None}, manifest : Bundle \cup {None}]]
    BY <1>1, <1>4, <2>1, <2>4
  <2>6. ExportTypes'
    BY <1>1, <1>2, <2>1, <2>5 DEF ExportTypes
  <2>7. Publishing(r)'
    BY <2>1, <2>2, <2>3, <2>5 DEF Publishing, Exporting
  <2>. QED
    BY <1>1, <1>2, <2>1, <2>2, <2>4, <2>6, <2>7, ExportStepOfOne DEF ExportIsWhole
<1>9. CASE CopyManifest(r)
  <2>1. /\ current' = [current EXCEPT ![r].manifest = Exported(r)] /\ UNCHANGED <<csvs, manifests, receipt>>
        /\ pc' = [pc EXCEPT ![r] = "receipt"] /\ UNCHANGED mem /\ pc[r] = "copymanifest"
    BY <1>9 DEF CopyManifest, Goto, durable
  <2>2. OthersRest(r) /\ pc'[r] = "receipt" /\ Unresolved(r)' = {} /\ Exported(r)' = Exported(r)
    BY <1>5, <2>1
  <2>3. Exported(r) \in csvs /\ Exported(r) \in manifests /\ current[r].csv = Exported(r)
    BY <1>1, <2>1 DEF Publishing, Exporting
  <2>4. /\ current'[r] = [current[r] EXCEPT !.manifest = Exported(r)]
        /\ \A t \in Runs \ {r} : current'[t] = current[t]
    BY <1>1, <2>1
  <2>5. current'[r].csv = Exported(r) /\ current'[r].manifest = Exported(r)
        /\ current' \in [Runs -> [csv : Bundle \cup {None}, manifest : Bundle \cup {None}]]
    BY <1>1, <1>4, <2>1, <2>3, <2>4
  <2>6. ExportTypes'
    BY <1>1, <1>2, <2>1, <2>5 DEF ExportTypes
  <2>7. Publishing(r)'
    BY <2>1, <2>2, <2>3, <2>5 DEF Publishing, Exporting
  <2>. QED
    BY <1>1, <1>2, <2>1, <2>2, <2>4, <2>6, <2>7, ExportStepOfOne DEF ExportIsWhole
<1>10. CASE Receipt(r)
  <2>1. /\ Exported(r) \in manifests
        /\ current[r].csv = Exported(r) /\ current[r].manifest = Exported(r)
    BY <1>1, <1>10 DEF Receipt, Publishing, Exporting
  <2>2. UNCHANGED <<csvs, manifests, current>>
    BY <1>10 DEF Receipt
  <2>3. CASE receipt \in {None, Exported(r)}
    <3>1. /\ receipt' = Exported(r)
          /\ pc' = [pc EXCEPT ![r] = "done"] /\ mem' = [mem EXCEPT ![r] = Nothing]
      BY <1>10, <2>3 DEF Receipt, End, Goto
    <3>2. OthersRest(r) /\ pc'[r] = "done"
      BY <1>1, <3>1 DEF OthersRest
    <3>3. current'[r] = [csv |-> receipt', manifest |-> receipt']
      BY <1>1, <2>1, <2>2, <3>1
    <3>4. ExportTypes'
      BY <1>1, <1>2, <1>4, <2>2, <3>1 DEF ExportTypes
    <3>5. Publishing(r)'
      BY <3>2 DEF Publishing, Exporting
    <3>. QED
      BY <1>1, <1>2, <1>4, <2>1, <2>2, <2>3, <3>1, <3>2, <3>3, <3>4, <3>5, ExportStepOfOne
      DEF ExportIsWhole
  <2>4. CASE receipt \notin {None, Exported(r)}
    <3>1. /\ receipt' = receipt
          /\ pc' = [pc EXCEPT ![r] = "failed"] /\ mem' = [mem EXCEPT ![r] = Nothing]
      BY <1>10, <2>4 DEF Receipt, End, Goto
    <3>2. OthersRest(r) /\ pc'[r] = "failed"
      BY <1>1, <3>1 DEF OthersRest
    <3>3. ExportTypes'
      BY <1>1, <1>2, <2>2, <3>1 DEF ExportTypes
    <3>4. Publishing(r)'
      BY <3>2 DEF Publishing, Exporting
    <3>. QED
      BY <1>1, <1>2, <2>2, <3>1, <3>2, <3>3, <3>4, ExportStepOfOne DEF ExportIsWhole
  <2>. QED
    BY <2>3, <2>4
<1>. QED
  BY <1>6, <1>7, <1>8, <1>9, <1>10 DEF Publish

LEMMA ExportInit == Init => ExportInv
<1>. SUFFICES ASSUME Init PROVE ExportInv
  OBVIOUS
<1>1. ExportTypes
  BY RecoveryAssumption DEF Init, ExportTypes
<1>2. ExportIsWhole /\ NoDeadEnd /\ \A r \in Runs : Publishing(r)
  BY DEF Init, ExportIsWhole, NoDeadEnd, Publishing, Exporting
<1>. QED
  BY <1>1, <1>2, SearchInit DEF ExportInv

LEMMA ExportStep == ExportInv /\ [Next]_vars => ExportInv'
<1>. SUFFICES ASSUME ExportInv, [Next]_vars PROVE ExportInv'
  OBVIOUS
<1>1. SearchInv /\ SearchInv' /\ crashes \in 0..MaxCrashes
  BY SearchStep DEF ExportInv, ExportTypes
<1>2. CASE UNCHANGED vars
  <2>1. UNCHANGED <<ocr, attempts, decision, report, csvs, manifests, receipt, pc, mem, current, crashes>>
    BY <1>2 DEF vars, durable
  <2>2. ExportTypes' /\ NoDeadEnd'
    BY <2>1 DEF ExportInv, ExportTypes, NoDeadEnd
  <2>3. ExportIsWhole'
    <3>1. \A b \in csvs : Agrees(b)'
      BY <2>1, AgreesStays DEF ExportInv, ExportIsWhole
    <3>. QED
      BY <2>1, <3>1 DEF ExportInv, ExportIsWhole
  <2>4. \A r \in Runs : Publishing(r)'
    BY <2>1, PublishingRest DEF ExportInv
  <2>. QED
    BY <1>1, <2>2, <2>3, <2>4 DEF ExportInv
<1>3. ASSUME NEW r \in Runs, Step(r) \/ Crash(r) PROVE ExportInv'
  <2>1. CASE Search(r)
    BY <1>1, <2>1, SearchApart, ApartKeeps
  <2>2. CASE Reuse(r)
    BY <1>1, <2>2, ReuseExports
  <2>3. CASE Export(r)
    BY <1>1, <2>3, ExportExports
  <2>4. CASE Publish(r)
    BY <1>1, <2>4, PublishExports
  <2>. QED
    BY <1>3, <2>1, <2>2, <2>3, <2>4 DEF Step, Search, Publish
<1>. QED
  BY <1>2, <1>3 DEF Next

THEOREM ExportHolds == Spec => []ExportInv
BY ExportInit, ExportStep, PTL DEF Spec

\* Everything has its type, the calls of a run its allowance.
THEOREM TypeCorrect == Spec => []TypeOK
<1>1. ExportInv => TypeOK
  BY DEF ExportInv, SearchInv, TypeOK
<1>. QED
  BY <1>1, ExportHolds, PTL

\* No CSV before every question is decided and none that changes an answer the
\* base inference had completed; a receipt names a whole bundle, and the files
\* of a finished run are those of the receipt (recovery.py, export_recovered).
THEOREM ExportsWhole == Spec => []ExportIsWhole
<1>1. ExportInv => ExportIsWhole
  BY DEF ExportInv
<1>. QED
  BY <1>1, ExportHolds, PTL

\* No run is refused for good: it finds what the report of any earlier run
\* says, and what complete_answer accepts passes every check of the CSV
\* (recovery.py, save_report and export_recovered).
THEOREM NeverRefused == Spec => []NoDeadEnd
<1>1. ExportInv => NoDeadEnd
  BY DEF ExportInv
<1>. QED
  BY <1>1, ExportHolds, PTL
=============================================================================
