-------------------------- MODULE EvaluationProofs --------------------------
(***************************************************************************)
(* The model registry, the frozen protocol with its assets, and the        *)
(* evaluation that reads them, for any configurations, hosts, questions,   *)
(* scans, runs and answers of the judge: an inductive invariant of each,   *)
(* and from it what the runs check on small instances.                     *)
(***************************************************************************)
EXTENDS Evaluation, Protocol, Registry, TLAPS, FiniteSetTheorems, SequenceTheorems, WellFoundedInduction

-----------------------------------------------------------------------------
(***************************************************************************)
(* Order: sets that are put into sequences (Ordering)                      *)
(***************************************************************************)

\* What it takes to put a finite set in order: of two items one precedes the
\* other, and not in a circle.
Orders(R, S) == /\ \A x \in S : <<x, x>> \notin R
                /\ \A x, y \in S : x # y => <<x, y>> \in R \/ <<y, x>> \in R
                /\ \A x, y, z \in S : <<x, y>> \in R /\ <<y, z>> \in R => <<x, z>> \in R

\* How many items stand before this one.
Place(R, S, x) == Cardinality({y \in S : <<y, x>> \in R})

\* No two items have as many before them, and there is an item for each place.
LEMMA PlaceOfEach ==
  ASSUME NEW S, IsFiniteSet(S), NEW R, Orders(R, S)
  PROVE  /\ \A x \in S : Place(R, S, x) \in 0..(Cardinality(S) - 1)
         /\ \A x, y \in S : <<x, y>> \in R => Place(R, S, x) < Place(R, S, y)
         /\ \A x, y \in S : Place(R, S, x) = Place(R, S, y) => x = y
         /\ \A i \in 1..Cardinality(S) : \E x \in S : Place(R, S, x) = i - 1
<1>. DEFINE below(x) == {y \in S : <<y, x>> \in R}
            n == Cardinality(S)
<1>1. n \in Nat /\ \A x \in S : IsFiniteSet(below(x)) /\ Cardinality(below(x)) \in Nat
  <2>1. \A x \in S : IsFiniteSet(below(x))
    BY FS_Subset
  <2>. QED
    BY <2>1, FS_CardinalityType
<1>2. ASSUME NEW x \in S, NEW y \in S, <<x, y>> \in R
      PROVE  Cardinality(below(x)) < Cardinality(below(y))
  <2>1. below(x) \in SUBSET below(y) /\ x \in below(y) /\ x \notin below(x)
    BY <1>2 DEF Orders
  <2>2. Cardinality(below(x)) <= Cardinality(below(y)) /\ Cardinality(below(x)) # Cardinality(below(y))
    BY <1>1, <2>1, FS_Subset
  <2>. QED
    BY <1>1, <2>2
<1>3. ASSUME NEW x \in S PROVE Cardinality(below(x)) \in 0..(n - 1)
  <2>1. below(x) \in SUBSET S /\ x \notin below(x)
    BY DEF Orders
  <2>2. Cardinality(below(x)) <= n /\ Cardinality(below(x)) # n
    BY <2>1, FS_Subset
  <2>. QED
    BY <1>1, <2>2
<1>. DEFINE place == [x \in S |-> Cardinality(below(x))]
<1>4. place \in Injection(S, 0..(n - 1))
  <2>1. place \in [S -> 0..(n - 1)]
    BY <1>3
  <2>2. ASSUME NEW x \in S, NEW y \in S, place[x] = place[y] PROVE x = y
    <3>1. Cardinality(below(x)) = Cardinality(below(y))
      BY <2>2
    <3>2. ~(Cardinality(below(x)) < Cardinality(below(y))) /\ ~(Cardinality(below(y)) < Cardinality(below(x)))
      BY <1>1, <3>1
    <3>3. <<x, y>> \notin R /\ <<y, x>> \notin R
      BY <1>2, <3>2
    <3>. QED
      BY <3>3 DEF Orders
  <2>. QED
    BY <2>1, <2>2 DEF Injection, IsInjective
<1>5. IsFiniteSet(0..(n - 1)) /\ Cardinality(0..(n - 1)) = n
  BY <1>1, FS_Interval
<1>6. place \in Surjection(S, 0..(n - 1))
  BY <1>4, <1>5, FS_Injection
<1>7. ASSUME NEW i \in 1..n PROVE \E x \in S : Cardinality(below(x)) = i - 1
  <2>1. i - 1 \in 0..(n - 1)
    BY <1>1
  <2>2. PICK x \in S : place[x] = i - 1
    BY <1>6, <2>1 DEF Surjection
  <2>. QED
    BY <2>2
<1>8. ASSUME NEW x \in S, NEW y \in S, Cardinality(below(x)) = Cardinality(below(y)) PROVE x = y
  BY <1>4, <1>8 DEF Injection, IsInjective
<1>9. \A x : Place(R, S, x) = Cardinality(below(x))
  BY DEF Place
<1>. HIDE DEF below
<1>. QED
  BY <1>2, <1>3, <1>7, <1>8, <1>9

\* All items of S are in o, each once, the preceding ones first.
Arranges(o, S, R) ==
  /\ Cardinality(S) \in Nat
  /\ o \in [1..Cardinality(S) -> S]
  /\ \A i, j \in 1..Cardinality(S) : i < j <=> <<o[i], o[j]>> \in R
  /\ \A x \in S : \E i \in 1..Cardinality(S) : o[i] = x

\* Ordered puts all items into places, the preceding ones first.
LEMMA OrderedForm ==
  ASSUME NEW S, IsFiniteSet(S), NEW R, Orders(R, S)
  PROVE  Arranges(Ordered(S, R), S, R)
<1>. DEFINE n == Cardinality(S)
            o == Ordered(S, R)
            place(x) == Place(R, S, x)
<1>1. n \in Nat
  BY FS_CardinalityType
<1>2. /\ \A x \in S : place(x) \in 0..(n - 1)
      /\ \A x, y \in S : <<x, y>> \in R => place(x) < place(y)
      /\ \A x, y \in S : place(x) = place(y) => x = y
      /\ \A i \in 1..n : \E x \in S : place(x) = i - 1
  BY PlaceOfEach
<1>3. o = [i \in 1..n |-> CHOOSE x \in S : place(x) = i - 1]
  BY DEF Ordered, Place
<1>. HIDE DEF place, o
<1>4. \A i \in 1..n : o[i] \in S /\ place(o[i]) = i - 1
  BY <1>2, <1>3
<1>6. ASSUME NEW x \in S PROVE \E i \in 1..n : o[i] = x
  <2>1. place(x) + 1 \in 1..n
    BY <1>1, <1>2
  <2>2. place(o[place(x) + 1]) = place(x) /\ o[place(x) + 1] \in S
    BY <1>1, <1>2, <1>4, <2>1
  <2>. QED
    BY <1>2, <2>1, <2>2
<1>7. ASSUME NEW i \in 1..n, NEW j \in 1..n PROVE i < j <=> <<o[i], o[j]>> \in R
  <2>1. place(o[i]) = i - 1 /\ place(o[j]) = j - 1 /\ o[i] \in S /\ o[j] \in S
    BY <1>4
  <2>2. CASE i < j
    <3>1. o[i] # o[j]
      BY <1>1, <2>1, <2>2
    <3>2. <<o[j], o[i]>> \notin R
      BY <1>1, <1>2, <2>1, <2>2
    <3>. QED
      BY <2>1, <2>2, <3>1, <3>2 DEF Orders
  <2>3. CASE ~(i < j)
    BY <1>1, <1>2, <2>1, <2>3
  <2>. QED
    BY <2>2, <2>3
<1>8. o \in [1..n -> S]
  BY <1>3, <1>4
<1>. QED
  BY <1>1, <1>6, <1>7, <1>8 DEF o, Arranges

\* Numbers in ascending order.
LEMMA AscendingForm ==
  ASSUME NEW S, IsFiniteSet(S), S \subseteq Int
  PROVE  /\ Cardinality(S) \in Nat
         /\ Ascending(S) \in [1..Cardinality(S) -> S]
         /\ \A i, j \in 1..Cardinality(S) : i < j <=> Ascending(S)[i] < Ascending(S)[j]
         /\ \A x \in S : \E i \in 1..Cardinality(S) : Ascending(S)[i] = x
<1>. DEFINE R == {p \in S \X S : p[1] < p[2]}
<1>1. \A x, y \in S : <<x, y>> \in R <=> x < y
  OBVIOUS
<1>. HIDE DEF R
<1>2. Orders(R, S)
  BY <1>1 DEF Orders
<1>3. Ascending(S) = Ordered(S, R)
  BY DEF Ascending, R
<1>4. Arranges(Ordered(S, R), S, R)
  BY <1>2, OrderedForm
<1>. QED
  BY <1>1, <1>3, <1>4 DEF Arranges

\* A function on 1..n is a sequence.
LEMMA FunctionIsSeq ==
  ASSUME NEW S, NEW n \in Nat, NEW f \in [1..n -> S]
  PROVE  f \in Seq(S) /\ Len(f) = n /\ DOMAIN f = 1..n
<1>1. f \in Seq(S)
  BY SeqDef
<1>2. Len(f) \in Nat /\ 1..Len(f) = 1..n
  BY <1>1, LenProperties
<1>. QED
  BY <1>1, <1>2

-----------------------------------------------------------------------------
(***************************************************************************)
(* Sequences                                                               *)
(***************************************************************************)

\* What is in a sequence, and in its extensions.
LEMMA SetOfConcat ==
  ASSUME NEW S, NEW s \in Seq(S), NEW t \in Seq(S)
  PROVE  ToSet(s \o t) = ToSet(s) \cup ToSet(t)
<1>1. /\ s \o t \in Seq(S) /\ Len(s \o t) = Len(s) + Len(t)
      /\ \A i \in 1 .. Len(s) + Len(t) : (s \o t)[i] = IF i <= Len(s) THEN s[i] ELSE t[i - Len(s)]
  BY ConcatProperties
<1>2. /\ DOMAIN s = 1..Len(s) /\ Len(s) \in Nat /\ DOMAIN t = 1..Len(t) /\ Len(t) \in Nat
      /\ DOMAIN (s \o t) = 1..(Len(s) + Len(t))
  BY <1>1, LenProperties
<1>3. ASSUME NEW x \in ToSet(s \o t) PROVE x \in ToSet(s) \cup ToSet(t)
  <2>1. PICK i \in 1..(Len(s) + Len(t)) : x = (s \o t)[i]
    BY <1>2 DEF ToSet
  <2>2. i <= Len(s) => i \in DOMAIN s /\ x = s[i]
    BY <1>1, <1>2, <2>1
  <2>3. ~(i <= Len(s)) => i - Len(s) \in DOMAIN t /\ x = t[i - Len(s)]
    BY <1>1, <1>2, <2>1
  <2>. QED
    BY <2>2, <2>3 DEF ToSet
<1>4. ASSUME NEW x \in ToSet(s) PROVE x \in ToSet(s \o t)
  <2>1. PICK i \in 1..Len(s) : x = s[i]
    BY <1>2 DEF ToSet
  <2>2. i \in 1..(Len(s) + Len(t)) /\ (s \o t)[i] = x
    BY <1>1, <1>2, <2>1
  <2>. QED
    BY <1>2, <2>2 DEF ToSet
<1>5. ASSUME NEW x \in ToSet(t) PROVE x \in ToSet(s \o t)
  <2>1. PICK i \in 1..Len(t) : x = t[i]
    BY <1>2 DEF ToSet
  <2>2. i + Len(s) \in 1..(Len(s) + Len(t)) /\ ~(i + Len(s) <= Len(s)) /\ i + Len(s) - Len(s) = i
    BY <1>2
  <2>3. (s \o t)[i + Len(s)] = x
    BY <1>1, <2>1, <2>2
  <2>. QED
    BY <1>2, <2>2, <2>3 DEF ToSet
<1>. QED
  BY <1>3, <1>4, <1>5

\* A row more at the end: what was there stays where it was.
LEMMA SetOfAppend ==
  ASSUME NEW S, NEW s \in Seq(S), NEW x \in S
  PROVE  /\ Append(s, x) \in Seq(S) /\ Len(Append(s, x)) = Len(s) + 1 /\ Append(s, x) # << >>
         /\ DOMAIN Append(s, x) = 1..(Len(s) + 1)
         /\ \A i \in 1..Len(s) : Append(s, x)[i] = s[i]
         /\ Append(s, x)[Len(s) + 1] = x
         /\ ToSet(Append(s, x)) = ToSet(s) \cup {x}
<1>1. /\ Append(s, x) \in Seq(S) /\ Len(Append(s, x)) = Len(s) + 1 /\ Append(s, x) # << >>
      /\ \A i \in 1..Len(s) : Append(s, x)[i] = s[i]
      /\ Append(s, x)[Len(s) + 1] = x
  BY AppendProperties
<1>2. DOMAIN Append(s, x) = 1..(Len(s) + 1) /\ DOMAIN s = 1..Len(s) /\ Len(s) \in Nat
  BY <1>1, LenProperties
<1>3. 1..(Len(s) + 1) = (1..Len(s)) \cup {Len(s) + 1}
  BY <1>2
<1>4. ToSet(Append(s, x)) = ToSet(s) \cup {x}
  BY <1>1, <1>2, <1>3 DEF ToSet
<1>. QED
  BY <1>1, <1>2, <1>4

\* What is appended to extends what was there.
LEMMA ConcatExtends ==
  ASSUME NEW S, NEW s \in Seq(S), NEW t \in Seq(S)
  PROVE  IsPrefix(s, s \o t)
<1>1. Len(s \o t) = Len(s) + Len(t) /\ Len(s) \in Nat /\ Len(t) \in Nat
  BY ConcatProperties, LenProperties
<1>2. SubSeq(s \o t, 1, Len(s)) = SubSeq(s, 1, Len(s))
  <2>1. CASE Len(s) = 0
    BY <2>1, SubSeqEmpty
  <2>2. CASE Len(s) # 0
    <3>1. 1 \in 1..Len(s) /\ Len(s) \in 1..Len(s)
      BY <1>1, <2>2
    <3>. QED
      BY <3>1, SubSeqOfConcat1
  <2>. QED
    BY <2>1, <2>2
<1>. QED
  BY <1>1, <1>2 DEF IsPrefix

-----------------------------------------------------------------------------
(***************************************************************************)
(* Numbers and FlattenSeq                                                  *)
(***************************************************************************)

\* The least of some numbers; so a number that is in no circle of arguments:
\* what holds of no least counterexample holds of all.
LEMMA Least ==
  ASSUME NEW S \in SUBSET Nat, S # {}
  PROVE  \E m \in S : \A k \in S : m <= k
<1>. DEFINE T == {0..m : m \in S}
            R == StrictSubsetOrdering(Nat)
<1>1. T \subseteq FiniteSubsetsOf(Nat)
  <2>1. \A m \in S : IsFiniteSet(0..m)
    BY FS_Interval
  <2>. QED
    BY <2>1 DEF FiniteSubsetsOf
<1>2. T # {}
  OBVIOUS
<1>3. \E x \in T : \A y \in T : ~ (<<y, x>> \in R)
  <2>. HIDE DEF T, R
  <2>1. IsWellFoundedOn(R, FiniteSubsetsOf(Nat))
    BY FS_StrictSubsetOrderingWellFounded DEF R
  <2>. QED
    BY <1>1, <1>2, <2>1, WFMin
<1>4. PICK m \in S : \A k \in S : <<0..k, 0..m>> \notin R
  BY <1>3
<1>5. ASSUME NEW k \in S, k < m PROVE FALSE
  <2>1. 0..k \subseteq 0..m /\ 0..k # 0..m
    <3>1. m \in 0..m /\ m \notin 0..k
      BY <1>5
    <3>. QED
      BY <3>1, <1>5
  <2>2. 0..k \in SUBSET Nat /\ 0..m \in SUBSET Nat
    OBVIOUS
  <2>. QED
    BY <2>1, <2>2, <1>4 DEF StrictSubsetOrdering
<1>. QED
  BY <1>5

\* FlattenSeq, by the functions that satisfy its recursion.
Flattens(f, seqs, n) == f = [i \in 1..n |-> IF i = 1 THEN seqs[i] ELSE f[i - 1] \o seqs[i]]

\* There is such a function for every length: no length is the least without one.
LEMMA FlattenExists ==
  ASSUME NEW seqs, NEW n \in Nat
  PROVE  \E f : Flattens(f, seqs, n)
<1>. DEFINE Bad == {k \in Nat : ~\E f : Flattens(f, seqs, k)}
<1>1. SUFFICES ASSUME Bad # {} PROVE FALSE
  OBVIOUS
<1>2. PICK m \in Bad : \A k \in Bad : m <= k
  <2>1. Bad \in SUBSET Nat
    OBVIOUS
  <2>. HIDE DEF Bad
  <2>. QED
    BY <1>1, <2>1, Least
<1>3. m # 0
  <2>1. Flattens([i \in 1..0 |-> 0], seqs, 0)
    BY DEF Flattens
  <2>. QED
    BY <2>1
<1>4. m - 1 \in Nat /\ m - 1 \notin Bad
  BY <1>2, <1>3
<1>5. PICK g : Flattens(g, seqs, m - 1)
  BY <1>4
<1>. DEFINE h == [i \in 1..m |-> IF i < m THEN g[i] ELSE IF i = 1 THEN seqs[i] ELSE g[i - 1] \o seqs[i]]
<1>6. \A i \in 1..(m - 1) : g[i] = IF i = 1 THEN seqs[i] ELSE g[i - 1] \o seqs[i]
  BY <1>5 DEF Flattens
<1>7. \A i \in 1..m : h[i] = IF i = 1 THEN seqs[i] ELSE h[i - 1] \o seqs[i]
  <2>1. ASSUME NEW i \in 1..m, i < m PROVE h[i] = IF i = 1 THEN seqs[i] ELSE h[i - 1] \o seqs[i]
    <3>1. i \in 1..(m - 1) /\ h[i] = g[i]
      BY <1>4, <2>1
    <3>2. i # 1 => i - 1 \in 1..m /\ i - 1 < m /\ h[i - 1] = g[i - 1]
      BY <1>4, <2>1
    <3>. HIDE DEF h
    <3>. QED
      BY <1>6, <3>1, <3>2
  <2>2. ASSUME NEW i \in 1..m, i = m PROVE h[i] = IF i = 1 THEN seqs[i] ELSE h[i - 1] \o seqs[i]
    <3>1. h[i] = IF i = 1 THEN seqs[i] ELSE g[i - 1] \o seqs[i]
      BY <1>4, <2>2
    <3>2. i # 1 => i - 1 \in 1..m /\ i - 1 < m /\ h[i - 1] = g[i - 1]
      BY <1>4, <2>2
    <3>. HIDE DEF h
    <3>. QED
      BY <3>1, <3>2
  <2>3. \A i \in 1..m : i < m \/ i = m
    BY <1>4
  <2>. HIDE DEF h
  <2>. QED
    BY <2>1, <2>2, <2>3
<1>8. Flattens(h, seqs, m)
  <2>1. h = [i \in 1..m |-> h[i]]
    OBVIOUS
  <2>. HIDE DEF h
  <2>. QED
    BY <1>7, <2>1 DEF Flattens
<1>. QED
  BY <1>8

\* Two sequences without repetition, and nothing in common.
LEMMA ConcatInjective ==
  ASSUME NEW S, NEW s \in Seq(S), NEW t \in Seq(S), IsInjective(s), IsInjective(t), ToSet(s) \cap ToSet(t) = {}
  PROVE  IsInjective(s \o t)
<1>1. /\ DOMAIN s = 1..Len(s) /\ Len(s) \in Nat /\ DOMAIN t = 1..Len(t) /\ Len(t) \in Nat
      /\ DOMAIN (s \o t) = 1..(Len(s) + Len(t))
      /\ \A i \in 1 .. Len(s) + Len(t) : (s \o t)[i] = IF i <= Len(s) THEN s[i] ELSE t[i - Len(s)]
  BY ConcatProperties, LenProperties
<1>2. ASSUME NEW i \in DOMAIN (s \o t), NEW j \in DOMAIN (s \o t), (s \o t)[i] = (s \o t)[j] PROVE i = j
  <2>1. \A k \in DOMAIN (s \o t) :
          /\ k <= Len(s) => k \in DOMAIN s /\ (s \o t)[k] = s[k] /\ s[k] \in ToSet(s)
          /\ ~(k <= Len(s)) => k - Len(s) \in DOMAIN t /\ (s \o t)[k] = t[k - Len(s)] /\ t[k - Len(s)] \in ToSet(t)
    BY <1>1 DEF ToSet
  <2>2. i <= Len(s) <=> j <= Len(s)
    BY <1>2, <2>1
  <2>3. i <= Len(s) => i = j
    BY <1>2, <2>1, <2>2 DEF IsInjective
  <2>4. ~(i <= Len(s)) => i - Len(s) = j - Len(s)
    BY <1>2, <2>1, <2>2 DEF IsInjective
  <2>. QED
    BY <1>1, <2>3, <2>4
<1>. QED
  BY <1>2 DEF IsInjective

\* Sequences without repetition, and no two with anything in common.
Distinct(seqs) == /\ \A i \in DOMAIN seqs : IsInjective(seqs[i])
                  /\ \A i, j \in DOMAIN seqs : i # j => ToSet(seqs[i]) \cap ToSet(seqs[j]) = {}

\* What is in one of the sequences is in all of them put together, and no more;
\* it is there once when it was.
LEMMA FlattenForm ==
  ASSUME NEW S, NEW seqs \in Seq(Seq(S))
  PROVE  /\ FlattenSeq(seqs) \in Seq(S)
         /\ ToSet(FlattenSeq(seqs)) = UNION {ToSet(seqs[i]) : i \in DOMAIN seqs}
         /\ Distinct(seqs) => IsInjective(FlattenSeq(seqs))
<1>. DEFINE n == Len(seqs)
<1>1. n \in Nat /\ DOMAIN seqs = 1..n /\ \A i \in 1..n : seqs[i] \in Seq(S)
  BY LenProperties, ElementOfSeq
<1>2. CASE n = 0
  <2>1. FlattenSeq(seqs) = seqs
    BY <1>2 DEF FlattenSeq
  <2>2. seqs = << >> /\ DOMAIN seqs = {}
    BY <1>1, <1>2, EmptySeq
  <2>3. seqs \in Seq(S) /\ ToSet(seqs) = {} /\ IsInjective(seqs)
    BY <2>2, EmptySeq DEF ToSet, IsInjective
  <2>. QED
    BY <2>1, <2>2, <2>3
<1>3. CASE n # 0
  <2>. DEFINE f == CHOOSE f : Flattens(f, seqs, n)
  <2>1. FlattenSeq(seqs) = f[n]
    BY <1>3 DEF FlattenSeq, Flattens
  <2>2. Flattens(f, seqs, n)
    BY <1>1, FlattenExists
  <2>. HIDE DEF f
  <2>3. \A i \in 1..n : f[i] = IF i = 1 THEN seqs[i] ELSE f[i - 1] \o seqs[i]
    BY <2>2 DEF Flattens
  <2>. DEFINE Of(k) == UNION {ToSet(seqs[i]) : i \in 1..k}
              Fine(k) == f[k] \in Seq(S) /\ ToSet(f[k]) = Of(k) /\ (Distinct(seqs) => IsInjective(f[k]))
              Bad == {k \in 1..n : ~Fine(k)}
  <2>4. Bad = {}
    <3>1. SUFFICES ASSUME Bad # {} PROVE FALSE
      OBVIOUS
    <3>2. PICK m \in Bad : \A k \in Bad : m <= k
      <4>1. Bad \in SUBSET Nat
        BY <1>1
      <4>. HIDE DEF Bad
      <4>. QED
        BY <3>1, <4>1, Least
    <3>3. m \in 1..n /\ ~Fine(m)
      OBVIOUS
    <3>4. CASE m = 1
      <4>1. f[1] = seqs[1] /\ seqs[1] \in Seq(S) /\ 1 \in DOMAIN seqs
        BY <1>1, <2>3, <3>3, <3>4
      <4>2. 1..1 = {1}
        OBVIOUS
      <4>3. Of(1) = ToSet(seqs[1])
        BY <4>2
      <4>4. Fine(1)
        BY <4>1, <4>3 DEF Distinct
      <4>. QED
        BY <3>3, <3>4, <4>4
    <3>5. CASE m # 1
      <4>1. m - 1 \in 1..n /\ ~(m <= m - 1) /\ m \in DOMAIN seqs
        BY <1>1, <3>3, <3>5
      <4>2. Fine(m - 1)
        BY <3>2, <4>1
      <4>3. f[m] = f[m - 1] \o seqs[m] /\ seqs[m] \in Seq(S)
        BY <1>1, <2>3, <3>3, <3>5
      <4>4. f[m] \in Seq(S) /\ ToSet(f[m]) = ToSet(f[m - 1]) \cup ToSet(seqs[m])
        BY <4>2, <4>3, SetOfConcat, ConcatProperties
      <4>5. 1..m = (1..(m - 1)) \cup {m} /\ m \notin 1..(m - 1) /\ 1..(m - 1) \subseteq DOMAIN seqs
        BY <1>1, <3>3
      <4>6. Of(m) = Of(m - 1) \cup ToSet(seqs[m])
        BY <4>5
      <4>7. ASSUME Distinct(seqs) PROVE IsInjective(f[m])
        <5>1. IsInjective(f[m - 1]) /\ IsInjective(seqs[m])
          BY <4>1, <4>2, <4>7 DEF Distinct
        <5>2. \A i \in 1..(m - 1) : ToSet(seqs[i]) \cap ToSet(seqs[m]) = {}
          BY <4>1, <4>5, <4>7 DEF Distinct
        <5>3. ToSet(f[m - 1]) \cap ToSet(seqs[m]) = {}
          BY <4>2, <5>2
        <5>. QED
          BY <4>2, <4>3, <5>1, <5>3, ConcatInjective
      <4>8. Fine(m)
        BY <4>2, <4>4, <4>6, <4>7
      <4>. QED
        BY <3>3, <4>8
    <3>. QED
      BY <3>4, <3>5
  <2>5. n \in 1..n
    BY <1>1, <1>3
  <2>6. Fine(n)
    BY <2>4, <2>5
  <2>. QED
    BY <1>1, <2>1, <2>6
<1>. QED
  BY <1>2, <1>3

-----------------------------------------------------------------------------
(***************************************************************************)
(* The model registry (Registry)                                           *)
(***************************************************************************)

\* Rows of one repository agree on its revision and its license.
Licensed(rows) == \A a, b \in rows : a.repository = b.repository =>
                     a.revision = b.revision /\ a.license = b.license
\* No two rows have the same key.
OwnKeys(rows)  == \A i, j \in DOMAIN rows : rows[i].key = rows[j].key => i = j
\* What rows say of the configuration.
Terms(rows)    == {Contract(row) : row \in rows}

\* A lock that could have been written: own keys, one revision for each repository,
\* and the terms of one of the configurations.
Locked(lock) == /\ lock.rows \in Seq(LockRow) /\ lock.depth \in Nat
                /\ OwnKeys(lock.rows) /\ Licensed(ToSet(lock.rows))
                /\ \E c \in Configs : Terms(ToSet(lock.rows)) = ToSet(c)

\* The command looks for what the lock does not have, and with it has what a
\* configuration asks for.
Wanted == /\ OwnKeys(resolver.wanted)
          /\ Keys(resolver.wanted) \cap Keys(ParentRows) = {}
          /\ \E c \in Configs : Terms(ToSet(ParentRows)) \cup ToSet(resolver.wanted) = ToSet(c)

\* It has found the first of what it looks for, at revisions that agree.
Found == /\ Len(resolver.rows) <= Len(resolver.wanted)
         /\ \A i \in DOMAIN resolver.rows : Contract(resolver.rows[i]) = resolver.wanted[i]
         /\ Licensed(ToSet(ParentRows) \cup ToSet(resolver.rows))

\* The command at each of its stages, with the lock that it read still there.
Resolving ==
  /\ resolver \in [pc : {"read", "hash", "resolve", "replace"}, parent : {registry}, wanted : Seq(Candidates),
                   hash : Configs \cup {<< >>}, rows : Seq(LockRow), tries : Nat]
  /\ resolver.pc = "read" => resolver.rows = << >>
  /\ resolver.pc # "read" => Wanted /\ Found
  /\ resolver.pc = "hash" => Len(resolver.rows) = IF Parent = NoRegistry THEN Len(resolver.wanted) ELSE 0
  /\ resolver.pc = "resolve" => Len(resolver.rows) < Len(resolver.wanted)
  /\ resolver.pc = "replace" => resolver.rows # << >> /\ Len(resolver.rows) = Len(resolver.wanted)

\* The inductive invariant of the registry: whatever the command has in memory
\* fits the lock that it will replace (_build_registry, _extend_registry).
RegistryInv == /\ config \in Configs
               /\ hub \in [Repositories -> [revision : Nat, license : Licenses, open : BOOLEAN]]
               /\ registry = NoRegistry \/ Locked(registry)
               /\ resolver = NoResolver \/ Resolving

\* A candidate is its own contract, and is of the repositories, licenses and terms
\* that there are.
LEMMA CandidateForm ==
  ASSUME NEW c \in Candidates
  PROVE  /\ c = Contract(c)
         /\ c.key \in {d.key : d \in Candidates} /\ c.repository \in Repositories
         /\ c.license \in {d.license : d \in Candidates} /\ c.terms \in {d.terms : d \in Candidates}
<1>1. PICK f \in Configs : c \in ToSet(f)
  BY DEF Candidates
<1>2. PICK i \in DOMAIN f : c = f[i]
  BY <1>1 DEF ToSet
<1>3. c = Contract(c)
  BY <1>2, RegistryAssumption
<1>4. c.repository \in Repositories
  BY <1>2 DEF Repositories
<1>. QED
  BY <1>3, <1>4

\* A configuration is a list of candidates, each with a key of its own.
LEMMA ConfigIsSeq ==
  ASSUME NEW c \in Configs
  PROVE  c \in Seq(Candidates) /\ c # << >> /\ OwnKeys(c) /\ ToSet(c) \subseteq Candidates
<1>1. c \in Seq(ToSet(c)) /\ c # << >> /\ OwnKeys(c)
  BY RegistryAssumption DEF OwnKeys
<1>2. ToSet(c) \subseteq Candidates
  BY DEF Candidates
<1>3. c \in Seq(Candidates)
  BY <1>1, <1>2, SeqMonotonic
<1>. QED
  BY <1>1, <1>2, <1>3

\* The keys of a list depend on which rows it has.
LEMMA KeysOfSet == ASSUME NEW s PROVE Keys(s) = {r.key : r \in ToSet(s)}
  BY DEF Keys, ToSet

\* When the keys are all different there are as many as rows.
LEMMA AsManyKeys ==
  ASSUME NEW S, NEW s \in Seq(S), OwnKeys(s)
  PROVE  Cardinality(Keys(s)) = Len(s)
<1>. DEFINE named == [i \in 1..Len(s) |-> s[i].key]
<1>1. DOMAIN s = 1..Len(s) /\ Len(s) \in Nat
  BY LenProperties
<1>2. named \in Bijection(1..Len(s), Keys(s))
  <2>1. named \in [1..Len(s) -> Keys(s)] /\ \A y \in Keys(s) : \E i \in 1..Len(s) : named[i] = y
    BY <1>1 DEF Keys
  <2>2. \A i, j \in 1..Len(s) : named[i] = named[j] => i = j
    BY <1>1 DEF OwnKeys
  <2>. QED
    BY <2>1, <2>2 DEF Bijection, Injection, Surjection, IsInjective
<1>3. IsFiniteSet(1..Len(s)) /\ Cardinality(1..Len(s)) = Len(s)
  BY <1>1, FS_Interval
<1>. HIDE DEF named
<1>. QED
  BY <1>2, <1>3, FS_Surjection DEF Bijection

\* Two lists without a key in common, put together, have the keys of both.
LEMMA KeysOfConcat ==
  ASSUME NEW S, NEW s \in Seq(S), NEW t \in Seq(S), OwnKeys(s), OwnKeys(t), Keys(s) \cap Keys(t) = {}
  PROVE  OwnKeys(s \o t) /\ Keys(s \o t) = Keys(s) \cup Keys(t)
<1>1. /\ s \o t \in Seq(S) /\ Len(s \o t) = Len(s) + Len(t)
      /\ \A i \in 1 .. Len(s) + Len(t) : (s \o t)[i] = IF i <= Len(s) THEN s[i] ELSE t[i - Len(s)]
  BY ConcatProperties
<1>2. /\ DOMAIN s = 1..Len(s) /\ Len(s) \in Nat /\ DOMAIN t = 1..Len(t) /\ Len(t) \in Nat
      /\ DOMAIN (s \o t) = 1..(Len(s) + Len(t))
  BY <1>1, LenProperties
<1>3. ASSUME NEW i \in 1..(Len(s) + Len(t)), NEW j \in 1..(Len(s) + Len(t)), (s \o t)[i].key = (s \o t)[j].key
      PROVE  i = j
  <2>1. \A k \in 1..(Len(s) + Len(t)) :
          /\ k <= Len(s) => k \in DOMAIN s /\ (s \o t)[k] = s[k]
          /\ ~(k <= Len(s)) => k - Len(s) \in DOMAIN t /\ (s \o t)[k] = t[k - Len(s)]
    BY <1>1, <1>2
  <2>2. \A k \in DOMAIN s, l \in DOMAIN t : s[k].key # t[l].key
    BY DEF Keys
  <2>3. CASE i <= Len(s) /\ j <= Len(s)
    BY <1>3, <2>1, <2>3 DEF OwnKeys
  <2>4. CASE ~(i <= Len(s)) /\ ~(j <= Len(s))
    <3>1. i - Len(s) = j - Len(s)
      BY <1>3, <2>1, <2>4 DEF OwnKeys
    <3>. QED
      BY <1>2, <3>1
  <2>5. CASE i <= Len(s) /\ ~(j <= Len(s))
    BY <1>3, <2>1, <2>2, <2>5
  <2>6. CASE ~(i <= Len(s)) /\ j <= Len(s)
    BY <1>3, <2>1, <2>2, <2>6
  <2>. QED
    BY <2>3, <2>4, <2>5, <2>6
<1>4. OwnKeys(s \o t)
  BY <1>2, <1>3 DEF OwnKeys
<1>5. Keys(s \o t) = Keys(s) \cup Keys(t)
  BY SetOfConcat, KeysOfSet
<1>. QED
  BY <1>4, <1>5

\* The candidates that have no row yet.
LEMMA UnlistedForm ==
  ASSUME config \in Configs
  PROVE  /\ Unlisted \in Seq(Candidates) /\ OwnKeys(Unlisted)
         /\ ToSet(Unlisted) = {c \in ToSet(config) : c.key \notin Keys(ParentRows)}
<1>. DEFINE S == {i \in DOMAIN config : config[i].key \notin Keys(ParentRows)}
            new == Ascending(S)
<1>1. config \in Seq(Candidates) /\ OwnKeys(config) /\ DOMAIN config = 1..Len(config) /\ Len(config) \in Nat
  BY ConfigIsSeq, LenProperties
<1>2. IsFiniteSet(S) /\ S \subseteq Int
  <2>1. IsFiniteSet(1..Len(config)) /\ S \in SUBSET (1..Len(config))
    BY <1>1, FS_Interval
  <2>. QED
    BY <1>1, <2>1, FS_Subset
<1>3. /\ Cardinality(S) \in Nat /\ DOMAIN new = 1..Cardinality(S)
      /\ \A i \in DOMAIN new : new[i] \in S
      /\ \A i, j \in DOMAIN new : i < j => new[i] < new[j]
      /\ \A x \in S : \E i \in DOMAIN new : new[i] = x
  <2>1. /\ Cardinality(S) \in Nat /\ new \in [1..Cardinality(S) -> S]
        /\ \A i, j \in 1..Cardinality(S) : i < j <=> new[i] < new[j]
        /\ \A x \in S : \E i \in 1..Cardinality(S) : new[i] = x
    BY <1>2, AscendingForm
  <2>. HIDE DEF S, new
  <2>. QED
    BY <2>1
<1>4. Unlisted = [n \in DOMAIN new |-> config[new[n]]]
  BY DEF Unlisted
<1>. HIDE DEF new
<1>5. ToSet(Unlisted) = {config[i] : i \in S}
  <2>1. DOMAIN Unlisted = DOMAIN new /\ \A n \in DOMAIN new : Unlisted[n] = config[new[n]]
    BY <1>4
  <2>. HIDE DEF S
  <2>. QED
    BY <1>3, <2>1 DEF ToSet
<1>6. {config[i] : i \in S} = {c \in ToSet(config) : c.key \notin Keys(ParentRows)}
  BY DEF ToSet
<1>7. Unlisted \in Seq(Candidates)
  <2>1. \A n \in DOMAIN new : config[new[n]] \in Candidates
    BY <1>1, <1>3
  <2>2. Unlisted \in [1..Cardinality(S) -> Candidates]
    BY <1>3, <1>4, <2>1
  <2>. HIDE DEF S
  <2>. QED
    BY <1>3, <2>2, SeqDef
<1>8. OwnKeys(Unlisted)
  <2>1. ASSUME NEW i \in DOMAIN new, NEW j \in DOMAIN new, config[new[i]].key = config[new[j]].key
        PROVE  i = j
    <3>1. new[i] = new[j]
      BY <1>1, <1>3, <2>1 DEF OwnKeys
    <3>2. new[i] \in Int /\ ~(new[i] < new[j]) /\ ~(new[j] < new[i])
      BY <1>2, <1>3, <3>1
    <3>3. ~(i < j) /\ ~(j < i)
      BY <1>3, <3>2
    <3>. QED
      BY <1>3, <3>3
  <2>. QED
    BY <1>4, <2>1 DEF OwnKeys
<1>. QED
  BY <1>5, <1>6, <1>7, <1>8

\* What a command that runs knows of the lock it read.
LEMMA ParentOf ==
  ASSUME RegistryInv, resolver # NoResolver
  PROVE  /\ Resolving /\ Parent = registry
         /\ ParentRows \in Seq(LockRow) /\ OwnKeys(ParentRows) /\ Licensed(ToSet(ParentRows))
         /\ Parent # NoRegistry => Locked(Parent) /\ ParentRows = Parent.rows
<1>1. Resolving /\ Parent = registry
  BY DEF RegistryInv, Resolving, Parent
<1>2. CASE Parent = NoRegistry
  <2>1. ParentRows = << >> /\ ToSet(ParentRows) = {} /\ DOMAIN ParentRows = {}
    BY <1>2 DEF ParentRows, ToSet
  <2>. QED
    BY <1>1, <1>2, <2>1, EmptySeq DEF OwnKeys, Licensed
<1>3. CASE Parent # NoRegistry
  <2>1. Locked(Parent) /\ ParentRows = Parent.rows
    BY <1>1, <1>3 DEF RegistryInv, ParentRows
  <2>. QED
    BY <1>1, <2>1 DEF Locked
<1>. QED
  BY <1>2, <1>3

\* Nothing is resolved at first.
LEMMA InitRegistry == Unresolved => RegistryInv
<1>1. ASSUME Unresolved PROVE RegistryInv
  <2>1. hub \in [Repositories -> [revision : Nat, license : Licenses, open : BOOLEAN]]
    BY <1>1 DEF Unresolved, Hubs
  <2>. QED
    BY <1>1, <2>1 DEF Unresolved, Unlocked, RegistryInv
<1>. QED
  BY <1>1

\* The command reads the lock that is there.
LEMMA ReadLockKeeps == RegistryInv /\ ReadLock => RegistryInv'
<1>. SUFFICES ASSUME RegistryInv, ReadLock PROVE RegistryInv'
  OBVIOUS
<1>1. resolver' = [pc |-> "read", parent |-> registry, wanted |-> << >>, hash |-> << >>, rows |-> << >>, tries |-> 0]
  BY DEF ReadLock, NoResolver
<1>2. Resolving'
  <2>1. << >> \in Seq(Candidates) /\ << >> \in Seq(LockRow) /\ registry' = registry
    BY EmptySeq DEF ReadLock
  <2>. QED
    BY <1>1, <2>1 DEF Resolving
<1>. QED
  BY <1>2 DEF RegistryInv, ReadLock, Elsewhere, Locked

\* It reads the configuration, and asks for what has no row.
LEMMA ReadConfigKeeps == RegistryInv /\ ReadConfig => RegistryInv'
<1>. SUFFICES ASSUME RegistryInv, ReadConfig PROVE RegistryInv'
  OBVIOUS
<1>0. UNCHANGED <<config, hub, registry>> /\ config \in Configs
  BY DEF RegistryInv, ReadConfig, Elsewhere
<1>1. resolver # NoResolver /\ resolver.pc = "read"
  BY DEF ReadConfig, NoResolver
<1>2. /\ Resolving /\ Parent = registry
      /\ ParentRows \in Seq(LockRow) /\ OwnKeys(ParentRows) /\ Licensed(ToSet(ParentRows))
      /\ resolver.rows = << >>
  BY <1>1, ParentOf DEF Resolving
<1>3. CASE ~ Undrifted
  BY <1>0, <1>3 DEF ReadConfig, Abandon, RegistryInv, Locked
<1>4. CASE Undrifted
  <2>1. /\ Unlisted \in Seq(Candidates) /\ OwnKeys(Unlisted)
        /\ ToSet(Unlisted) = {c \in ToSet(config) : c.key \notin Keys(ParentRows)}
    BY <1>0, UnlistedForm
  <2>2. resolver' = [resolver EXCEPT !.pc = IF Parent = NoRegistry THEN "resolve" ELSE "hash", !.wanted = Unlisted]
    BY <1>4 DEF ReadConfig
  <2>. DEFINE R == [pc : {"read", "hash", "resolve", "replace"}, parent : {registry}, wanted : Seq(Candidates),
                   hash : Configs \cup {<< >>}, rows : Seq(LockRow), tries : Nat]
  <2>3. /\ resolver' \in R /\ resolver'.wanted = Unlisted /\ resolver'.rows = << >> /\ resolver'.parent = Parent
        /\ resolver'.pc = IF Parent = NoRegistry THEN "resolve" ELSE "hash"
    BY <1>2, <2>1, <2>2 DEF Resolving, Parent
  <2>4. Parent' = Parent /\ ParentRows' = ParentRows
    BY <2>3 DEF Parent, ParentRows
  <2>5. Terms(ToSet(ParentRows)) \cup ToSet(Unlisted) = ToSet(config)
    <3>1. ASSUME NEW row \in ToSet(ParentRows) PROVE Contract(row) \in ToSet(config)
      <4>1. PICK i \in DOMAIN ParentRows : row = ParentRows[i]
        BY DEF ToSet
      <4>. QED
        BY <1>4, <4>1 DEF Undrifted, ToSet
    <3>2. ASSUME NEW c \in ToSet(config), c.key \in Keys(ParentRows) PROVE c \in Terms(ToSet(ParentRows))
      <4>1. PICK i \in DOMAIN ParentRows : c.key = ParentRows[i].key
        BY <3>2 DEF Keys
      <4>2. PICK j \in DOMAIN config : config[j] = Contract(ParentRows[i])
        BY <1>4 DEF Undrifted
      <4>3. PICK k \in DOMAIN config : c = config[k]
        BY DEF ToSet
      <4>4. config[j].key = config[k].key
        BY <4>1, <4>2, <4>3 DEF Contract
      <4>5. j = k
        BY <1>0, <4>4, ConfigIsSeq DEF OwnKeys
      <4>. QED
        BY <4>2, <4>3, <4>5 DEF Terms, ToSet
    <3>. QED
      BY <2>1, <3>1, <3>2 DEF Terms
  <2>6. Wanted'
    <3>1. Keys(Unlisted) \cap Keys(ParentRows) = {}
      BY <2>1, KeysOfSet
    <3>. QED
      BY <1>0, <2>1, <2>3, <2>4, <2>5, <3>1 DEF Wanted
  <2>7. Found'
    <3>1. ToSet(resolver'.rows) = {} /\ DOMAIN (resolver'.rows) = {} /\ Len(resolver'.rows) = 0 /\ Len(Unlisted) \in Nat
      BY <2>1, <2>3, LenProperties, EmptySeq DEF ToSet
    <3>. QED
      BY <1>2, <2>3, <2>4, <3>1 DEF Found, Licensed
  <2>8. ASSUME Parent = NoRegistry PROVE 0 < Len(Unlisted)
    <3>1. Keys(ParentRows) = {}
      BY <2>8 DEF ParentRows, Keys
    <3>2. config # << >> /\ config \in Seq(Candidates)
      BY <1>0, ConfigIsSeq
    <3>3. 1 \in DOMAIN config
      BY <3>2, EmptySeq, LenProperties
    <3>4. ToSet(Unlisted) # {}
      BY <2>1, <3>1, <3>3 DEF ToSet
    <3>5. Unlisted # << >>
      BY <3>4 DEF ToSet
    <3>. QED
      BY <2>1, <3>5, EmptySeq
  <2>9. Len(resolver'.rows) = 0
    BY <2>3
  <2>10. Resolving'
    BY <1>0, <2>3, <2>4, <2>6, <2>7, <2>8, <2>9 DEF Resolving
  <2>. QED
    BY <1>0, <2>10 DEF RegistryInv, Locked
<1>. QED
  BY <1>3, <1>4

\* The command ends, or something else happens that leaves it and the lock alone.
LEMMA OthersKeep ==
  ASSUME RegistryInv, registry' = registry, resolver' \in {resolver, NoResolver}, config' \in Configs,
         hub' \in [Repositories -> [revision : Nat, license : Licenses, open : BOOLEAN]]
  PROVE  RegistryInv'
<1>1. resolver' = resolver => Resolving' = Resolving
  BY DEF Resolving, Wanted, Found, Parent, ParentRows
<1>. QED
  BY <1>1 DEF RegistryInv, Locked

\* It reads the configuration again for its digest.
LEMMA HashConfigKeeps == RegistryInv /\ HashConfig => RegistryInv'
<1>. SUFFICES ASSUME RegistryInv, HashConfig PROVE RegistryInv'
  OBVIOUS
<1>1. /\ UNCHANGED <<config, hub, registry>> /\ config \in Configs
      /\ hub \in [Repositories -> [revision : Nat, license : Licenses, open : BOOLEAN]]
  BY DEF RegistryInv, HashConfig, Elsewhere
<1>2. resolver # NoResolver /\ resolver.pc = "hash"
  BY DEF HashConfig, NoResolver
<1>3. Resolving /\ Parent = registry
  BY <1>2, ParentOf
<1>4. CASE Parent # NoRegistry /\ resolver.wanted = << >>
  BY <1>1, <1>4, OthersKeep DEF HashConfig, Abandon
<1>5. CASE ~(Parent # NoRegistry /\ resolver.wanted = << >>)
  <2>1. resolver' = [resolver EXCEPT !.hash = config, !.pc = IF Parent = NoRegistry THEN "replace" ELSE "resolve"]
    BY <1>5 DEF HashConfig
  <2>. DEFINE R == [pc : {"read", "hash", "resolve", "replace"}, parent : {registry}, wanted : Seq(Candidates),
                   hash : Configs \cup {<< >>}, rows : Seq(LockRow), tries : Nat]
  <2>2. /\ resolver' \in R /\ resolver'.wanted = resolver.wanted /\ resolver'.rows = resolver.rows
        /\ resolver'.parent = Parent /\ resolver'.pc = IF Parent = NoRegistry THEN "replace" ELSE "resolve"
    BY <1>1, <1>3, <2>1 DEF Resolving, Parent
  <2>3. Parent' = Parent /\ ParentRows' = ParentRows
    BY <2>2 DEF Parent, ParentRows
  <2>4. Wanted' /\ Found'
    BY <1>1, <1>2, <1>3, <2>2, <2>3 DEF Resolving, Wanted, Found
  <2>5. /\ resolver.wanted \in Seq(Candidates) /\ resolver.rows \in Seq(LockRow)
        /\ Len(resolver.rows) = IF Parent = NoRegistry THEN Len(resolver.wanted) ELSE 0
    BY <1>2, <1>3 DEF Resolving
  <2>6. CASE Parent = NoRegistry
    <3>1. resolver.rows # << >>
      <4>1. ParentRows = << >> /\ ToSet(ParentRows) = {}
        BY <2>6 DEF ParentRows, ToSet
      <4>2. PICK c \in Configs : Terms(ToSet(ParentRows)) \cup ToSet(resolver.wanted) = ToSet(c)
        BY <1>2, <1>3 DEF Resolving, Wanted
      <4>3. ToSet(resolver.wanted) = ToSet(c)
        BY <4>1, <4>2 DEF Terms
      <4>4. c # << >> /\ c \in Seq(Candidates)
        BY ConfigIsSeq
      <4>5. 1 \in DOMAIN c
        BY <4>4, EmptySeq, LenProperties
      <4>6. ToSet(resolver.wanted) # {}
        BY <4>3, <4>5 DEF ToSet
      <4>7. resolver.wanted # << >>
        BY <4>6 DEF ToSet
      <4>8. Len(resolver.wanted) # 0
        BY <2>5, <4>7, EmptySeq
      <4>. QED
        BY <2>5, <2>6, <4>8, EmptySeq
    <3>. QED
      BY <1>1, <2>2, <2>3, <2>4, <2>5, <2>6, <3>1 DEF Resolving, RegistryInv, Locked
  <2>7. CASE Parent # NoRegistry
    <3>1. Len(resolver.rows) = 0 /\ Len(resolver.wanted) \in Nat \ {0}
      BY <1>5, <2>5, <2>7, EmptySeq
    <3>. QED
      BY <1>1, <2>2, <2>3, <2>4, <2>7, <3>1 DEF Resolving, RegistryInv, Locked
  <2>. QED
    BY <2>6, <2>7
<1>. QED
  BY <1>4, <1>5

\* A row for the next candidate, which agrees with the rows of its repository.
LEMMA ResolvedKeeps ==
  ASSUME RegistryInv, resolver.pc = "resolve", UNCHANGED <<config, hub, registry>>,
         NEW found, Resolved(found), found.revision \in Nat,
         \A row \in ToSet(ParentRows) \cup ToSet(resolver.rows) :
           row.repository = wanted.repository => row.revision = found.revision /\ row.license = wanted.license
  PROVE  RegistryInv'
<1>. DEFINE row == [key |-> wanted.key, repository |-> wanted.repository, license |-> wanted.license,
                    terms |-> wanted.terms, revision |-> found.revision]
            R   == [pc : {"read", "hash", "resolve", "replace"}, parent : {registry}, wanted : Seq(Candidates),
                    hash : Configs \cup {<< >>}, rows : Seq(LockRow), tries : Nat]
            n   == Len(resolver.rows)
<1>1. resolver # NoResolver
  BY DEF NoResolver
<1>2. /\ Resolving /\ Parent = registry /\ Wanted /\ Found
      /\ resolver \in R /\ n < Len(resolver.wanted)
  BY <1>1, ParentOf DEF Resolving
<1>3. /\ resolver.rows \in Seq(LockRow) /\ resolver.wanted \in Seq(Candidates)
      /\ n \in Nat /\ Len(resolver.wanted) \in Nat
      /\ DOMAIN resolver.rows = 1..n /\ DOMAIN resolver.wanted = 1..Len(resolver.wanted)
  BY <1>2, LenProperties
<1>4. wanted \in Candidates
  <2>1. n + 1 \in 1..Len(resolver.wanted)
    BY <1>2, <1>3
  <2>. QED
    BY <1>3, <2>1, ElementOfSeq DEF wanted
<1>5. /\ row \in LockRow /\ Contract(row) = wanted
      /\ row.repository = wanted.repository /\ row.license = wanted.license /\ row.revision = found.revision
  <2>1. /\ wanted = Contract(wanted)
        /\ wanted.key \in {d.key : d \in Candidates} /\ wanted.repository \in Repositories
        /\ wanted.license \in {d.license : d \in Candidates} /\ wanted.terms \in {d.terms : d \in Candidates}
    BY <1>4, CandidateForm
  <2>2. Contract(row) = Contract(wanted)
    BY DEF Contract
  <2>. QED
    BY <2>1, <2>2 DEF LockRow
<1>6. /\ resolver'.rows = Append(resolver.rows, row) /\ resolver'.wanted = resolver.wanted
      /\ resolver'.parent = resolver.parent /\ resolver' \in R
      /\ resolver'.pc = IF n + 1 < Len(resolver.wanted) THEN "resolve"
                        ELSE IF Parent = NoRegistry THEN "hash" ELSE "replace"
  <2>. HIDE DEF row
  <2>1. Append(resolver.rows, row) \in Seq(LockRow)
    BY <1>3, <1>5, AppendProperties
  <2>2. resolver' = [resolver EXCEPT !.rows = Append(@, row), !.tries = 0,
                      !.pc = IF n + 1 < Len(resolver.wanted) THEN "resolve"
                             ELSE IF Parent = NoRegistry THEN "hash" ELSE "replace"]
    BY DEF Resolved, row
  <2>. QED
    BY <1>2, <2>1, <2>2
<1>. HIDE DEF row
<1>7. Parent' = Parent /\ ParentRows' = ParentRows
  BY <1>6 DEF Parent, ParentRows
<1>8. /\ Append(resolver.rows, row) \in Seq(LockRow) /\ Len(Append(resolver.rows, row)) = n + 1
      /\ Append(resolver.rows, row) # << >>
      /\ DOMAIN Append(resolver.rows, row) = 1..(n + 1)
      /\ \A i \in 1..n : Append(resolver.rows, row)[i] = resolver.rows[i]
      /\ Append(resolver.rows, row)[n + 1] = row
      /\ ToSet(Append(resolver.rows, row)) = ToSet(resolver.rows) \cup {row}
  BY <1>3, <1>5, SetOfAppend
<1>9. Licensed(ToSet(ParentRows) \cup ToSet(Append(resolver.rows, row)))
  <2>1. Licensed(ToSet(ParentRows) \cup ToSet(resolver.rows))
    BY <1>2 DEF Found
  <2>. QED
    BY <1>5, <1>8, <2>1 DEF Licensed
<1>10. \A i \in 1..(n + 1) : Contract(Append(resolver.rows, row)[i]) = resolver.wanted[i]
  <2>1. Contract(Append(resolver.rows, row)[n + 1]) = resolver.wanted[n + 1]
    BY <1>5, <1>8 DEF wanted
  <2>2. \A i \in 1..n : Contract(Append(resolver.rows, row)[i]) = resolver.wanted[i]
    BY <1>2, <1>3, <1>8 DEF Found
  <2>3. 1..(n + 1) = (1..n) \cup {n + 1}
    BY <1>3
  <2>. QED
    BY <2>1, <2>2, <2>3
<1>11. Wanted' /\ Found'
  <2>1. Wanted'
    BY <1>2, <1>6, <1>7 DEF Wanted
  <2>2. n + 1 <= Len(resolver.wanted)
    BY <1>2, <1>3
  <2>3. Found'
    BY <1>6, <1>7, <1>8, <1>9, <1>10, <2>2 DEF Found
  <2>. QED
    BY <2>1, <2>3
<1>12. Resolving'
  <2>1. n + 1 <= Len(resolver.wanted) /\ (~(n + 1 < Len(resolver.wanted)) => n + 1 = Len(resolver.wanted))
    BY <1>2, <1>3
  <2>2. Len(resolver'.rows) = n + 1 /\ resolver'.rows # << >>
    BY <1>6, <1>8
  <2>. QED
    BY <1>6, <1>7, <1>11, <2>1, <2>2 DEF Resolving
<1>. QED
  BY <1>12 DEF RegistryInv, Locked

\* A repository that is known gives the row its revision.
LEMMA ReuseKeeps == RegistryInv /\ Reuse => RegistryInv'
<1>. SUFFICES ASSUME RegistryInv, Reuse PROVE RegistryInv'
  OBVIOUS
<1>. DEFINE known == Known(wanted.repository)
<1>1. /\ UNCHANGED <<config, hub, registry>> /\ config \in Configs
      /\ hub \in [Repositories -> [revision : Nat, license : Licenses, open : BOOLEAN]]
      /\ resolver.pc = "resolve"
  BY DEF RegistryInv, Reuse, Elsewhere
<1>2. /\ resolver # NoResolver /\ Resolving /\ ParentRows \in Seq(LockRow) /\ resolver.rows \in Seq(LockRow)
      /\ Licensed(ToSet(ParentRows) \cup ToSet(resolver.rows))
  <2>1. resolver # NoResolver
    BY <1>1 DEF NoResolver
  <2>. QED
    BY <1>1, <2>1, ParentOf DEF Resolving, Found
<1>3. CASE {row.license : row \in known} = {wanted.license} /\ \E row \in known : Resolved(row)
  <2>1. PICK r \in known : Resolved(r)
    BY <1>3
  <2>2. /\ r \in ToSet(ParentRows) \cup ToSet(resolver.rows)
        /\ r.repository = wanted.repository
    BY DEF Known
  <2>3. r.license = wanted.license
    <3>1. r.license \in {row.license : row \in known}
      OBVIOUS
    <3>. QED
      BY <1>3, <3>1
  <2>4. r \in LockRow
    BY <1>2, <2>2, LenProperties DEF ToSet
  <2>5. r.revision \in Nat
    BY <2>4 DEF LockRow
  <2>6. \A row \in ToSet(ParentRows) \cup ToSet(resolver.rows) :
          row.repository = wanted.repository => row.revision = r.revision /\ row.license = wanted.license
    BY <1>2, <2>2, <2>3 DEF Licensed
  <2>. QED
    BY <1>1, <2>1, <2>5, <2>6, ResolvedKeeps
<1>4. CASE Abandon
  BY <1>1, <1>4, OthersKeep DEF Abandon
<1>. QED
  BY <1>3, <1>4 DEF Reuse

\* A repository that is not known gives its head: no other row is of it.
LEMMA FetchKeeps == RegistryInv /\ Fetch => RegistryInv'
<1>. SUFFICES ASSUME RegistryInv, Fetch PROVE RegistryInv'
  OBVIOUS
<1>1. /\ UNCHANGED <<config, hub, registry>> /\ config \in Configs
      /\ hub \in [Repositories -> [revision : Nat, license : Licenses, open : BOOLEAN]]
      /\ resolver.pc = "resolve" /\ Known(wanted.repository) = {}
  BY DEF RegistryInv, Fetch, Elsewhere
<1>2. CASE Resolved(hub[wanted.repository])
  <2>1. resolver # NoResolver /\ Resolving
    BY <1>1, ParentOf DEF NoResolver
  <2>2. wanted \in Candidates
    <3>1. /\ resolver.wanted \in Seq(Candidates) /\ resolver.rows \in Seq(LockRow)
          /\ Len(resolver.rows) < Len(resolver.wanted)
      BY <1>1, <2>1 DEF Resolving
    <3>2. Len(resolver.rows) + 1 \in 1..Len(resolver.wanted)
      BY <3>1, LenProperties
    <3>. QED
      BY <3>1, <3>2, ElementOfSeq DEF wanted
  <2>3. wanted.repository \in Repositories
    BY <2>2, CandidateForm
  <2>4. hub[wanted.repository].revision \in Nat
    BY <1>1, <2>3
  <2>5. \A row \in ToSet(ParentRows) \cup ToSet(resolver.rows) : row.repository # wanted.repository
    BY <1>1 DEF Known
  <2>. QED
    BY <1>1, <1>2, <2>4, <2>5, ResolvedKeeps
<1>3. CASE Abandon
  BY <1>1, <1>3, OthersKeep DEF Abandon
<1>. QED
  BY <1>2, <1>3 DEF Fetch

\* The hub does not answer, and is tried again or given up.
LEMMA FetchFailsKeeps == RegistryInv /\ FetchFails => RegistryInv'
<1>. SUFFICES ASSUME RegistryInv, FetchFails PROVE RegistryInv'
  OBVIOUS
<1>1. /\ UNCHANGED <<config, hub, registry>> /\ config \in Configs
      /\ hub \in [Repositories -> [revision : Nat, license : Licenses, open : BOOLEAN]]
      /\ resolver.pc = "resolve"
  BY DEF RegistryInv, FetchFails, Elsewhere
<1>2. CASE resolver' = [resolver EXCEPT !.tries = @ + 1]
  <2>1. resolver # NoResolver /\ Resolving
    BY <1>1, ParentOf DEF NoResolver
  <2>2. resolver \in [pc : {"read", "hash", "resolve", "replace"}, parent : {registry}, wanted : Seq(Candidates),
                   hash : Configs \cup {<< >>}, rows : Seq(LockRow), tries : Nat]
    BY <2>1 DEF Resolving
  <2>3. /\ resolver' \in [pc : {"read", "hash", "resolve", "replace"}, parent : {registry}, wanted : Seq(Candidates),
                   hash : Configs \cup {<< >>}, rows : Seq(LockRow), tries : Nat]
        /\ resolver'.wanted = resolver.wanted /\ resolver'.rows = resolver.rows
        /\ resolver'.parent = resolver.parent /\ resolver'.pc = resolver.pc
    BY <1>2, <2>2
  <2>4. Parent' = Parent /\ ParentRows' = ParentRows
    BY <2>3 DEF Parent, ParentRows
  <2>5. Wanted' = Wanted /\ Found' = Found
    BY <2>3, <2>4 DEF Wanted, Found
  <2>6. Resolving'
    BY <1>1, <2>1, <2>3, <2>4, <2>5 DEF Resolving
  <2>. QED
    BY <1>1, <2>6 DEF RegistryInv, Locked
<1>3. CASE Abandon
  BY <1>1, <1>3, OthersKeep DEF Abandon
<1>. QED
  BY <1>2, <1>3 DEF FetchFails

\* The lock that is written holds the rows of the old one and what was found.
LEMMA ReplaceLockWrites ==
  ASSUME RegistryInv, ReplaceLock
  PROVE  /\ Locked(registry') /\ Successor(registry, registry')
         /\ registry'.rows \in Seq(LockRow)
<1>. DEFINE rows == ParentRows \o resolver.rows
<1>1. resolver # NoResolver /\ resolver.pc = "replace"
  BY DEF ReplaceLock, NoResolver
<1>2. /\ Resolving /\ Parent = registry /\ Wanted /\ Found
      /\ ParentRows \in Seq(LockRow) /\ OwnKeys(ParentRows)
      /\ Parent # NoRegistry => Locked(Parent) /\ ParentRows = Parent.rows
      /\ resolver.rows \in Seq(LockRow) /\ resolver.wanted \in Seq(Candidates)
      /\ resolver.rows # << >> /\ Len(resolver.rows) = Len(resolver.wanted)
  BY <1>1, ParentOf DEF Resolving
<1>3. /\ DOMAIN resolver.rows = 1..Len(resolver.rows) /\ DOMAIN resolver.wanted = 1..Len(resolver.rows)
      /\ Len(resolver.rows) \in Nat
  BY <1>2, LenProperties
<1>4. \A i \in DOMAIN resolver.rows : /\ i \in DOMAIN resolver.wanted
                                      /\ Contract(resolver.rows[i]) = resolver.wanted[i]
                                      /\ resolver.rows[i].key = resolver.wanted[i].key
  <2>1. \A i \in DOMAIN resolver.rows : /\ i \in DOMAIN resolver.wanted
                                        /\ Contract(resolver.rows[i]) = resolver.wanted[i]
    BY <1>2, <1>3 DEF Found
  <2>2. \A row : Contract(row).key = row.key
    BY DEF Contract
  <2>. QED
    BY <2>1, <2>2
<1>5. OwnKeys(resolver.rows) /\ Keys(resolver.rows) = Keys(resolver.wanted)
  <2>1. OwnKeys(resolver.wanted)
    BY <1>2 DEF Wanted
  <2>2. OwnKeys(resolver.rows)
    BY <1>4, <2>1 DEF OwnKeys
  <2>3. Keys(resolver.rows) = Keys(resolver.wanted)
    BY <1>3, <1>4 DEF Keys
  <2>. QED
    BY <2>2, <2>3
<1>6. /\ OwnKeys(rows) /\ Keys(rows) = Keys(ParentRows) \cup Keys(resolver.rows)
      /\ Keys(ParentRows) \cap Keys(resolver.rows) = {}
      /\ rows \in Seq(LockRow) /\ ToSet(rows) = ToSet(ParentRows) \cup ToSet(resolver.rows)
  <2>1. Keys(ParentRows) \cap Keys(resolver.rows) = {}
    BY <1>2, <1>5 DEF Wanted
  <2>. QED
    BY <1>2, <1>5, <2>1, KeysOfConcat, SetOfConcat, ConcatProperties
<1>7. Licensed(ToSet(rows))
  BY <1>2, <1>6 DEF Found
<1>8. \E c \in Configs : Terms(ToSet(rows)) = ToSet(c)
  <2>1. Terms(ToSet(resolver.rows)) = ToSet(resolver.wanted)
    BY <1>3, <1>4 DEF Terms, ToSet
  <2>2. Terms(ToSet(rows)) = Terms(ToSet(ParentRows)) \cup Terms(ToSet(resolver.rows))
    BY <1>6 DEF Terms
  <2>. QED
    BY <1>2, <2>1, <2>2 DEF Wanted
<1>9. Cardinality(Keys(rows)) = Len(rows)
  BY <1>6, AsManyKeys
<1>10. Keys(resolver.rows) # {}
  <2>1. 1 \in DOMAIN resolver.rows
    BY <1>2, <1>3, EmptySeq
  <2>. QED
    BY <2>1 DEF Keys
<1>11. \A lock : lock.rows = rows =>
         /\ \A i, j \in DOMAIN lock.rows : lock.rows[i].repository = lock.rows[j].repository =>
              lock.rows[i].revision = lock.rows[j].revision /\ lock.rows[i].license = lock.rows[j].license
         /\ \E c \in Configs : {Contract(lock.rows[i]) : i \in DOMAIN lock.rows} = ToSet(c)
  <2>1. \A i \in DOMAIN rows : rows[i] \in ToSet(rows)
    BY DEF ToSet
  <2>2. {Contract(rows[i]) : i \in DOMAIN rows} = Terms(ToSet(rows))
    BY DEF Terms, ToSet
  <2>. HIDE DEF rows
  <2>. QED
    BY <1>7, <1>8, <2>1, <2>2 DEF Licensed
<1>14. ASSUME NEW lock, lock.rows = rows, lock.depth \in Nat PROVE Locked(lock)
  <2>. HIDE DEF rows
  <2>1. lock.rows \in Seq(LockRow) /\ OwnKeys(lock.rows) /\ Licensed(ToSet(lock.rows))
    BY <1>6, <1>7, <1>14
  <2>2. \E c \in Configs : Terms(ToSet(lock.rows)) = ToSet(c)
    BY <1>8, <1>14
  <2>. QED
    BY <1>14, <2>1, <2>2 DEF Locked
<1>12. CASE Parent = NoRegistry
  <2>1. registry' = FirstLock /\ registry = NoRegistry
    BY <1>2, <1>12 DEF ReplaceLock
  <2>2. ParentRows = << >> /\ Keys(ParentRows) = {} /\ rows = resolver.rows
    <3>1. ParentRows = << >>
      BY <1>12 DEF ParentRows
    <3>. QED
      BY <1>2, <3>1, ConcatEmptySeq DEF Keys
  <2>3. /\ registry'.rows = rows /\ registry'.parent = NoRegistry /\ registry'.depth = 0
        /\ registry'.kept = {} /\ registry'.added = Keys(resolver.rows)
    BY <2>1, <2>2 DEF FirstLock
  <2>. HIDE DEF rows
  <2>4. Loads(registry')
    BY <1>6, <1>9, <2>2, <2>3 DEF Loads
  <2>5. Locked(registry')
    BY <1>14, <2>3
  <2>. QED
    BY <1>6, <1>11, <2>1, <2>3, <2>4, <2>5 DEF Successor
<1>13. CASE Parent # NoRegistry
  <2>1. registry' = ExtendedLock /\ registry = Parent /\ ParentRows = Parent.rows /\ Locked(Parent)
    BY <1>2, <1>13 DEF ReplaceLock
  <2>2. /\ registry'.rows = rows /\ registry'.parent = ParentRows /\ registry'.depth = Parent.depth + 1
        /\ registry'.kept = Keys(ParentRows) /\ registry'.added = Keys(resolver.rows)
    BY <2>1 DEF ExtendedLock
  <2>3. Parent.depth \in Nat /\ ParentRows # NoRegistry
    BY <1>2, <2>1, RegistryAssumption DEF Locked
  <2>4. IsPrefix(ParentRows, rows)
    BY <1>2, ConcatExtends
  <2>. HIDE DEF rows
  <2>5. Loads(registry')
    <3>1. Parent.depth + 1 >= 1
      BY <2>3
    <3>. QED
      BY <1>6, <1>9, <2>2, <2>3, <3>1 DEF Loads
  <2>6. Locked(registry')
    <3>1. Parent.depth + 1 \in Nat
      BY <2>3
    <3>. QED
      BY <1>14, <2>2, <3>1
  <2>7. /\ registry = NoRegistry => registry'.parent = NoRegistry
        /\ registry # NoRegistry => registry'.parent = registry.rows /\ IsPrefix(registry.rows, registry'.rows)
                                    /\ registry'.added # {}
    BY <1>10, <1>13, <2>1, <2>2, <2>4
  <2>. QED
    BY <1>6, <1>11, <2>2, <2>5, <2>6, <2>7 DEF Successor
<1>. QED
  BY <1>12, <1>13

\* The lock is replaced.
LEMMA ReplaceLockKeeps == RegistryInv /\ ReplaceLock => RegistryInv'
<1>1. RegistryInv /\ ReplaceLock => Locked(registry')
  BY ReplaceLockWrites
<1>. QED
  BY <1>1 DEF RegistryInv, ReplaceLock, Abandon, Elsewhere

\* A repository has a new revision.
LEMMA RepositoryMovesKeeps == RegistryInv /\ RepositoryMoves => RegistryInv'
<1>. SUFFICES ASSUME RegistryInv, RepositoryMoves PROVE RegistryInv'
  OBVIOUS
<1>1. UNCHANGED <<config, registry, resolver>> /\ config \in Configs
  BY DEF RepositoryMoves, RegistryInv
<1>2. PICK r \in Repositories, l \in Licenses, open \in BOOLEAN :
        hub' = [hub EXCEPT ![r] = [revision |-> hub[r].revision + 1, license |-> l, open |-> open]]
  BY DEF RepositoryMoves
<1>3. hub \in [Repositories -> [revision : Nat, license : Licenses, open : BOOLEAN]]
  BY DEF RegistryInv
<1>4. hub' \in [Repositories -> [revision : Nat, license : Licenses, open : BOOLEAN]]
  <2>1. [revision |-> hub[r].revision + 1, license |-> l, open |-> open]
          \in [revision : Nat, license : Licenses, open : BOOLEAN]
    BY <1>3
  <2>. QED
    BY <1>2, <1>3, <2>1
<1>. QED
  BY <1>1, <1>4, OthersKeep

\* Every step keeps the invariant.
LEMMA RegistryStep == RegistryInv /\ [RegistryNext]_registryVars => RegistryInv'
<1>. SUFFICES ASSUME RegistryInv, [RegistryNext]_registryVars PROVE RegistryInv'
  OBVIOUS
<1>1. config \in Configs /\ hub \in [Repositories -> [revision : Nat, license : Licenses, open : BOOLEAN]]
  BY DEF RegistryInv
<1>2. CASE ResolverStops
  BY <1>1, <1>2, OthersKeep DEF ResolverStops, Abandon, Elsewhere
<1>3. CASE EditConfig
  BY <1>1, <1>3, OthersKeep DEF EditConfig
<1>4. CASE UNCHANGED registryVars
  BY <1>1, <1>4, OthersKeep DEF registryVars
<1>. QED
  BY <1>2, <1>3, <1>4, ReadLockKeeps, ReadConfigKeeps, HashConfigKeeps, ReuseKeeps, FetchKeeps, FetchFailsKeeps,
     ReplaceLockKeeps, RepositoryMovesKeeps DEF RegistryNext

\* Only the replacement writes the lock.
LEMMA OnlyReplaced == RegistryInv /\ RegistryNext /\ registry' # registry => Successor(registry, registry')
<1>1. RegistryNext /\ registry' # registry => ReplaceLock
  BY DEF RegistryNext, ReadLock, ReadConfig, HashConfig, Reuse, Fetch, FetchFails, ResolverStops, EditConfig,
         RepositoryMoves
<1>. QED
  BY <1>1, ReplaceLockWrites

\* The invariant holds of every configuration, hub and number of attempts: a lock
\* has one row for each key, one revision for each repository, and the terms of
\* a configuration (_build_registry, _extend_registry).
THEOREM RegistryInvHolds == RegistrySpec => []RegistryInv
  BY InitRegistry, RegistryStep, PTL DEF RegistrySpec

\* A lock is only ever replaced by one that begins with its rows, adds at least one,
\* repeats no key and lets no repository have two revisions (_extend_registry).
THEOREM LocksAreAppendOnly == RegistrySpec => RegistryIsAppendOnly
<1>1. RegistryInv /\ [RegistryNext]_registryVars
        => [registry' # registry => Successor(registry, registry')]_registryVars
  BY OnlyReplaced
<1>. QED
  BY <1>1, RegistryInvHolds, PTL DEF RegistrySpec, RegistryIsAppendOnly

-----------------------------------------------------------------------------
(***************************************************************************)
(* Folds (Splits)                                                          *)
(***************************************************************************)

\* Each record has a question of its own.
OneQuestionEach(records) == Cardinality(AllQuestions(records)) = Len(records)

\* When the names of the questions are all different, a question is of one document.
LEMMA QuestionsHaveDocuments ==
  ASSUME NEW S, NEW records \in Seq(S), OneQuestionEach(records)
  PROVE  \A q, D : q \in QuestionsOf(records, D) <=> q \in AllQuestions(records) /\ DocumentOf(records, q) \in D
<1>. DEFINE all == AllQuestions(records)
            named == [i \in 1..Len(records) |-> records[i].question]
<1>1. DOMAIN records = 1..Len(records) /\ Len(records) \in Nat
  BY LenProperties
<1>2. all = {records[i].question : i \in 1..Len(records)}
  BY <1>1 DEF AllQuestions, QuestionsOf, DocumentsOf
<1>3. named \in Surjection(1..Len(records), all)
  BY <1>2 DEF Surjection
<1>4. IsFiniteSet(1..Len(records)) /\ Cardinality(1..Len(records)) = Len(records)
  BY <1>1, FS_Interval
<1>5. named \in Injection(1..Len(records), all)
  <2>. HIDE DEF named
  <2>. QED
    BY <1>3, <1>4, FS_Surjection DEF OneQuestionEach
<1>6. \A i, j \in DOMAIN records : records[i].question = records[j].question => i = j
  BY <1>1, <1>5 DEF Injection, IsInjective
<1>7. \A i \in DOMAIN records : DocumentOf(records, records[i].question) = records[i].document
  BY <1>6 DEF DocumentOf
<1>8. ASSUME NEW q, NEW D
      PROVE  q \in QuestionsOf(records, D) <=> q \in all /\ DocumentOf(records, q) \in D
  <2>1. ASSUME q \in QuestionsOf(records, D) PROVE q \in all /\ DocumentOf(records, q) \in D
    <3>1. PICK i \in DOMAIN records : records[i].document \in D /\ q = records[i].question
      BY <2>1 DEF QuestionsOf
    <3>. QED
      BY <1>1, <1>2, <1>7, <3>1
  <2>2. ASSUME q \in all, DocumentOf(records, q) \in D PROVE q \in QuestionsOf(records, D)
    <3>1. PICK i \in DOMAIN records : q = records[i].question
      BY <1>1, <1>2, <2>2
    <3>. QED
      BY <1>7, <2>2, <3>1 DEF QuestionsOf
  <2>. QED
    BY <2>1, <2>2
<1>. QED
  BY <1>8

\* A list of records is of finitely many documents.
LEMMA DocumentsAreFinite ==
  ASSUME NEW S, NEW records \in Seq(S)
  PROVE  IsFiniteSet(DocumentsOf(records))
<1>. DEFINE of == [i \in 1..Len(records) |-> records[i].document]
<1>1. DOMAIN records = 1..Len(records) /\ Len(records) \in Nat
  BY LenProperties
<1>2. of \in Surjection(1..Len(records), DocumentsOf(records))
  BY <1>1 DEF Surjection, DocumentsOf
<1>3. IsFiniteSet(1..Len(records))
  BY <1>1, FS_Interval
<1>. HIDE DEF of
<1>. QED
  BY <1>2, <1>3, FS_Surjection

\* There is a place for each of the documents in a level of folds.
LEMMA FoldPlaces ==
  ASSUME NEW records, NEW D, IsFiniteSet(D)
  PROVE  LET folds == LeaveOneOut(records, D) IN
         /\ Cardinality(D) \in Nat /\ DOMAIN folds = 1..Cardinality(D)
         /\ \A n \in DOMAIN folds : folds[n] = Fold(records, D, folds[n].held)
<1>1. Cardinality(D) \in Nat
  BY FS_CardinalityType
<1>2. DOMAIN Ascending(D) = 1..Cardinality(D)
  BY DEF Ascending, Ordered
<1>3. \A held : Fold(records, D, held).held = held
  BY DEF Fold
<1>. QED
  BY <1>1, <1>2, <1>3 DEF LeaveOneOut

\* When the documents that are held out are D, each once, each of D has its fold.
LEMMA OneFoldEach ==
  ASSUME NEW D, NEW n \in Nat, NEW folds, DOMAIN folds = 1..n, Exactly(HeldOut(folds), D), NEW d \in D
  PROVE  Cardinality({k \in DOMAIN folds : folds[k].held = d}) = 1
<1>. DEFINE held == HeldOut(folds)
<1>1. held = [k \in 1..n |-> folds[k].held]
  BY DEF HeldOut
<1>2. held \in Seq({folds[k].held : k \in 1..n}) /\ Len(held) = n
  <2>1. held \in [1..n -> {folds[k].held : k \in 1..n}]
    BY <1>1
  <2>. HIDE DEF held
  <2>. QED
    BY <2>1, FunctionIsSeq
<1>3. held \in Surjection(1..n, D)
  BY <1>1 DEF Exactly, ToSet, Surjection
<1>4. Cardinality(D) = n
  BY <1>2 DEF Exactly
<1>5. IsFiniteSet(1..n) /\ Cardinality(1..n) = n
  BY FS_Interval
<1>6. held \in Injection(1..n, D)
  <2>. HIDE DEF held
  <2>. QED
    BY <1>3, <1>4, <1>5, FS_Surjection
<1>7. PICK k \in 1..n : folds[k].held = d
  BY <1>1, <1>3 DEF Surjection
<1>8. {j \in DOMAIN folds : folds[j].held = d} = {k}
  BY <1>1, <1>6, <1>7 DEF Injection, IsInjective
<1>. QED
  BY <1>8, FS_Singleton

\* A fold of the documents D, the questions of which are all: it trains on those
\* of the other documents, and validates on those of the one it holds out.
LEMMA FoldIsApart ==
  ASSUME NEW S, NEW records \in Seq(S), OneQuestionEach(records),
         NEW D, NEW held, NEW fold, fold = Fold(records, D, held),
         NEW all, all = QuestionsOf(records, D), Divided(fold, all)
  PROVE  /\ fold.held = held
         /\ \A q \in fold.learned : DocumentOf(records, q) # held
         /\ \A q \in all : q \in ToSet(fold.validated) <=> DocumentOf(records, q) = held
         /\ fold.learned \cup ToSet(fold.validated) = all
<1>1. fold.held = held /\ fold.learned = QuestionsOf(records, D \ {held})
  BY DEF Fold
<1>2. \A q : /\ q \in fold.learned <=> q \in AllQuestions(records) /\ DocumentOf(records, q) \in D \ {held}
             /\ q \in all <=> q \in AllQuestions(records) /\ DocumentOf(records, q) \in D
  BY <1>1, QuestionsHaveDocuments
<1>. QED
  BY <1>1, <1>2 DEF Divided

\* Whatever is asked about whatever documents: folds that pass the validation of
\* the builder are isolated (build_nested_leave_one_document_out_folds).
THEOREM ValidFoldsAreIsolated ==
  ASSUME NEW S, NEW records \in Seq(S), Folds(records).ok
  PROVE  Isolated(Folds(records).nested, records)
<1>. DEFINE docs   == DocumentsOf(records)
            all    == AllQuestions(records)
            nested == NestedFolds(records)
            outer  == LeaveOneOut(records, docs)
            of(q)  == DocumentOf(records, q)
<1>1. OneQuestionEach(records) /\ ValidNested(nested, records) /\ Folds(records).nested = nested
  BY DEF Folds, OneQuestionEach
<1>2. IsFiniteSet(docs)
  BY DocumentsAreFinite
<1>3. /\ DOMAIN outer = 1..Cardinality(docs) /\ Cardinality(docs) \in Nat
      /\ \A n \in DOMAIN outer : outer[n] = Fold(records, docs, outer[n].held)
  BY <1>2, FoldPlaces
<1>4. /\ DOMAIN nested = DOMAIN outer
      /\ \A n \in DOMAIN outer : /\ nested[n].fold = outer[n]
                                 /\ nested[n].inner = LeaveOneOut(records, outer[n].train)
                                 /\ outer[n].train = docs \ {outer[n].held}
                                 /\ outer[n].learned = QuestionsOf(records, outer[n].train)
  <2>1. \A n \in DOMAIN outer : /\ outer[n].train = docs \ {outer[n].held}
                                /\ outer[n].learned = QuestionsOf(records, outer[n].train)
    <3>1. \A held : /\ Fold(records, docs, held).train = docs \ {held}
                    /\ Fold(records, docs, held).learned = QuestionsOf(records, Fold(records, docs, held).train)
      BY DEF Fold
    <3>. HIDE DEF docs, outer
    <3>. QED
      BY <1>3, <3>1
  <2>2. /\ DOMAIN nested = DOMAIN outer
        /\ \A n \in DOMAIN outer : nested[n] = [fold |-> outer[n], inner |-> LeaveOneOut(records, outer[n].train)]
    BY DEF NestedFolds
  <2>. HIDE DEF docs, nested, outer
  <2>. QED
    BY <2>1, <2>2
<1>5. all = QuestionsOf(records, docs)
  BY DEF AllQuestions
<1>6. ValidFolds([n \in DOMAIN nested |-> nested[n].fold], records)
  BY <1>1 DEF ValidNested
<1>7. [n \in DOMAIN nested |-> nested[n].fold] = outer
  <2>1. outer = [n \in DOMAIN outer |-> outer[n]]
    BY DEF LeaveOneOut
  <2>. HIDE DEF nested, outer
  <2>. QED
    BY <1>4, <2>1
<1>14. \A n \in DOMAIN nested :
         /\ Exactly(HeldOut(nested[n].inner), nested[n].fold.train)
         /\ \A k \in DOMAIN nested[n].inner : Divided(nested[n].inner[k], nested[n].fold.learned)
  <2>. HIDE DEF nested
  <2>. QED
    BY <1>1 DEF ValidNested, ValidInner
<1>. HIDE DEF docs, all, nested, outer
<1>8. \A n \in DOMAIN outer : Divided(outer[n], all)
  BY <1>6, <1>7 DEF ValidFolds, all
<1>9. \A n \in DOMAIN outer :
        /\ \A q \in outer[n].learned : of(q) # outer[n].held
        /\ \A q \in all : q \in ToSet(outer[n].validated) <=> of(q) = outer[n].held
        /\ outer[n].learned \cup ToSet(outer[n].validated) = all
  BY <1>1, <1>3, <1>5, <1>8, FoldIsApart
<1>10. \A q \in all : of(q) \in docs
  BY <1>1, <1>5, QuestionsHaveDocuments
<1>11. ASSUME NEW q \in all PROVE Cardinality({n \in DOMAIN outer : q \in ToSet(outer[n].validated)}) = 1
  <2>1. {n \in DOMAIN outer : q \in ToSet(outer[n].validated)} = {n \in DOMAIN outer : outer[n].held = of(q)}
    BY <1>9
  <2>2. Exactly(HeldOut(outer), docs)
    BY <1>6, <1>7 DEF ValidFolds, docs
  <2>. QED
    BY <1>3, <1>10, <2>1, <2>2, OneFoldEach
<1>12. ASSUME NEW n \in DOMAIN outer
       PROVE  /\ Once(nested[n].inner, outer[n].learned)
              /\ \A k \in DOMAIN nested[n].inner :
                   /\ Apart(nested[n].inner[k], records)
                   /\ nested[n].inner[k].learned \cup ToSet(nested[n].inner[k].validated) \subseteq outer[n].learned
  <2>. DEFINE inner   == nested[n].inner
              D       == outer[n].train
              learned == outer[n].learned
  <2>1. inner = LeaveOneOut(records, D) /\ learned = QuestionsOf(records, D) /\ D \in SUBSET docs
    BY <1>4
  <2>2. IsFiniteSet(D)
    BY <1>2, <2>1, FS_Subset
  <2>3. /\ DOMAIN inner = 1..Cardinality(D) /\ Cardinality(D) \in Nat
        /\ \A k \in DOMAIN inner : inner[k] = Fold(records, D, inner[k].held)
    BY <2>1, <2>2, FoldPlaces
  <2>4. /\ Exactly(HeldOut(inner), D)
        /\ \A k \in DOMAIN inner : Divided(inner[k], learned)
    BY <1>4, <1>14
  <2>. HIDE DEF inner, D, learned
  <2>5. \A k \in DOMAIN inner :
          /\ \A q \in inner[k].learned : of(q) # inner[k].held
          /\ \A q \in learned : q \in ToSet(inner[k].validated) <=> of(q) = inner[k].held
          /\ inner[k].learned \cup ToSet(inner[k].validated) = learned
    BY <1>1, <2>1, <2>3, <2>4, FoldIsApart
  <2>6. \A q \in learned : of(q) \in D
    BY <1>1, <2>1, QuestionsHaveDocuments
  <2>7. ASSUME NEW q \in learned
        PROVE  Cardinality({k \in DOMAIN inner : q \in ToSet(inner[k].validated)}) = 1
    <3>1. {k \in DOMAIN inner : q \in ToSet(inner[k].validated)} = {k \in DOMAIN inner : inner[k].held = of(q)}
      BY <2>5
    <3>. QED
      BY <2>3, <2>4, <2>6, <3>1, OneFoldEach
  <2>8. \A k \in DOMAIN inner :
          /\ Apart(inner[k], records)
          /\ inner[k].learned \cup ToSet(inner[k].validated) \subseteq learned
    BY <2>5 DEF Apart
  <2>9. Once(inner, learned)
    BY <2>7 DEF Once
  <2>. QED
    BY <2>8, <2>9 DEF inner, learned
<1>13. Isolated(nested, records)
  <2>1. [n \in DOMAIN nested |-> nested[n].fold] = outer /\ DOMAIN nested = DOMAIN outer
        /\ \A n \in DOMAIN outer : nested[n].fold = outer[n]
    BY <1>4, <1>7
  <2>2. \A n \in DOMAIN outer : Apart(outer[n], records)
    BY <1>9 DEF Apart
  <2>3. Once(outer, all)
    BY <1>11 DEF Once
  <2>. QED
    BY <1>12, <2>1, <2>2, <2>3 DEF Isolated, all
<1>. QED
  BY <1>1, <1>13

\* A list without repetition is as long as it has members.
LEMMA InjectiveIsExact ==
  ASSUME NEW S, NEW s \in Seq(S), IsInjective(s)
  PROVE  Len(s) = Cardinality(ToSet(s)) /\ IsFiniteSet(ToSet(s))
<1>1. DOMAIN s = 1..Len(s) /\ Len(s) \in Nat /\ s \in [1..Len(s) -> S]
  BY LenProperties
<1>2. s \in Bijection(1..Len(s), ToSet(s))
  BY <1>1 DEF ToSet, IsInjective, Bijection, Injection, Surjection
<1>3. IsFiniteSet(1..Len(s)) /\ Cardinality(1..Len(s)) = Len(s)
  BY <1>1, FS_Interval
<1>. QED
  BY <1>2, <1>3, FS_Surjection DEF Bijection

\* A set of numbers in ascending order.
LEMMA AscendingIsExact ==
  ASSUME NEW D, IsFiniteSet(D), D \subseteq Int
  PROVE  /\ Ascending(D) \in Seq(Int) /\ IsInjective(Ascending(D))
         /\ Exactly(Ascending(D), D) /\ DOMAIN Ascending(D) = 1..Cardinality(D)
         /\ \A i \in DOMAIN Ascending(D) : Ascending(D)[i] \in D
<1>. DEFINE o == Ascending(D)
            n == Cardinality(D)
<1>1. /\ n \in Nat /\ o \in [1..n -> D]
      /\ \A i, j \in 1..n : i < j <=> o[i] < o[j]
      /\ \A x \in D : \E i \in 1..n : o[i] = x
  BY AscendingForm
<1>. HIDE DEF o, n
<1>2. o \in [1..n -> Int]
  BY <1>1
<1>3. o \in Seq(Int) /\ Len(o) = n /\ DOMAIN o = 1..n
  BY <1>1, <1>2, FunctionIsSeq
<1>4. IsInjective(o)
  <2>1. ASSUME NEW i \in 1..n, NEW j \in 1..n, o[i] = o[j] PROVE i = j
    <3>1. o[i] \in Int /\ i \in Int /\ j \in Int /\ ~(i < j) /\ ~(j < i)
      BY <1>1, <1>2, <2>1
    <3>. QED
      BY <3>1
  <2>. QED
    BY <1>3, <2>1 DEF IsInjective
<1>5. ToSet(o) = D
  BY <1>1, <1>3 DEF ToSet
<1>. QED
  BY <1>1, <1>3, <1>4, <1>5 DEF Exactly, o, n

\* Records by numbers: questions and documents have names that can be sorted.
Named(records) == \A i \in DOMAIN records : records[i].question \in Int /\ records[i].document \in Int

\* A list of records has finitely many questions.
LEMMA QuestionsAreFinite ==
  ASSUME NEW S, NEW records \in Seq(S), Named(records), NEW D
  PROVE  IsFiniteSet(QuestionsOf(records, D)) /\ QuestionsOf(records, D) \subseteq Int
<1>. DEFINE of == [i \in 1..Len(records) |-> records[i].question]
<1>1. DOMAIN records = 1..Len(records) /\ Len(records) \in Nat
  BY LenProperties
<1>2. of \in Surjection(1..Len(records), {records[i].question : i \in DOMAIN records})
  BY <1>1 DEF Surjection
<1>3. IsFiniteSet(1..Len(records))
  BY <1>1, FS_Interval
<1>4. IsFiniteSet({records[i].question : i \in DOMAIN records})
  <2>. HIDE DEF of
  <2>. QED
    BY <1>2, <1>3, FS_Surjection
<1>5. QuestionsOf(records, D) \subseteq {records[i].question : i \in DOMAIN records}
  BY DEF QuestionsOf
<1>. QED
  BY <1>4, <1>5, FS_Subset DEF Named

\* Folds that hold each of the documents D out, and measure all their questions.
IsLevel(folds, records, D) ==
  /\ Exactly(HeldOut(folds), D) /\ Exactly(Validated(folds), QuestionsOf(records, D))
  /\ \A n \in DOMAIN folds :
       /\ folds[n].held \in D /\ folds[n].train = D \ {folds[n].held}
       /\ folds[n].learned = QuestionsOf(records, D \ {folds[n].held})
       /\ ToSet(folds[n].validated) = QuestionsOf(records, {folds[n].held})
       /\ Divided(folds[n], QuestionsOf(records, D))

\* That is what the builder makes of them.
LEMMA LevelIsExact ==
  ASSUME NEW S, NEW records \in Seq(S), Named(records), OneQuestionEach(records),
         NEW D \in SUBSET DocumentsOf(records), NEW folds, folds = LeaveOneOut(records, D)
  PROVE  IsLevel(folds, records, D)
<1>. DEFINE o == Ascending(D)
            posed(n) == QuestionsOf(records, {o[n]})
<1>1. IsFiniteSet(D) /\ D \subseteq Int
  <2>1. IsFiniteSet(D)
    BY DocumentsAreFinite, FS_Subset
  <2>. QED
    BY <2>1 DEF DocumentsOf, Named
<1>2. /\ o \in Seq(Int) /\ IsInjective(o) /\ Exactly(o, D) /\ DOMAIN o = 1..Cardinality(D)
      /\ \A n \in DOMAIN o : o[n] \in D
  BY <1>1, AscendingIsExact
<1>3. /\ DOMAIN folds = DOMAIN o
      /\ \A n \in DOMAIN o : /\ folds[n].held = o[n] /\ folds[n].train = D \ {o[n]}
                             /\ folds[n].learned = QuestionsOf(records, D \ {o[n]})
                             /\ folds[n].validated = Ascending(posed(n))
  BY DEF LeaveOneOut, Fold
<1>4. \A n \in DOMAIN o : /\ Ascending(posed(n)) \in Seq(Int) /\ IsInjective(Ascending(posed(n)))
                          /\ ToSet(Ascending(posed(n))) = posed(n)
  <2>1. \A n : IsFiniteSet(posed(n)) /\ posed(n) \subseteq Int
    BY QuestionsAreFinite
  <2>. HIDE DEF posed
  <2>. QED
    BY <2>1, AscendingIsExact DEF Exactly
<1>5. \A q, E : q \in QuestionsOf(records, E) <=> q \in AllQuestions(records) /\ DocumentOf(records, q) \in E
  BY QuestionsHaveDocuments
<1>. HIDE DEF o
<1>6. HeldOut(folds) = o
  <2>1. HeldOut(folds) = [n \in DOMAIN o |-> o[n]]
    BY <1>3 DEF HeldOut
  <2>2. o \in [1..Len(o) -> Int]
    BY <1>2, LenProperties
  <2>. QED
    BY <2>1, <2>2
<1>7. Exactly(Validated(folds), QuestionsOf(records, D))
  <2>. DEFINE seqs == [n \in DOMAIN folds |-> folds[n].validated]
  <2>1. Cardinality(D) \in Nat
    BY <1>1, FS_CardinalityType
  <2>2. seqs \in [1..Cardinality(D) -> Seq(Int)] /\ DOMAIN seqs = DOMAIN o
        /\ \A n \in DOMAIN o : seqs[n] = Ascending(posed(n))
    <3>1. \A n \in DOMAIN o : seqs[n] = Ascending(posed(n)) /\ seqs[n] \in Seq(Int)
      <4>. HIDE DEF posed
      <4>. QED
        BY <1>3, <1>4
    <3>2. seqs = [n \in 1..Cardinality(D) |-> seqs[n]] /\ DOMAIN o = 1..Cardinality(D)
      BY <1>2, <1>3
    <3>. HIDE DEF seqs, posed
    <3>. QED
      BY <3>1, <3>2
  <2>. HIDE DEF seqs
  <2>3. seqs \in Seq(Seq(Int))
    BY <2>1, <2>2, FunctionIsSeq
  <2>4. Distinct(seqs)
    <3>1. \A n \in DOMAIN seqs : IsInjective(seqs[n]) /\ ToSet(seqs[n]) = posed(n)
      BY <1>4, <2>2
    <3>2. ASSUME NEW i \in DOMAIN seqs, NEW j \in DOMAIN seqs, i # j PROVE posed(i) \cap posed(j) = {}
      <4>1. o[i] # o[j]
        BY <1>2, <2>2, <3>2 DEF IsInjective
      <4>. QED
        BY <1>5, <4>1
    <3>. HIDE DEF posed
    <3>. QED
      BY <3>1, <3>2 DEF Distinct
  <2>5. /\ FlattenSeq(seqs) \in Seq(Int) /\ IsInjective(FlattenSeq(seqs))
        /\ ToSet(FlattenSeq(seqs)) = UNION {ToSet(seqs[i]) : i \in DOMAIN seqs}
    BY <2>3, <2>4, FlattenForm
  <2>6. UNION {ToSet(seqs[i]) : i \in DOMAIN seqs} = QuestionsOf(records, D)
    <3>1. \A n \in DOMAIN o : ToSet(seqs[n]) = posed(n)
      BY <1>4, <2>2
    <3>2. \A d \in D : \E n \in DOMAIN o : o[n] = d
      BY <1>2 DEF Exactly, ToSet
    <3>3. \A q : \A n \in DOMAIN o : q \in posed(n) <=> q \in AllQuestions(records) /\ DocumentOf(records, q) = o[n]
      BY <1>5
    <3>4. ASSUME NEW q PROVE q \in QuestionsOf(records, D) <=> \E n \in DOMAIN o : q \in posed(n)
      <4>. HIDE DEF posed
      <4>. QED
        BY <1>2, <1>5, <3>2, <3>3
    <3>. HIDE DEF posed
    <3>. QED
      BY <2>2, <3>1, <3>4
  <2>7. Validated(folds) = FlattenSeq(seqs)
    BY DEF Validated, seqs
  <2>. QED
    BY <2>5, <2>6, <2>7, InjectiveIsExact DEF Exactly
<1>8. ASSUME NEW n \in DOMAIN folds
      PROVE  /\ folds[n].held \in D /\ folds[n].train = D \ {folds[n].held}
             /\ folds[n].learned = QuestionsOf(records, D \ {folds[n].held})
             /\ ToSet(folds[n].validated) = QuestionsOf(records, {folds[n].held})
             /\ Divided(folds[n], QuestionsOf(records, D))
  <2>1. /\ folds[n].held = o[n] /\ o[n] \in D /\ folds[n].train = D \ {o[n]}
        /\ folds[n].learned = QuestionsOf(records, D \ {o[n]})
        /\ ToSet(folds[n].validated) = QuestionsOf(records, {o[n]})
    BY <1>2, <1>3, <1>4
  <2>2. Divided(folds[n], QuestionsOf(records, D))
    BY <1>5, <2>1 DEF Divided
  <2>. QED
    BY <2>1, <2>2
<1>. QED
  BY <1>2, <1>6, <1>7, <1>8 DEF IsLevel

\* The validators never refuse what the builders build: of three documents or
\* more, with a name for each question, there are always folds, and they isolate
\* (build_nested_leave_one_document_out_folds, validate_nested_folds).
THEOREM FoldsAlwaysIsolate ==
  ASSUME NEW S, NEW records \in Seq(S), Named(records), OneQuestionEach(records),
         Cardinality(DocumentsOf(records)) >= 3
  PROVE  Folds(records).ok /\ Isolated(Folds(records).nested, records)
<1>. DEFINE docs   == DocumentsOf(records)
            all    == AllQuestions(records)
            outer  == LeaveOneOut(records, docs)
            nested == NestedFolds(records)
<1>1. /\ Exactly(HeldOut(outer), docs) /\ Exactly(Validated(outer), all)
      /\ \A n \in DOMAIN outer :
           /\ outer[n].held \in docs /\ outer[n].train = docs \ {outer[n].held}
           /\ outer[n].learned = QuestionsOf(records, docs \ {outer[n].held})
           /\ Divided(outer[n], all)
  <2>1. all = QuestionsOf(records, docs)
    BY DEF AllQuestions
  <2>2. docs \in SUBSET DocumentsOf(records) /\ outer = LeaveOneOut(records, docs)
    OBVIOUS
  <2>. HIDE DEF docs, all, outer
  <2>3. IsLevel(outer, records, docs)
    BY <2>2, LevelIsExact
  <2>. QED
    BY <2>1, <2>3 DEF IsLevel
<1>2. /\ DOMAIN nested = DOMAIN outer
      /\ \A n \in DOMAIN outer : nested[n] = [fold |-> outer[n], inner |-> LeaveOneOut(records, outer[n].train)]
  BY DEF NestedFolds
<1>3. [n \in DOMAIN nested |-> nested[n].fold] = outer
  <2>1. outer = [n \in DOMAIN outer |-> outer[n]]
    BY DEF LeaveOneOut
  <2>. HIDE DEF nested, outer
  <2>. QED
    BY <1>2, <2>1
<1>. HIDE DEF docs, all, outer, nested
<1>4. ValidFolds(outer, records)
  BY <1>1 DEF ValidFolds, docs, all
<1>5. ASSUME NEW n \in DOMAIN outer
      PROVE  /\ Exactly(HeldOut(nested[n].inner), nested[n].fold.train)
             /\ \A k \in DOMAIN nested[n].inner : ValidInner(nested[n].inner[k], nested[n].fold, records)
             /\ Exactly(Validated(nested[n].inner), nested[n].fold.learned)
  <2>. DEFINE D     == docs \ {outer[n].held}
              inner == LeaveOneOut(records, D)
  <2>1. /\ nested[n].fold = outer[n] /\ nested[n].inner = inner
        /\ outer[n].train = D /\ outer[n].learned = QuestionsOf(records, D)
    <3>1. /\ outer[n].train = D /\ outer[n].learned = QuestionsOf(records, D)
          /\ nested[n] = [fold |-> outer[n], inner |-> LeaveOneOut(records, outer[n].train)]
      BY <1>1, <1>2
    <3>. HIDE DEF D
    <3>. QED
      BY <3>1
  <2>2. D \in SUBSET DocumentsOf(records) /\ outer[n].held \notin D
    BY DEF docs
  <2>. HIDE DEF D
  <2>3. /\ Exactly(HeldOut(inner), D) /\ Exactly(Validated(inner), QuestionsOf(records, D))
        /\ \A k \in DOMAIN inner :
              /\ inner[k].held \in D /\ inner[k].train = D \ {inner[k].held}
              /\ inner[k].learned = QuestionsOf(records, D \ {inner[k].held})
              /\ ToSet(inner[k].validated) = QuestionsOf(records, {inner[k].held})
              /\ Divided(inner[k], QuestionsOf(records, D))
    <3>1. inner = LeaveOneOut(records, D)
      OBVIOUS
    <3>. HIDE DEF inner
    <3>2. IsLevel(inner, records, D)
      BY <2>2, <3>1, LevelIsExact
    <3>. QED
      BY <3>2 DEF IsLevel
  <2>. HIDE DEF inner
  <2>5. \A q, E : q \in QuestionsOf(records, E) <=> q \in all /\ DocumentOf(records, q) \in E
    BY QuestionsHaveDocuments DEF all
  <2>6. ASSUME NEW k \in DOMAIN inner PROVE ValidInner(inner[k], outer[n], records)
    <3>1. (inner[k].learned \cup ToSet(inner[k].validated)) \cap QuestionsOf(records, {outer[n].held}) = {}
      <4>1. \A q \in inner[k].learned \cup ToSet(inner[k].validated) : DocumentOf(records, q) \in D
        <5>1. inner[k].learned \cup ToSet(inner[k].validated) = QuestionsOf(records, D)
          BY <2>3 DEF Divided
        <5>. QED
          BY <2>5, <5>1
      <4>2. \A q \in QuestionsOf(records, {outer[n].held}) : DocumentOf(records, q) = outer[n].held
        BY <2>5
      <4>. QED
        BY <2>2, <4>1, <4>2
    <3>2. outer[n].held \notin inner[k].train /\ inner[k].held \notin inner[k].train
          /\ inner[k].train \cup {inner[k].held} = D
      BY <2>2, <2>3
    <3>. QED
      BY <2>1, <2>3, <3>1, <3>2 DEF ValidInner
  <2>. QED
    BY <2>1, <2>3, <2>6
<1>6. ValidNested(nested, records)
  BY <1>2, <1>3, <1>4, <1>5 DEF ValidNested
<1>7. Folds(records).ok
  BY <1>6 DEF Folds, OneQuestionEach, nested
<1>. QED
  BY <1>7, ValidFoldsAreIsolated

-----------------------------------------------------------------------------
(***************************************************************************)
(* The frozen protocol and its assets (Protocol)                           *)
(***************************************************************************)

\* The four files of a lock.
Files    == {"refs", "folds", "lock", "summary"}
\* What may be stored of a page.
Digests  == {Scans[s][o] : s \in DOMAIN Scans, o \in ToSet(Objects)}
\* The objects of all the questions that there may be.
PageKeys == UNION {ToSet(Work[t]) : t \in DOMAIN Trains}
\* A row of a manifest.
AssetRow == [key : PageKeys, version : Nat, digest : Digests]

\* The stages of the two commands of a host.
Stages   == {"idle", "write", "upload", "check", "open", "head", "put", "manifest", "latest", "announce"}
\* The memory of a host.
HostState == [pc : Stages, by : Nat, train : DOMAIN Trains, lock : DOMAIN Trains \cup {NoLock}, at : Nat,
              scan : DOMAIN Scans \cup {0}, rows : Seq(AssetRow), version : Nat]

\* Of a bucket: its versions are never none.
Stored(b) == \A k \in DOMAIN b : b[k] \in Seq(ToSet(b[k])) /\ b[k] # << >>

\* The four files of a lock are in the bucket, and its folds validate.
Published(t, b) == FoldsOf[t].ok /\ \A file \in Files : <<t, file>> \in DOMAIN b

\* Each file under the prefix of a lock is of that lock, and the latest lock is
\* published.
LocksFit(b) ==
  /\ \A t \in DOMAIN Trains, file \in Files \ {"summary"} :
       <<t, file>> \in DOMAIN b => ToSet(b[<<t, file>>]) \subseteq {t}
  /\ <<"latest", "lock">> \in DOMAIN b =>
       \A t \in ToSet(b[<<"latest", "lock">>]) : t \in DOMAIN Trains /\ Published(t, b)

\* A row is backed by the version that it names.
Backed(row, b) == /\ row.key \in DOMAIN b /\ row.version \in DOMAIN b[row.key]
                  /\ b[row.key][row.version] = row.digest

\* The rows are those of the first objects, each backed.
RowsFit(t, rows, b) == \A n \in DOMAIN rows : /\ n \in DOMAIN Work[t] /\ rows[n].key = Work[t][n]
                                              /\ Backed(rows[n], b)

\* The rows of a document are of the scan.
OfScan(rows, d, scan) == \A n \in DOMAIN rows : rows[n].key[2] = d => rows[n].digest = Scans[scan][rows[n].key[4]]
\* The rows of each document are of one of its scans.
OneScanEach(rows)     == \A n \in DOMAIN rows : \E scan \in DOMAIN Scans : OfScan(rows, rows[n].key[2], scan)

\* A manifest has a row for each object, backed, with each document of one scan.
ManifestFits(m, b) == /\ m.train \in DOMAIN Trains /\ m.rows \in Seq(AssetRow) /\ Len(m.rows) = Len(Work[m.train])
                      /\ RowsFit(m.train, m.rows, b) /\ OneScanEach(m.rows)

\* A version of the latest manifest is this manifest.
Pins(version, m, b) == /\ <<"manifest", "latest">> \in DOMAIN b
                       /\ version \in DOMAIN b[<<"manifest", "latest">>]
                       /\ b[<<"manifest", "latest">>][version] = m

\* The manifests in the bucket fit, and the latest assets name one.
AssetsFit(b) ==
  /\ \A k \in DOMAIN b : k[1] = "manifest" => \A m \in ToSet(b[k]) : ManifestFits(m, b)
  /\ <<"latest", "assets">> \in DOMAIN b =>
       \A a \in ToSet(b[<<"latest", "assets">>]) : Pins(a.version, a.manifest, b)

\* A freeze, at file number at, has uploaded those before.
FreezeFits(H, b) ==
  /\ H.lock = H.train /\ FoldsOf[H.train].ok
  /\ H.pc = "write" => H.at \in 1..4
  /\ H.pc \in {"upload", "check"} => H.at \in 1..6 /\ \A n \in 1..(H.at - 1) : Uploads(H.lock)[n] \in DOMAIN b
  /\ H.pc = "check" => Uploads(H.lock)[H.at] \in DOMAIN b

\* A preparation, at object number at, has a row for each one before.
PrepareFits(H, b) ==
  /\ Len(H.rows) + 1 = H.at /\ RowsFit(H.train, H.rows, b) /\ OneScanEach(H.rows)
  /\ H.pc \in {"open", "head", "put"} => H.at <= Len(Work[H.train])
  /\ H.pc = "open" => \A n \in DOMAIN H.rows : H.rows[n].key[2] # Work[H.train][H.at][2]
  /\ H.pc \in {"head", "put"} => H.scan \in DOMAIN Scans /\ OfScan(H.rows, Work[H.train][H.at][2], H.scan)
  /\ H.pc \in {"manifest", "latest", "announce"} => H.at = Len(Work[H.train]) + 1
  /\ H.pc = "announce" => Pins(H.version, [train |-> H.train, lock |-> H.lock, rows |-> H.rows], b)

\* A host that freezes, or prepares.
HostFits(H, b) == /\ H.pc \in {"write", "upload", "check"} => FreezeFits(H, b)
                  /\ H.pc \in {"open", "head", "put", "manifest", "latest", "announce"} => PrepareFits(H, b)

\* The files of a checkout.
CheckoutState == [refs : DOMAIN Trains, folds : DOMAIN Trains, lock : DOMAIN Trains, summary : Nat,
                  receipts : DOMAIN Trains \cup {NoLock}]

\* The receipts are of a published lock.
ReceiptFits(file, b) == file.receipts # NoLock => Published(file.receipts, b)

\* The inductive invariant of the protocol: what a host has in memory, and what is
\* in its checkout, fits what is in the bucket (freeze_protocol, prepare_oracle_assets).
ProtocolInv ==
  /\ train \in DOMAIN Trains /\ pdfs \in [Sources -> DOMAIN Scans] /\ starts \in Nat
  /\ host \in [Hosts -> HostState] /\ checkout \in [Hosts -> CheckoutState]
  /\ Stored(bucket) /\ LocksFit(bucket) /\ AssetsFit(bucket)
  /\ \A h \in Hosts : HostFits(host[h], bucket) /\ ReceiptFits(checkout[h], bucket)

\* The pages and objects that questions call for: some, and finitely many.
LEMMA TargetsForm ==
  ASSUME NEW t \in DOMAIN Trains
  PROVE  /\ IsFiniteSet(Targets(t)) /\ Targets(t) # {}
         /\ \A x \in Targets(t) : /\ x = <<x[1], x[2], x[3]>>
                                  /\ x[1] \in DocumentsOf(Trains[t]) /\ x[1] \in Int /\ x[2] \in Int
                                  /\ x[3] \in DOMAIN Objects /\ x[3] \in Int
<1>1. /\ Trains[t] \in Seq([question : Int, document : Int, pages : SUBSET Nat]) /\ Trains[t] # << >>
      /\ \A i \in DOMAIN Trains[t] : Trains[t][i].pages # {} /\ IsFiniteSet(Trains[t][i].pages)
  BY ProtocolAssumption
<1>2. /\ DOMAIN Trains[t] = 1..Len(Trains[t]) /\ Len(Trains[t]) \in Nat /\ 1 \in DOMAIN Trains[t]
      /\ \A i \in DOMAIN Trains[t] : Trains[t][i].document \in Int /\ Trains[t][i].pages \subseteq Nat
  <2>. DEFINE Q == [question : Int, document : Int, pages : SUBSET Nat]
  <2>1. \A q \in Q : q.document \in Int /\ q.pages \subseteq Nat
    OBVIOUS
  <2>2. Trains[t] \in Seq(Q)
    BY <1>1
  <2>. HIDE DEF Q
  <2>3. Trains[t] \in [1..Len(Trains[t]) -> Q] /\ Len(Trains[t]) \in Nat /\ Len(Trains[t]) # 0
    BY <1>1, <2>2, LenProperties, EmptySeq
  <2>. QED
    BY <2>1, <2>3
<1>3. DOMAIN Objects = 1..Len(Objects) /\ Len(Objects) \in Nat /\ 1 \in DOMAIN Objects
  BY ProtocolAssumption, LenProperties, EmptySeq
<1>. DEFINE of(r) == {<<r.document, page, k>> : page \in r.pages, k \in DOMAIN Objects}
<1>4. ASSUME NEW r \in ToSet(Trains[t])
      PROVE  /\ IsFiniteSet(of(r)) /\ r.document \in DocumentsOf(Trains[t]) /\ r.document \in Int
             /\ r.pages \subseteq Int /\ of(r) # {}
  <2>1. PICK i \in DOMAIN Trains[t] : r = Trains[t][i]
    BY DEF ToSet
  <2>2. IsFiniteSet(r.pages) /\ r.pages # {} /\ r.document \in Int /\ r.pages \subseteq Int
    BY <1>1, <1>2, <2>1
  <2>3. IsFiniteSet(r.pages \X DOMAIN Objects)
    <3>1. IsFiniteSet(DOMAIN Objects)
      BY <1>3, FS_Interval
    <3>. QED
      BY <2>2, <3>1, FS_Product
  <2>4. IsFiniteSet(of(r))
    <3>. DEFINE f == [y \in r.pages \X DOMAIN Objects |-> <<r.document, y[1], y[2]>>]
    <3>1. f \in [r.pages \X DOMAIN Objects -> of(r)]
      OBVIOUS
    <3>2. ASSUME NEW x \in of(r) PROVE \E y \in r.pages \X DOMAIN Objects : f[y] = x
      <4>1. PICK page \in r.pages, k \in DOMAIN Objects : x = <<r.document, page, k>>
        OBVIOUS
      <4>2. <<page, k>> \in r.pages \X DOMAIN Objects /\ f[<<page, k>>] = x
        BY <4>1
      <4>. QED
        BY <4>2
    <3>. HIDE DEF f
    <3>3. f \in Surjection(r.pages \X DOMAIN Objects, of(r))
      BY <3>1, <3>2 DEF Surjection
    <3>. QED
      BY <2>3, <3>3, FS_Surjection
  <2>5. of(r) # {}
    <3>1. PICK page \in r.pages : TRUE
      BY <2>2
    <3>2. <<r.document, page, 1>> \in of(r)
      BY <1>3
    <3>. HIDE DEF of
    <3>. QED
      BY <3>2
  <2>6. r.document \in DocumentsOf(Trains[t])
    BY <2>1 DEF DocumentsOf
  <2>. QED
    BY <2>2, <2>4, <2>5, <2>6
<1>5. Targets(t) = UNION {of(r) : r \in ToSet(Trains[t])}
  BY DEF Targets
<1>6. IsFiniteSet(Targets(t))
  <2>. DEFINE parts == {of(r) : r \in ToSet(Trains[t])}
              f == [i \in 1..Len(Trains[t]) |-> of(Trains[t][i])]
  <2>1. f \in Surjection(1..Len(Trains[t]), parts)
    <3>1. \A r \in ToSet(Trains[t]) : \E i \in 1..Len(Trains[t]) : r = Trains[t][i]
      BY <1>2 DEF ToSet
    <3>2. \A i \in 1..Len(Trains[t]) : Trains[t][i] \in ToSet(Trains[t])
      BY <1>2 DEF ToSet
    <3>. HIDE DEF of
    <3>3. f \in [1..Len(Trains[t]) -> parts]
      BY <3>2
    <3>4. \A p \in parts : \E i \in 1..Len(Trains[t]) : f[i] = p
      BY <3>1
    <3>. QED
      BY <3>3, <3>4 DEF Surjection
  <2>2. IsFiniteSet(1..Len(Trains[t]))
    BY <1>2, FS_Interval
  <2>3. \A p \in parts : IsFiniteSet(p)
    BY <1>4
  <2>4. IsFiniteSet(parts)
    <3>. HIDE DEF parts, f
    <3>. QED
      BY <2>1, <2>2, FS_Surjection
  <2>. HIDE DEF parts
  <2>5. IsFiniteSet(UNION parts)
    BY <2>3, <2>4, FS_UNION
  <2>. QED
    BY <1>5, <2>5 DEF parts
<1>7. Targets(t) # {}
  <2>1. Trains[t][1] \in ToSet(Trains[t])
    BY <1>2 DEF ToSet
  <2>. HIDE DEF of
  <2>. QED
    BY <1>4, <1>5, <2>1
<1>8. ASSUME NEW x \in Targets(t)
      PROVE  /\ x = <<x[1], x[2], x[3]>>
             /\ x[1] \in DocumentsOf(Trains[t]) /\ x[1] \in Int /\ x[2] \in Int
             /\ x[3] \in DOMAIN Objects /\ x[3] \in Int
  <2>1. PICK r \in ToSet(Trains[t]) : x \in of(r)
    <3>. HIDE DEF of
    <3>. QED
      BY <1>5
  <2>2. x = <<x[1], x[2], x[3]>> /\ x[1] = r.document /\ x[2] \in r.pages /\ x[3] \in DOMAIN Objects
    BY <2>1
  <2>. QED
    <3>. HIDE DEF of
    <3>1. r.document \in DocumentsOf(Trains[t]) /\ r.document \in Int /\ r.pages \subseteq Int
      BY <1>4
    <3>2. DOMAIN Objects \subseteq Int
      BY <1>3
    <3>. QED
      BY <2>2, <3>1, <3>2
<1>. QED
  BY <1>6, <1>7, <1>8

\* The objects come document after document.
LEMMA WorkForm ==
  ASSUME NEW t \in DOMAIN Trains
  PROVE  /\ Len(Work[t]) \in Nat \ {0} /\ DOMAIN Work[t] = 1..Len(Work[t])
         /\ Work[t] = [n \in 1..Len(Work[t]) |-> Work[t][n]]
         /\ \A n \in DOMAIN Work[t] :
              /\ Work[t][n] \in PageKeys /\ Work[t][n][1] = "page"
              /\ Work[t][n][2] \in DocumentsOf(Trains[t]) /\ Work[t][n][4] \in ToSet(Objects)
         /\ \A i, j \in DOMAIN Work[t] : i < j => Work[t][i][2] \in Int /\ Work[t][j][2] \in Int
                                                  /\ Work[t][i][2] <= Work[t][j][2]
<1>. DEFINE S == Targets(t)
            R == {p \in S \X S : Earlier(p[1], p[2])}
            order == Ordered(S, R)
            m == Cardinality(S)
<1>1. /\ IsFiniteSet(S) /\ S # {}
      /\ \A x \in S : /\ x = <<x[1], x[2], x[3]>> /\ x[1] \in DocumentsOf(Trains[t]) /\ x[1] \in Int /\ x[2] \in Int
                      /\ x[3] \in DOMAIN Objects /\ x[3] \in Int
  BY TargetsForm
<1>2. Work[t] = [n \in DOMAIN order |-> <<"page", order[n][1], order[n][2], Objects[order[n][3]]>>]
  BY DEF Work
<1>. HIDE DEF S
<1>3. \A x, y \in S : <<x, y>> \in R <=> Earlier(x, y)
  OBVIOUS
<1>4. Orders(R, S)
  <2>1. \A x \in S : ~Earlier(x, x)
    BY <1>1 DEF Earlier
  <2>2. ASSUME NEW x \in S, NEW y \in S, x # y PROVE Earlier(x, y) \/ Earlier(y, x)
    <3>1. x[1] # y[1] \/ x[2] # y[2] \/ x[3] # y[3]
      BY <1>1, <2>2
    <3>. QED
      BY <1>1, <3>1 DEF Earlier
  <2>3. \A x, y, z \in S : Earlier(x, y) /\ Earlier(y, z) => Earlier(x, z)
    BY <1>1 DEF Earlier
  <2>. HIDE DEF R
  <2>. QED
    BY <1>3, <2>1, <2>2, <2>3 DEF Orders
<1>. HIDE DEF R, order, m
<1>5. /\ m \in Nat /\ order \in [1..m -> S]
      /\ \A i, j \in 1..m : i < j <=> <<order[i], order[j]>> \in R
      /\ \A x \in S : \E i \in 1..m : order[i] = x
  <2>1. Arranges(Ordered(S, R), S, R)
    BY <1>1, <1>4, OrderedForm
  <2>. QED
    BY <2>1 DEF Arranges, order, m
<1>6. m # 0
  BY <1>1, <1>5
<1>7. DOMAIN Work[t] = 1..m
  BY <1>2, <1>5
<1>8. Work[t] \in [1..m -> PageKeys]
  <2>1. \A n \in 1..m : Work[t][n] \in PageKeys
    <3>1. \A n \in 1..m : Work[t][n] \in ToSet(Work[t])
      BY <1>7 DEF ToSet
    <3>. QED
      BY <3>1 DEF PageKeys
  <2>. QED
    BY <1>2, <1>7, <2>1
<1>9. Len(Work[t]) = m
  BY <1>5, <1>8, FunctionIsSeq
<1>10. \A n \in 1..m : /\ Work[t][n][1] = "page" /\ Work[t][n][2] = order[n][1]
                       /\ Work[t][n][4] = Objects[order[n][3]] /\ order[n] \in S
  BY <1>2, <1>5
<1>11. ASSUME NEW i \in 1..m, NEW j \in 1..m, i < j
       PROVE  order[i][1] \in Int /\ order[j][1] \in Int /\ order[i][1] <= order[j][1]
  <2>1. Earlier(order[i], order[j]) /\ order[i] \in S /\ order[j] \in S
    BY <1>3, <1>5, <1>11
  <2>. QED
    BY <1>1, <2>1 DEF Earlier
<1>12. \A n \in 1..m : Work[t][n][2] \in DocumentsOf(Trains[t]) /\ Work[t][n][4] \in ToSet(Objects)
  BY <1>1, <1>10 DEF ToSet
<1>13. Work[t] = [n \in 1..m |-> Work[t][n]]
  BY <1>8
<1>14. \A i, j \in 1..m : i < j => Work[t][i][2] \in Int /\ Work[t][j][2] \in Int /\ Work[t][i][2] <= Work[t][j][2]
  BY <1>10, <1>11
<1>15. \A n \in 1..m : Work[t][n] \in PageKeys
  BY <1>8
<1>. QED
  BY <1>5, <1>6, <1>7, <1>9, <1>10, <1>12, <1>13, <1>14, <1>15

\* The versions of an object, none when it is not there.
VersionsOf(b, k) == IF k \in DOMAIN b THEN b[k] ELSE << >>

\* c is b with one more version of k.
Puts(b, c, k, v) == c = [j \in DOMAIN b \cup {k} |-> IF j = k THEN Append(VersionsOf(b, k), v) ELSE b[j]]

\* No version is lost.
Keeps(b, c) == \A k \in DOMAIN b : /\ k \in DOMAIN c
                                   /\ \A n \in DOMAIN b[k] : n \in DOMAIN c[k] /\ c[k][n] = b[k][n]

\* Nothing is new in c but a v among the versions of k.
OneMore(b, c, k, v) == /\ DOMAIN c = DOMAIN b \cup {k}
                       /\ \A j \in DOMAIN b : j # k => c[j] = b[j]
                       /\ \A x \in ToSet(c[k]) : x = v \/ (k \in DOMAIN b /\ x \in ToSet(b[k]))

\* A put adds one version, the last, and loses none.
LEMMA PutForm ==
  ASSUME NEW b, NEW c, NEW k, NEW v, Stored(b), Puts(b, c, k, v)
  PROVE  /\ Stored(c) /\ Keeps(b, c) /\ OneMore(b, c, k, v)
         /\ Len(VersionsOf(b, k)) \in Nat /\ Len(VersionsOf(b, k)) + 1 \in DOMAIN c[k]
         /\ c[k][Len(VersionsOf(b, k)) + 1] = v
<1>. DEFINE old == VersionsOf(b, k)
            S == ToSet(old) \cup {v}
<1>1. old \in Seq(S)
  <2>1. CASE k \in DOMAIN b
    <3>1. old \in Seq(ToSet(old))
      BY <2>1 DEF Stored, VersionsOf
    <3>. HIDE DEF old
    <3>. QED
      BY <3>1, SeqMonotonic
  <2>2. CASE k \notin DOMAIN b
    BY <2>2, EmptySeq DEF VersionsOf
  <2>. QED
    BY <2>1, <2>2
<1>2. DOMAIN c = DOMAIN b \cup {k} /\ c[k] = Append(old, v) /\ \A j \in DOMAIN b : j # k => c[j] = b[j]
  BY DEF Puts
<1>3. \A x \in ToSet(old) : k \in DOMAIN b /\ x \in ToSet(b[k])
  <2>1. k \notin DOMAIN b => ToSet(old) = {}
    BY DEF ToSet, VersionsOf
  <2>2. k \in DOMAIN b => old = b[k]
    BY DEF VersionsOf
  <2>. HIDE DEF old
  <2>. QED
    BY <2>1, <2>2
<1>10. k \in DOMAIN b => old = b[k]
  BY DEF VersionsOf
<1>. HIDE DEF old
<1>4. /\ c[k] \in Seq(S) /\ Len(c[k]) = Len(old) + 1 /\ c[k] # << >>
      /\ DOMAIN c[k] = 1..(Len(old) + 1) /\ DOMAIN old = 1..Len(old) /\ Len(old) \in Nat
      /\ \A i \in 1..Len(old) : c[k][i] = old[i]
      /\ c[k][Len(old) + 1] = v
      /\ ToSet(c[k]) = ToSet(old) \cup {v}
  BY <1>1, <1>2, SetOfAppend, LenProperties
<1>5. Stored(c)
  <2>1. c[k] \in Seq(ToSet(c[k]))
    BY <1>4
  <2>. QED
    BY <1>2, <1>4, <2>1 DEF Stored
<1>6. Keeps(b, c)
  <2>1. ASSUME NEW j \in DOMAIN b, NEW n \in DOMAIN b[j] PROVE n \in DOMAIN c[j] /\ c[j][n] = b[j][n]
    <3>1. CASE j # k
      BY <1>2, <3>1
    <3>2. CASE j = k
      <4>1. n \in 1..Len(old) /\ old = b[j]
        BY <1>4, <1>10, <3>2
      <4>2. n \in 1..(Len(old) + 1)
        BY <1>4, <4>1
      <4>. QED
        BY <1>4, <3>2, <4>1, <4>2
    <3>. QED
      BY <3>1, <3>2
  <2>. QED
    BY <1>2, <2>1 DEF Keeps
<1>7. Len(old) + 1 \in 1..(Len(old) + 1)
  BY <1>4
<1>. QED
  <2>1. OneMore(b, c, k, v)
    BY <1>2, <1>3, <1>4 DEF OneMore
  <2>. QED
    BY <1>2, <1>4, <1>5, <1>6, <1>7, <2>1 DEF old

\* What fits a bucket fits one with more versions.
LEMMA KeptFits ==
  ASSUME NEW b, NEW c, Keeps(b, c)
  PROVE  /\ \A t : Published(t, b) => Published(t, c)
         /\ \A row : Backed(row, b) => Backed(row, c)
         /\ \A t, rows : RowsFit(t, rows, b) => RowsFit(t, rows, c)
         /\ \A m : ManifestFits(m, b) => ManifestFits(m, c)
         /\ \A n, m : Pins(n, m, b) => Pins(n, m, c)
         /\ \A H : HostFits(H, b) => HostFits(H, c)
         /\ \A file : ReceiptFits(file, b) => ReceiptFits(file, c)
<1>1. \A t : Published(t, b) => Published(t, c)
  BY DEF Published, Keeps
<1>2. \A row : Backed(row, b) => Backed(row, c)
  BY DEF Backed, Keeps
<1>3. \A t, rows : RowsFit(t, rows, b) => RowsFit(t, rows, c)
  BY <1>2 DEF RowsFit
<1>4. \A m : ManifestFits(m, b) => ManifestFits(m, c)
  BY <1>3 DEF ManifestFits
<1>5. \A n, m : Pins(n, m, b) => Pins(n, m, c)
  BY DEF Pins, Keeps
<1>6. \A H : FreezeFits(H, b) => FreezeFits(H, c)
  BY DEF FreezeFits, Keeps
<1>7. \A H : PrepareFits(H, b) => PrepareFits(H, c)
  BY <1>3, <1>5 DEF PrepareFits
<1>8. \A H : HostFits(H, b) => HostFits(H, c)
  BY <1>6, <1>7 DEF HostFits
<1>9. \A file : ReceiptFits(file, b) => ReceiptFits(file, c)
  BY <1>1 DEF ReceiptFits
<1>. QED
  BY <1>1, <1>2, <1>3, <1>4, <1>5, <1>8, <1>9

\* What each kind of put has to see to.
LEMMA PutLocks ==
  ASSUME NEW b, NEW c, NEW k, NEW v, Stored(b), Puts(b, c, k, v), LocksFit(b),
         \A t \in DOMAIN Trains, file \in Files \ {"summary"} : k = <<t, file>> => v = t,
         k = <<"latest", "lock">> => v \in DOMAIN Trains /\ Published(v, b)
  PROVE  LocksFit(c)
<1>1. Keeps(b, c) /\ OneMore(b, c, k, v)
  BY PutForm
<1>2. \A t : Published(t, b) => Published(t, c)
  BY <1>1, KeptFits
<1>3. ASSUME NEW t \in DOMAIN Trains, NEW file \in Files \ {"summary"}, <<t, file>> \in DOMAIN c
      PROVE  ToSet(c[<<t, file>>]) \subseteq {t}
  <2>1. CASE k = <<t, file>>
    BY <1>1, <2>1 DEF LocksFit, OneMore
  <2>2. CASE k # <<t, file>>
    BY <1>1, <1>3, <2>2 DEF LocksFit, OneMore
  <2>. QED
    BY <2>1, <2>2
<1>4. ASSUME <<"latest", "lock">> \in DOMAIN c, NEW t \in ToSet(c[<<"latest", "lock">>])
      PROVE  t \in DOMAIN Trains /\ Published(t, c)
  <2>1. CASE k = <<"latest", "lock">>
    BY <1>1, <1>2, <1>4, <2>1 DEF LocksFit, OneMore
  <2>2. CASE k # <<"latest", "lock">>
    BY <1>1, <1>2, <1>4, <2>2 DEF LocksFit, OneMore
  <2>. QED
    BY <2>1, <2>2
<1>. QED
  BY <1>3, <1>4 DEF LocksFit

\* The same for manifests and the latest assets.
LEMMA PutAssets ==
  ASSUME NEW b, NEW c, NEW k, NEW v, Stored(b), Puts(b, c, k, v), AssetsFit(b),
         k[1] = "manifest" => ManifestFits(v, b),
         k = <<"latest", "assets">> => Pins(v.version, v.manifest, b)
  PROVE  AssetsFit(c)
<1>1. Keeps(b, c) /\ OneMore(b, c, k, v)
  BY PutForm
<1>2. /\ \A m : ManifestFits(m, b) => ManifestFits(m, c)
      /\ \A n, m : Pins(n, m, b) => Pins(n, m, c)
  BY <1>1, KeptFits
<1>3. ASSUME NEW j \in DOMAIN c, j[1] = "manifest", NEW m \in ToSet(c[j]) PROVE ManifestFits(m, c)
  <2>1. CASE j = k
    BY <1>1, <1>2, <1>3, <2>1 DEF AssetsFit, OneMore
  <2>2. CASE j # k
    BY <1>1, <1>2, <1>3, <2>2 DEF AssetsFit, OneMore
  <2>. QED
    BY <2>1, <2>2
<1>4. ASSUME <<"latest", "assets">> \in DOMAIN c, NEW a \in ToSet(c[<<"latest", "assets">>])
      PROVE  Pins(a.version, a.manifest, c)
  <2>1. CASE k = <<"latest", "assets">>
    BY <1>1, <1>2, <1>4, <2>1 DEF AssetsFit, OneMore
  <2>2. CASE k # <<"latest", "assets">>
    BY <1>1, <1>2, <1>4, <2>2 DEF AssetsFit, OneMore
  <2>. QED
    BY <2>1, <2>2
<1>. QED
  BY <1>3, <1>4 DEF AssetsFit

\* A step of one host, with what it has to see to: the others are not disturbed by
\* a bucket that only grows.
LEMMA HostMoves ==
  ASSUME ProtocolInv, NEW h \in Hosts, NEW H \in HostState, host' = [host EXCEPT ![h] = H],
         starts' \in Nat, train' = train, pdfs' = pdfs,
         Keeps(bucket, bucket'), Stored(bucket'), LocksFit(bucket'), AssetsFit(bucket'), HostFits(H, bucket'),
         checkout' \in [Hosts -> CheckoutState], \A g \in Hosts : ReceiptFits(checkout'[g], bucket')
  PROVE  ProtocolInv'
<1>1. host' \in [Hosts -> HostState] /\ \A g \in Hosts : host'[g] = IF g = h THEN H ELSE host[g]
  BY DEF ProtocolInv
<1>2. \A g \in Hosts : HostFits(host'[g], bucket')
  <2>1. \A g \in Hosts : HostFits(host[g], bucket')
    BY KeptFits DEF ProtocolInv
  <2>. QED
    BY <1>1, <2>1
<1>3. train' \in DOMAIN Trains /\ pdfs' \in [Sources -> DOMAIN Scans]
  BY DEF ProtocolInv
<1>. QED
  BY <1>1, <1>2, <1>3 DEF ProtocolInv

\* A host moves on, and nothing that the others see.
LEMMA HostOnly ==
  ASSUME ProtocolInv, NEW h \in Hosts, NEW H \in HostState, host' = [host EXCEPT ![h] = H],
         starts' \in Nat, train' = train, pdfs' = pdfs, bucket' = bucket, checkout' = checkout, HostFits(H, bucket)
  PROVE  ProtocolInv'
<1>1. Keeps(bucket, bucket)
  BY DEF Keeps
<1>2. /\ Stored(bucket) /\ LocksFit(bucket) /\ AssetsFit(bucket) /\ checkout \in [Hosts -> CheckoutState]
      /\ \A g \in Hosts : ReceiptFits(checkout[g], bucket)
  BY DEF ProtocolInv
<1>. QED
  BY <1>1, <1>2, HostMoves

\* An idle host fits every bucket.
LEMMA IdleFits ==
  /\ Idle \in HostState
  /\ \A b : HostFits(Idle, b)
<1>1. << >> \in Seq(AssetRow)
  BY EmptySeq
<1>2. Original \in DOMAIN Trains
  BY ProtocolAssumption
<1>. HIDE DEF AssetRow
<1>3. Idle \in HostState
  BY <1>1, <1>2 DEF Idle, HostState, Stages
<1>4. \A b : HostFits(Idle, b)
  BY DEF Idle, HostFits
<1>. QED
  BY <1>3, <1>4

\* A freeze begins.
LEMMA BeginFreezeKeeps ==
  ASSUME ProtocolInv, NEW h \in Hosts, BeginFreeze(h)
  PROVE  ProtocolInv'
<1>1. /\ starts \in Nat /\ starts' = starts + 1 /\ starts' \in Nat
      /\ train' = train /\ pdfs' = pdfs /\ bucket' = bucket /\ checkout' = checkout
      /\ train \in DOMAIN Trains /\ host \in [Hosts -> HostState] /\ HostFits(host[h], bucket)
  BY DEF ProtocolInv, BeginFreeze
<1>. DEFINE H == [Idle EXCEPT !.pc = "write", !.by = starts + 1, !.train = train, !.lock = train]
<1>2. CASE host' = host
  <2>1. host' = [host EXCEPT ![h] = host[h]] /\ host[h] \in HostState
    BY <1>1, <1>2
  <2>. QED
    BY <1>1, <2>1, HostOnly
<1>3. CASE host' = [host EXCEPT ![h] = H] /\ FoldsOf[train].ok
  <2>1. << >> \in Seq(AssetRow)
    BY EmptySeq
  <2>2. H \in HostState
    <3>1. \A i \in Nat : [Idle EXCEPT !.pc = "write", !.by = i, !.train = train, !.lock = train] \in HostState
      BY <1>1, IdleFits DEF HostState, Stages
    <3>. QED
      BY <1>1, <3>1
  <2>3. HostFits(H, bucket)
    BY <1>3 DEF HostFits, FreezeFits, Idle
  <2>. HIDE DEF H
  <2>. QED
    BY <1>1, <1>3, <2>2, <2>3, HostOnly
<1>. QED
  BY <1>2, <1>3 DEF BeginFreeze

\* It writes a file of the checkout.
LEMMA WriteLocalKeeps ==
  ASSUME ProtocolInv, NEW h \in Hosts, WriteLocal(h)
  PROVE  ProtocolInv'
<1>1. /\ host[h] \in HostState /\ host \in [Hosts -> HostState] /\ FreezeFits(host[h], bucket)
      /\ checkout \in [Hosts -> CheckoutState] /\ checkout[h] \in CheckoutState
      /\ host[h].pc = "write" /\ starts \in Nat
      /\ UNCHANGED <<train, pdfs, bucket, starts>>
  BY DEF ProtocolInv, WriteLocal, HostFits
<1>2. /\ host[h].at \in 1..4 /\ host[h].lock = host[h].train /\ FoldsOf[host[h].train].ok
      /\ host[h].train \in DOMAIN Trains /\ host[h].by \in Nat
  BY <1>1 DEF FreezeFits, HostState
<1>. DEFINE H == IF host[h].at < 4 THEN [host[h] EXCEPT !.at = @ + 1]
                 ELSE [host[h] EXCEPT !.at = 1, !.pc = "upload"]
<1>3. host' = [host EXCEPT ![h] = H]
  BY <1>1 DEF WriteLocal, LocalOrder
<1>4. H \in HostState
  <2>1. [host[h] EXCEPT !.at = @ + 1] \in HostState
    <3>1. \A i \in Nat : [host[h] EXCEPT !.at = i] \in HostState
      BY <1>1 DEF HostState
    <3>. QED
      BY <1>2, <3>1
  <2>2. [host[h] EXCEPT !.at = 1, !.pc = "upload"] \in HostState
    BY <1>1 DEF HostState, Stages
  <2>. QED
    BY <2>1, <2>2
<1>5. HostFits(H, bucket)
  BY <1>1, <1>2 DEF HostFits, FreezeFits
<1>6. checkout' \in [Hosts -> CheckoutState] /\ \A g \in Hosts : checkout'[g].receipts = checkout[g].receipts
  <2>. DEFINE file == LocalOrder[host[h].at]
              F == [checkout[h] EXCEPT ![file] = Frozen(h)[file]]
  <2>1. checkout' = [checkout EXCEPT ![h] = F]
    BY <1>1 DEF WriteLocal, Saved
  <2>2. /\ file \in {"refs", "folds", "lock", "summary"}
        /\ file = "summary" => Frozen(h)[file] \in Nat
        /\ file # "summary" => Frozen(h)[file] \in DOMAIN Trains
    BY <1>2 DEF LocalOrder, Frozen
  <2>. HIDE DEF file
  <2>3. F \in CheckoutState /\ F.receipts = checkout[h].receipts
    BY <1>1, <2>2 DEF CheckoutState
  <2>. HIDE DEF F
  <2>. QED
    BY <1>1, <2>1, <2>3
<1>7. \A g \in Hosts : ReceiptFits(checkout'[g], bucket)
  BY <1>6 DEF ReceiptFits, ProtocolInv
<1>8. Keeps(bucket, bucket)
  BY DEF Keeps
<1>9. Stored(bucket) /\ LocksFit(bucket) /\ AssetsFit(bucket)
  BY DEF ProtocolInv
<1>10. bucket' = bucket /\ train' = train /\ pdfs' = pdfs /\ starts' \in Nat
  BY <1>1
<1>. HIDE DEF H
<1>. QED
  BY <1>3, <1>4, <1>5, <1>6, <1>7, <1>8, <1>9, <1>10, HostMoves

\* Where each upload goes.
LEMMA UploadsForm ==
  ASSUME NEW t \in DOMAIN Trains, NEW n \in 1..6
  PROVE  /\ n \in 1..4 => Uploads(t)[n] = <<t, LocalOrder[n]>> /\ LocalOrder[n] \in Files
         /\ n = 5 => Uploads(t)[n] = <<"latest", "lock">>
         /\ n = 6 => Uploads(t)[n] = <<"latest", "summary">>
BY DEF Uploads, LocalOrder, Files

\* What is under every prefix but that of the locks.
LEMMA NoLockIsCalled ==
  "latest" \notin DOMAIN Trains /\ "manifest" \notin DOMAIN Trains /\ "page" \notin DOMAIN Trains
<1>1. {"latest", "manifest", "page"} \cap DOMAIN Trains = {}
  BY ProtocolAssumption, Zenon
<1>. QED
  BY <1>1

\* After the first four uploads the lock is published.
LEMMA FilesUploaded ==
  ASSUME NEW b, NEW t \in DOMAIN Trains, FoldsOf[t].ok, \A n \in 1..4 : Uploads(t)[n] \in DOMAIN b
  PROVE  Published(t, b)
<1>1. Uploads(t)[1] = <<t, "refs">> /\ Uploads(t)[2] = <<t, "folds">>
      /\ Uploads(t)[3] = <<t, "lock">> /\ Uploads(t)[4] = <<t, "summary">>
  BY DEF Uploads
<1>2. 1 \in 1..4 /\ 2 \in 1..4 /\ 3 \in 1..4 /\ 4 \in 1..4
  OBVIOUS
<1>. QED
  BY <1>1, <1>2 DEF Published, Files

\* A put of the protocol in terms of the bucket before and after.
LEMMA PutIsPuts ==
  ASSUME NEW k, NEW v, PutVersion(k, v)
  PROVE  Puts(bucket, bucket', k, v) /\ Versions(k) = VersionsOf(bucket, k)
BY DEF PutVersion, Puts, Versions, VersionsOf

\* It uploads a file, the latest lock only after the four.
LEMMA UploadKeeps ==
  ASSUME ProtocolInv, NEW h \in Hosts, Upload(h)
  PROVE  ProtocolInv'
<1>1. /\ host[h] \in HostState /\ host \in [Hosts -> HostState] /\ FreezeFits(host[h], bucket)
      /\ checkout \in [Hosts -> CheckoutState]
      /\ host[h].pc = "upload" /\ starts \in Nat
      /\ UNCHANGED <<train, pdfs, checkout, starts>>
  BY DEF ProtocolInv, Upload, HostFits
<1>. DEFINE t == host[h].train
            n == host[h].at
            k == Uploads(t)[n]
            v == Frozen(h)[k[2]]
            H == [host[h] EXCEPT !.pc = "check"]
<1>2. /\ n \in 1..6 /\ host[h].lock = t /\ FoldsOf[t].ok /\ t \in DOMAIN Trains
      /\ \A i \in 1..(n - 1) : Uploads(t)[i] \in DOMAIN bucket
  BY <1>1 DEF FreezeFits, HostState
<1>3. Puts(bucket, bucket', k, v)
  BY <1>2, PutIsPuts DEF Upload
<1>4. Stored(bucket) /\ LocksFit(bucket) /\ AssetsFit(bucket)
  BY DEF ProtocolInv
<1>5. host' = [host EXCEPT ![h] = H]
  BY <1>1 DEF Upload, Now
<1>6. H \in HostState
  BY <1>1 DEF HostState, Stages
<1>7. /\ n \in 1..4 => k = <<t, LocalOrder[n]>> /\ LocalOrder[n] \in Files
      /\ n = 5 => k = <<"latest", "lock">>
      /\ n = 6 => k = <<"latest", "summary">>
      /\ n \in 1..4 \/ n = 5 \/ n = 6
  BY <1>2, UploadsForm
<1>8. \A file \in Files \ {"summary"} : Frozen(h)[file] = t
  BY <1>2 DEF Frozen, Files
<1>9. n = 5 => v = t /\ Published(v, bucket)
  <2>1. n = 5 => v = t
    BY <1>7, <1>8 DEF Files
  <2>2. n = 5 => \A i \in 1..4 : Uploads(t)[i] \in DOMAIN bucket
    BY <1>2
  <2>. QED
    BY <1>2, <2>1, <2>2, FilesUploaded
<1>10. ASSUME NEW s \in DOMAIN Trains, NEW file \in Files \ {"summary"}, k = <<s, file>> PROVE v = s
  <2>1. n \in 1..4
    BY <1>7, <1>10, NoLockIsCalled
  <2>2. s = t /\ k[2] = file
    BY <1>7, <1>10, <2>1
  <2>. QED
    BY <1>8, <2>2
<1>11. /\ k = <<"latest", "lock">> => n = 5
       /\ k[1] # "manifest"
       /\ k # <<"latest", "assets">>
  BY <1>2, <1>7, NoLockIsCalled
<1>. HIDE DEF k, v, H
<1>12. LocksFit(bucket')
  BY <1>2, <1>3, <1>4, <1>9, <1>10, <1>11, PutLocks
<1>13. AssetsFit(bucket')
  BY <1>3, <1>4, <1>11, PutAssets
<1>14. Stored(bucket') /\ Keeps(bucket, bucket') /\ DOMAIN bucket' = DOMAIN bucket \cup {k}
  <2>1. Stored(bucket') /\ Keeps(bucket, bucket') /\ OneMore(bucket, bucket', k, v)
    BY <1>3, <1>4, PutForm
  <2>. QED
    BY <2>1 DEF OneMore
<1>15. HostFits(H, bucket')
  BY <1>1, <1>2, <1>14 DEF HostFits, FreezeFits, HostState, H, k
<1>16. \A g \in Hosts : ReceiptFits(checkout[g], bucket')
  BY <1>14, KeptFits DEF ProtocolInv
<1>17. checkout' = checkout /\ train' = train /\ pdfs' = pdfs /\ starts' \in Nat
  BY <1>1
<1>. QED
  BY <1>1, <1>5, <1>6, <1>12, <1>13, <1>14, <1>15, <1>16, <1>17, HostMoves

\* It looks at the last version of what it uploaded; the receipts come last.
LEMMA CheckUploadKeeps ==
  ASSUME ProtocolInv, NEW h \in Hosts, CheckUpload(h)
  PROVE  ProtocolInv'
<1>1. /\ host[h] \in HostState /\ host \in [Hosts -> HostState] /\ FreezeFits(host[h], bucket)
      /\ checkout \in [Hosts -> CheckoutState] /\ checkout[h] \in CheckoutState
      /\ host[h].pc = "check" /\ starts \in Nat
      /\ bucket' = bucket /\ train' = train /\ pdfs' = pdfs /\ starts' = starts
  BY DEF ProtocolInv, CheckUpload, HostFits
<1>. DEFINE t == host[h].train
            n == host[h].at
            same == Last(bucket[Uploads(t)[n]]) = Frozen(h)[Uploads(t)[n][2]]
            H == IF same /\ n # 6 THEN [host[h] EXCEPT !.at = @ + 1, !.pc = "upload"] ELSE Idle
<1>2. /\ n \in 1..6 /\ host[h].lock = t /\ FoldsOf[t].ok /\ t \in DOMAIN Trains
      /\ \A i \in 1..n : Uploads(t)[i] \in DOMAIN bucket
  BY <1>1 DEF FreezeFits, HostState
<1>3. Len(Uploads(t)) = 6
  BY DEF Uploads
<1>. HIDE DEF same
<1>4. /\ host' = [host EXCEPT ![h] = H]
      /\ checkout' = IF same /\ n = 6 THEN [checkout EXCEPT ![h].receipts = t] ELSE checkout
  BY <1>1, <1>2, <1>3 DEF CheckUpload, Saved, Finished, same
<1>5. H \in HostState
  <2>1. [host[h] EXCEPT !.at = @ + 1, !.pc = "upload"] \in HostState
    <3>1. \A i \in Nat : [host[h] EXCEPT !.at = i, !.pc = "upload"] \in HostState
      BY <1>1 DEF HostState, Stages
    <3>2. host[h].at + 1 \in Nat
      BY <1>2
    <3>. QED
      BY ONLY <3>1, <3>2
  <2>. QED
    BY <2>1, IdleFits
<1>6. HostFits(H, bucket)
  <2>1. CASE same /\ n # 6
    BY <1>1, <1>2, <2>1 DEF HostFits, FreezeFits, HostState
  <2>2. CASE ~(same /\ n # 6)
    BY <2>2, IdleFits
  <2>. QED
    BY <2>1, <2>2
<1>7. \A g \in Hosts : ReceiptFits(checkout[g], bucket)
  BY DEF ProtocolInv
<1>8. checkout' \in [Hosts -> CheckoutState] /\ \A g \in Hosts : ReceiptFits(checkout'[g], bucket)
  <2>1. CASE ~(same /\ n = 6)
    BY <1>1, <1>4, <1>7, <2>1
  <2>2. CASE same /\ n = 6
    <3>1. \A i \in 1..4 : Uploads(t)[i] \in DOMAIN bucket
      BY <1>2, <2>2
    <3>2. Published(t, bucket)
      BY <1>2, <3>1, FilesUploaded
    <3>. DEFINE F == [checkout[h] EXCEPT !.receipts = t]
    <3>3. checkout' = [checkout EXCEPT ![h] = F]
      BY <1>1, <1>4, <2>2
    <3>4. F \in CheckoutState /\ F.receipts = t
      BY <1>1, <1>2 DEF CheckoutState
    <3>5. ReceiptFits(F, bucket)
      BY <3>2, <3>4 DEF ReceiptFits
    <3>. HIDE DEF F
    <3>. QED
      BY <1>1, <1>7, <3>3, <3>4, <3>5
  <2>. QED
    BY <2>1, <2>2
<1>9. Stored(bucket) /\ LocksFit(bucket) /\ AssetsFit(bucket)
  BY DEF ProtocolInv
<1>10. Keeps(bucket, bucket)
  BY DEF Keeps
<1>. HIDE DEF H
<1>. QED
  BY <1>1, <1>4, <1>5, <1>6, <1>8, <1>9, <1>10, HostMoves

\* There is at least one object.
LEMMA WorkIsThere ==
  ASSUME NEW t \in DOMAIN Trains
  PROVE  Len(Work[t]) \in Nat /\ 1 <= Len(Work[t]) /\ DOMAIN Work[t] = 1..Len(Work[t])
<1>1. Len(Work[t]) \in Nat \ {0} /\ DOMAIN Work[t] = 1..Len(Work[t])
  BY WorkForm, Zenon
<1>. HIDE DEF Work
<1>. QED
  BY <1>1

\* An object is a page of a document of the questions.
LEMMA WorkAt ==
  ASSUME NEW t \in DOMAIN Trains, NEW n \in DOMAIN Work[t]
  PROVE  /\ Work[t][n] \in PageKeys /\ Work[t][n][1] = "page"
         /\ Work[t][n][2] \in DocumentsOf(Trains[t]) /\ Work[t][n][4] \in ToSet(Objects)
<1>1. \A i \in DOMAIN Work[t] :
        /\ Work[t][i] \in PageKeys /\ Work[t][i][1] = "page"
        /\ Work[t][i][2] \in DocumentsOf(Trains[t]) /\ Work[t][i][4] \in ToSet(Objects)
  BY WorkForm, Zenon
<1>. QED
  BY <1>1, Zenon

\* A preparation begins, with the questions of the moment and the lock of its checkout.
LEMMA BeginAssetsKeeps ==
  ASSUME ProtocolInv, NEW h \in Hosts, BeginAssets(h)
  PROVE  ProtocolInv'
<1>1. /\ starts \in Nat /\ starts' = starts + 1 /\ starts' \in Nat
      /\ train' = train /\ pdfs' = pdfs /\ bucket' = bucket /\ checkout' = checkout
      /\ train \in DOMAIN Trains /\ host \in [Hosts -> HostState] /\ checkout[h] \in CheckoutState
  BY DEF ProtocolInv, BeginAssets
<1>. DEFINE H == [Idle EXCEPT !.pc = "open", !.by = starts + 1, !.train = train, !.lock = checkout[h].lock]
<1>2. host' = [host EXCEPT ![h] = H]
  BY DEF BeginAssets
<1>3. checkout[h].lock \in DOMAIN Trains
  BY <1>1 DEF CheckoutState
<1>4. H \in HostState
  <2>1. \A i \in Nat, t \in DOMAIN Trains :
          [Idle EXCEPT !.pc = "open", !.by = i, !.train = train, !.lock = t] \in HostState
    BY <1>1, IdleFits DEF HostState, Stages
  <2>. QED
    BY <1>1, <1>3, <2>1
<1>5. HostFits(H, bucket)
  <2>1. H.pc = "open" /\ H.rows = << >> /\ H.at = 1 /\ H.train = train
    BY DEF Idle
  <2>2. DOMAIN H.rows = {} /\ Len(H.rows) = 0
    BY <2>1
  <2>3. 1 <= Len(Work[train])
    BY <1>1, WorkIsThere
  <2>. HIDE DEF H
  <2>. QED
    BY <2>1, <2>2, <2>3 DEF HostFits, PrepareFits, RowsFit, OneScanEach
<1>. HIDE DEF H
<1>. QED
  BY <1>1, <1>2, <1>4, <1>5, HostOnly

\* What is known of a host that renders.
LEMMA Rendering ==
  ASSUME ProtocolInv, NEW h \in Hosts,
         host[h].pc \in {"open", "head", "put", "manifest", "latest", "announce"}
  PROVE  /\ host \in [Hosts -> HostState] /\ host[h] \in HostState /\ PrepareFits(host[h], bucket)
         /\ host[h].train \in DOMAIN Trains /\ host[h].at \in Nat /\ host[h].rows \in Seq(AssetRow)
         /\ host[h].pc \in {"open", "head", "put"} =>
              /\ host[h].at \in 1..Len(work(h)) /\ key(h) = Work[host[h].train][host[h].at]
              /\ key(h) \in PageKeys /\ key(h)[1] = "page" /\ key(h)[4] \in ToSet(Objects)
              /\ key(h)[2] \in Sources
<1>1. host \in [Hosts -> HostState] /\ host[h] \in HostState /\ PrepareFits(host[h], bucket)
  BY DEF ProtocolInv, HostFits
<1>2. host[h].train \in DOMAIN Trains /\ host[h].at \in Nat /\ host[h].rows \in Seq(AssetRow)
  BY <1>1 DEF HostState
<1>3. ASSUME host[h].pc \in {"open", "head", "put"}
      PROVE  /\ host[h].at \in 1..Len(work(h)) /\ key(h) = Work[host[h].train][host[h].at]
             /\ key(h) \in PageKeys /\ key(h)[1] = "page" /\ key(h)[4] \in ToSet(Objects)
             /\ key(h)[2] \in Sources
  <2>1. work(h) = Work[host[h].train] /\ key(h) = Work[host[h].train][host[h].at]
    BY DEF work, key
  <2>2. host[h].at <= Len(work(h)) /\ Len(host[h].rows) + 1 = host[h].at /\ Len(host[h].rows) \in Nat
    BY <1>1, <1>2, <1>3, <2>1, LenProperties DEF PrepareFits
  <2>3. Len(work(h)) \in Nat /\ DOMAIN work(h) = 1..Len(work(h))
    BY <1>2, <2>1, WorkIsThere
  <2>4. host[h].at \in 1..Len(work(h))
    BY <2>2, <2>3
  <2>5. key(h) \in PageKeys /\ key(h)[1] = "page" /\ key(h)[4] \in ToSet(Objects)
        /\ key(h)[2] \in DocumentsOf(Trains[host[h].train])
    <3>1. host[h].at \in DOMAIN Work[host[h].train]
      BY <2>1, <2>3, <2>4
    <3>. QED
      BY <1>2, <2>1, <3>1, WorkAt
  <2>6. key(h)[2] \in Sources
    BY <1>2, <2>5 DEF Sources
  <2>. QED
    BY <2>1, <2>4, <2>5, <2>6
<1>. QED
  BY <1>1, <1>2, <1>3

\* It opens the document of the next object: no row is of that document yet.
LEMMA OpenPdfKeeps ==
  ASSUME ProtocolInv, NEW h \in Hosts, OpenPdf(h)
  PROVE  ProtocolInv'
<1>1. /\ host[h].pc = "open"
      /\ starts' \in Nat /\ train' = train /\ pdfs' = pdfs /\ bucket' = bucket /\ checkout' = checkout
      /\ pdfs \in [Sources -> DOMAIN Scans]
  BY DEF ProtocolInv, OpenPdf
<1>2. /\ host \in [Hosts -> HostState] /\ host[h] \in HostState /\ PrepareFits(host[h], bucket)
      /\ key(h) = Work[host[h].train][host[h].at] /\ key(h)[2] \in Sources
  BY <1>1, Rendering
<1>. DEFINE s == pdfs[key(h)[2]]
            H == [host[h] EXCEPT !.pc = "head", !.scan = s]
<1>3. s \in DOMAIN Scans
  BY <1>1, <1>2
<1>4. host' = [host EXCEPT ![h] = H]
  BY <1>2 DEF OpenPdf
<1>. HIDE DEF s
<1>5. H \in HostState
  BY <1>2, <1>3 DEF HostState, Stages
<1>6. HostFits(H, bucket)
  <2>1. /\ H.pc = "head" /\ H.rows = host[h].rows /\ H.at = host[h].at /\ H.train = host[h].train
        /\ H.scan = s
    BY <1>2 DEF HostState
  <2>. HIDE DEF H
  <2>. QED
    BY <1>1, <1>2, <1>3, <2>1 DEF HostFits, PrepareFits, OfScan
<1>. HIDE DEF H
<1>. QED
  BY <1>1, <1>4, <1>5, <1>6, HostOnly

\* A row more: the document at hand is of one scan, and it does not come again.
LEMMA RecordedFits ==
  ASSUME ProtocolInv, NEW h \in Hosts, host[h].pc \in {"head", "put"}, NEW b, Keeps(bucket, b),
         NEW version \in Nat, Backed([key |-> key(h), version |-> version, digest |-> digest(h)], b),
         Recorded(h, version)
  PROVE  \E H \in HostState : host' = [host EXCEPT ![h] = H] /\ HostFits(H, b)
<1>. DEFINE t == host[h].train
            n == host[h].at
            rows == host[h].rows
            row == [key |-> key(h), version |-> version, digest |-> digest(h)]
            more == Append(rows, row)
            stage == IF n + 1 > Len(work(h)) THEN "manifest"
                  ELSE IF work(h)[n + 1][2] # key(h)[2] THEN "open" ELSE "head"
            H == [host[h] EXCEPT !.rows = more, !.at = n + 1, !.pc = stage]
<1>1. /\ host \in [Hosts -> HostState] /\ host[h] \in HostState /\ PrepareFits(host[h], bucket)
      /\ t \in DOMAIN Trains /\ n \in Nat /\ rows \in Seq(AssetRow)
      /\ n \in 1..Len(work(h)) /\ key(h) = Work[t][n]
      /\ key(h) \in PageKeys /\ key(h)[1] = "page" /\ key(h)[4] \in ToSet(Objects)
  BY Rendering
<1>2. work(h) = Work[t] /\ host' = [host EXCEPT ![h] = H]
  <2>1. work(h) = Work[t]
    BY DEF work
  <2>2. host' = [host EXCEPT ![h].rows = more, ![h].at = n + 1, ![h].pc = stage]
    BY <1>1 DEF Recorded
  <2>. HIDE DEF more, stage
  <2>. QED
    BY <1>1, <2>1, <2>2
<1>3. Len(Work[t]) \in Nat /\ DOMAIN Work[t] = 1..Len(Work[t])
      /\ \A i, j \in DOMAIN Work[t] : i < j => /\ Work[t][i][2] \in Int /\ Work[t][j][2] \in Int
                                               /\ Work[t][i][2] <= Work[t][j][2]
  BY <1>1, WorkForm
<1>4. host[h].scan \in DOMAIN Scans /\ digest(h) = Scans[host[h].scan][key(h)[4]] /\ digest(h) \in Digests
      /\ OfScan(rows, key(h)[2], host[h].scan)
  <2>1. host[h].scan \in DOMAIN Scans /\ OfScan(rows, key(h)[2], host[h].scan)
    BY <1>1 DEF PrepareFits
  <2>2. digest(h) = Scans[host[h].scan][key(h)[4]]
    BY DEF digest
  <2>3. digest(h) \in Digests
    <3>1. \A s \in DOMAIN Scans, o \in ToSet(Objects) : Scans[s][o] \in Digests
      BY DEF Digests
    <3>2. key(h)[4] \in ToSet(Objects)
      BY <1>1
    <3>. QED
      BY ONLY <2>1, <2>2, <3>1, <3>2
  <2>. QED
    BY <2>1, <2>2, <2>3
<1>5. row \in AssetRow /\ row.key = key(h) /\ row.digest = digest(h)
  BY <1>1, <1>4 DEF AssetRow
<1>6. RowsFit(t, rows, b) /\ OneScanEach(rows) /\ Len(rows) + 1 = n
  BY <1>1, KeptFits DEF PrepareFits
<1>. HIDE DEF row
<1>7. /\ more \in Seq(AssetRow) /\ Len(more) = n /\ DOMAIN more = 1..n
      /\ \A i \in 1..(n - 1) : more[i] = rows[i] /\ i \in DOMAIN rows
      /\ more[n] = row
  <2>1. /\ more \in Seq(AssetRow) /\ Len(more) = Len(rows) + 1 /\ DOMAIN more = 1..(Len(rows) + 1)
        /\ \A i \in 1..Len(rows) : more[i] = rows[i]
        /\ more[Len(rows) + 1] = row
    BY <1>1, <1>5, SetOfAppend
  <2>2. Len(rows) \in Nat /\ DOMAIN rows = 1..Len(rows)
    BY <1>1, LenProperties
  <2>3. Len(rows) = n - 1
    BY <1>6, <2>2
  <2>. HIDE DEF more
  <2>. QED
    BY <1>6, <2>1, <2>2, <2>3
<1>. HIDE DEF more
<1>8. \A i \in 1..n : i = n \/ i \in 1..(n - 1)
  BY <1>1
<1>9. RowsFit(t, more, b)
  <2>1. ASSUME NEW i \in 1..n
        PROVE  i \in DOMAIN Work[t] /\ more[i].key = Work[t][i] /\ Backed(more[i], b)
    <3>1. CASE i = n
      BY <1>1, <1>2, <1>3, <1>5, <1>7, <3>1 DEF row
    <3>2. CASE i \in 1..(n - 1)
      BY <1>6, <1>7, <3>2 DEF RowsFit
    <3>. QED
      BY <1>8, <3>1, <3>2
  <2>. QED
    BY <1>7, <2>1 DEF RowsFit
<1>10. OfScan(more, key(h)[2], host[h].scan)
  <2>1. ASSUME NEW i \in 1..n, more[i].key[2] = key(h)[2]
        PROVE  more[i].digest = Scans[host[h].scan][more[i].key[4]]
    <3>1. CASE i = n
      BY <1>4, <1>5, <1>7, <3>1
    <3>2. CASE i \in 1..(n - 1)
      BY <1>4, <1>7, <2>1, <3>2 DEF OfScan
    <3>. QED
      BY <1>8, <3>1, <3>2
  <2>. QED
    BY <1>7, <2>1 DEF OfScan
<1>11. OneScanEach(more)
  <2>1. ASSUME NEW i \in 1..n PROVE \E scan \in DOMAIN Scans : OfScan(more, more[i].key[2], scan)
    <3>1. CASE more[i].key[2] = key(h)[2]
      BY <1>4, <1>10, <3>1
    <3>2. CASE more[i].key[2] # key(h)[2]
      <4>1. i \in 1..(n - 1) /\ more[n].key[2] = key(h)[2]
        BY <1>5, <1>7, <1>8, <3>2
      <4>2. PICK scan \in DOMAIN Scans : OfScan(rows, rows[i].key[2], scan)
        BY <1>6, <1>7, <4>1 DEF OneScanEach
      <4>3. ASSUME NEW j \in 1..n, more[j].key[2] = more[i].key[2]
            PROVE  more[j].digest = Scans[scan][more[j].key[4]]
        <5>1. j \in 1..(n - 1)
          BY <1>8, <3>2, <4>1, <4>3
        <5>2. more[j] = rows[j] /\ j \in DOMAIN rows /\ more[i] = rows[i]
          BY <1>7, <4>1, <5>1
        <5>. QED
          BY <4>2, <4>3, <5>2 DEF OfScan
      <4>4. OfScan(more, more[i].key[2], scan)
        BY <1>7, <4>3 DEF OfScan
      <4>. QED
        BY <4>4
    <3>. QED
      BY <3>1, <3>2
  <2>. QED
    BY <1>7, <2>1 DEF OneScanEach
<1>12. /\ stage \in {"manifest", "open", "head"}
       /\ stage = "manifest" => n + 1 = Len(Work[t]) + 1
       /\ stage # "manifest" => n + 1 <= Len(Work[t])
       /\ stage = "open" => Work[t][n + 1][2] # key(h)[2]
       /\ stage = "head" => Work[t][n + 1][2] = key(h)[2]
  <2>1. CASE n + 1 > Len(work(h))
    <3>1. n + 1 = Len(Work[t]) + 1
      <4>1. n \in 1..Len(Work[t]) /\ n + 1 > Len(Work[t]) /\ Len(Work[t]) \in Nat
        BY <1>1, <1>2, <1>3, <2>1
      <4>. QED
        BY ONLY <4>1
    <3>2. stage = "manifest"
      BY <2>1
    <3>. HIDE DEF stage
    <3>. QED
      BY <3>1, <3>2
  <2>2. CASE ~(n + 1 > Len(work(h))) /\ work(h)[n + 1][2] # key(h)[2]
    <3>1. stage = "open" /\ n + 1 <= Len(Work[t]) /\ Work[t][n + 1][2] # key(h)[2]
      BY <1>1, <1>2, <1>3, <2>2
    <3>. HIDE DEF stage
    <3>. QED
      BY <3>1
  <2>3. CASE ~(n + 1 > Len(work(h))) /\ ~(work(h)[n + 1][2] # key(h)[2])
    <3>1. stage = "head" /\ n + 1 <= Len(Work[t]) /\ Work[t][n + 1][2] = key(h)[2]
      BY <1>1, <1>2, <1>3, <2>3
    <3>. HIDE DEF stage
    <3>. QED
      BY <3>1
  <2>. QED
    BY <2>1, <2>2, <2>3
<1>. HIDE DEF stage
<1>13. stage = "open" => \A i \in 1..n : more[i].key[2] # Work[t][n + 1][2]
  <2>1. ASSUME stage = "open", NEW i \in 1..n PROVE more[i].key[2] # Work[t][n + 1][2]
    <3>1. n \in DOMAIN Work[t] /\ n + 1 \in DOMAIN Work[t] /\ i \in DOMAIN Work[t] /\ n < n + 1
          /\ n \in Int
      BY <1>1, <1>2, <1>3, <1>12, <2>1
    <3>2. more[i].key = Work[t][i]
      BY <1>7, <1>9 DEF RowsFit
    <3>3. /\ Work[t][n][2] \in Int /\ Work[t][n + 1][2] \in Int
          /\ Work[t][n][2] <= Work[t][n + 1][2]
      BY <1>3, <3>1
    <3>4. Work[t][n][2] # Work[t][n + 1][2]
      BY <1>1, <1>12, <2>1
    <3>5. Work[t][i][2] \in Int /\ Work[t][i][2] <= Work[t][n][2]
      <4>1. i = n \/ i < n
        BY <1>1, <1>3, <3>1
      <4>2. i < n => Work[t][i][2] \in Int /\ Work[t][i][2] <= Work[t][n][2]
        BY <1>3, <3>1
      <4>. QED
        BY <3>3, <4>1, <4>2
    <3>. QED
      BY <3>2, <3>3, <3>4, <3>5
  <2>. QED
    BY <2>1
<1>14. H \in HostState
  <2>1. n + 1 \in Nat /\ stage \in Stages
    BY <1>1, <1>12 DEF Stages
  <2>2. \A i \in Nat, p \in Stages : [host[h] EXCEPT !.rows = more, !.at = i, !.pc = p] \in HostState
    BY <1>1, <1>7 DEF HostState
  <2>. QED
    BY <2>1, <2>2
<1>15. HostFits(H, b)
  <2>1. H.rows = more /\ H.at = n + 1 /\ H.pc = stage /\ H.train = t /\ H.scan = host[h].scan
    BY <1>1 DEF HostState
  <2>. HIDE DEF H
  <2>2. Len(H.rows) + 1 = H.at /\ RowsFit(H.train, H.rows, b) /\ OneScanEach(H.rows)
    BY <1>7, <1>9, <1>11, <2>1
  <2>3. H.pc \in {"open", "head", "put"} => H.at <= Len(Work[H.train])
    BY <1>12, <2>1
  <2>4. H.pc = "open" => \A i \in DOMAIN H.rows : H.rows[i].key[2] # Work[H.train][H.at][2]
    BY <1>7, <1>13, <2>1
  <2>5. H.pc \in {"head", "put"} => H.scan \in DOMAIN Scans /\ OfScan(H.rows, Work[H.train][H.at][2], H.scan)
    BY <1>4, <1>10, <1>12, <2>1
  <2>6. H.pc \in {"manifest", "latest", "announce"} => H.at = Len(Work[H.train]) + 1
    BY <1>12, <2>1
  <2>7. H.pc # "announce" /\ H.pc \notin {"write", "upload", "check"}
    BY <1>12, <2>1
  <2>. QED
    BY <2>2, <2>3, <2>4, <2>5, <2>6, <2>7 DEF HostFits, PrepareFits
<1>. HIDE DEF H
<1>. QED
  BY <1>2, <1>14, <1>15

\* It looks for an object, and takes over a version of the same digest.
LEMMA HeadObjectOfKeeps ==
  ASSUME ProtocolInv, NEW h \in Hosts, HeadObjectOf(h)
  PROVE  ProtocolInv'
<1>. DEFINE old == Versions(key(h))
<1>1. /\ host[h].pc = "head"
      /\ starts' \in Nat /\ train' = train /\ pdfs' = pdfs /\ bucket' = bucket /\ checkout' = checkout
      /\ Stored(bucket)
  BY DEF ProtocolInv, HeadObjectOf
<1>2. /\ host \in [Hosts -> HostState] /\ host[h] \in HostState /\ PrepareFits(host[h], bucket)
  BY <1>1, Rendering
<1>3. CASE Finished(h)
  <2>1. host' = [host EXCEPT ![h] = Idle]
    BY <1>3 DEF Finished
  <2>. QED
    BY <1>1, <2>1, IdleFits, HostOnly
<1>4. CASE Now(h, "put")
  <2>. DEFINE H == [host[h] EXCEPT !.pc = "put"]
  <2>1. host' = [host EXCEPT ![h] = H]
    BY <1>2, <1>4 DEF Now
  <2>2. H \in HostState
    BY <1>2 DEF HostState, Stages
  <2>3. HostFits(H, bucket)
    <3>1. /\ H.pc = "put" /\ H.rows = host[h].rows /\ H.at = host[h].at /\ H.train = host[h].train
          /\ H.scan = host[h].scan
      BY <1>2 DEF HostState
    <3>. HIDE DEF H
    <3>. QED
      BY <1>1, <1>2, <3>1 DEF HostFits, PrepareFits
  <2>. HIDE DEF H
  <2>. QED
    BY <1>1, <2>1, <2>2, <2>3, HostOnly
<1>5. CASE old # << >> /\ Last(old) = digest(h) /\ Recorded(h, Len(old))
  <2>. DEFINE row == [key |-> key(h), version |-> Len(old), digest |-> digest(h)]
  <2>1. key(h) \in DOMAIN bucket /\ old = bucket[key(h)]
    BY <1>5 DEF Versions
  <2>. HIDE DEF old
  <2>2. /\ Len(old) \in Nat /\ DOMAIN old = 1..Len(old) /\ Len(old) # 0
    <3>1. old \in Seq(ToSet(old))
      BY <1>1, <2>1 DEF Stored
    <3>. QED
      BY <1>5, <3>1, LenProperties, EmptySeq
  <2>3. Len(old) \in DOMAIN bucket[key(h)] /\ bucket[key(h)][Len(old)] = digest(h)
    BY <1>5, <2>1, <2>2 DEF Last
  <2>4. Backed(row, bucket)
    BY <2>1, <2>3 DEF Backed
  <2>5. Keeps(bucket, bucket)
    BY DEF Keeps
  <2>. HIDE DEF row
  <2>6. \E H \in HostState : host' = [host EXCEPT ![h] = H] /\ HostFits(H, bucket)
    BY <1>1, <1>5, <2>2, <2>4, <2>5, RecordedFits DEF row
  <2>. QED
    BY <1>1, <2>6, HostOnly
<1>. QED
  BY <1>3, <1>4, <1>5 DEF HeadObjectOf

\* A put of a preparation: it names no file of a lock, nor the latest lock.
LEMMA PreparedPut ==
  ASSUME ProtocolInv, NEW h \in Hosts, NEW H \in HostState, host' = [host EXCEPT ![h] = H],
         NEW k, NEW v, PutVersion(k, v), k[1] \notin DOMAIN Trains, k # <<"latest", "lock">>,
         k[1] = "manifest" => ManifestFits(v, bucket),
         k = <<"latest", "assets">> => Pins(v.version, v.manifest, bucket),
         starts' = starts, train' = train, pdfs' = pdfs, checkout' = checkout,
         HostFits(H, bucket')
  PROVE  ProtocolInv'
<1>1. Puts(bucket, bucket', k, v)
  BY PutIsPuts
<1>2. /\ Stored(bucket) /\ LocksFit(bucket) /\ AssetsFit(bucket)
      /\ starts' \in Nat /\ checkout' \in [Hosts -> CheckoutState]
  BY DEF ProtocolInv
<1>3. Stored(bucket') /\ Keeps(bucket, bucket')
  BY <1>1, <1>2, PutForm
<1>4. \A t \in DOMAIN Trains, file \in Files \ {"summary"} : k = <<t, file>> => v = t
  OBVIOUS
<1>5. LocksFit(bucket')
  BY <1>1, <1>2, <1>4, PutLocks
<1>6. AssetsFit(bucket')
  BY <1>1, <1>2, PutAssets
<1>7. \A g \in Hosts : ReceiptFits(checkout'[g], bucket')
  BY <1>3, KeptFits DEF ProtocolInv
<1>. QED
  BY <1>2, <1>3, <1>5, <1>6, <1>7, HostMoves

\* It stores an object, and records the version.
LEMMA PutObjectKeeps ==
  ASSUME ProtocolInv, NEW h \in Hosts, PutObject(h)
  PROVE  ProtocolInv'
<1>. DEFINE k == key(h)
            v == digest(h)
            version == Len(Versions(k)) + 1
<1>1. /\ host[h].pc = "put" /\ PutVersion(k, v) /\ Recorded(h, version)
      /\ starts' = starts /\ train' = train /\ pdfs' = pdfs /\ checkout' = checkout
      /\ Stored(bucket)
  BY DEF ProtocolInv, PutObject
<1>2. k[1] = "page"
  BY <1>1, Rendering
<1>3. Puts(bucket, bucket', k, v) /\ Versions(k) = VersionsOf(bucket, k)
  BY <1>1, PutIsPuts
<1>. HIDE DEF k, v
<1>4. /\ Keeps(bucket, bucket') /\ OneMore(bucket, bucket', k, v)
      /\ version \in Nat /\ version \in DOMAIN bucket'[k] /\ bucket'[k][version] = v
  <2>1. /\ Keeps(bucket, bucket') /\ OneMore(bucket, bucket', k, v)
        /\ Len(VersionsOf(bucket, k)) \in Nat /\ Len(VersionsOf(bucket, k)) + 1 \in DOMAIN bucket'[k]
        /\ bucket'[k][Len(VersionsOf(bucket, k)) + 1] = v
    BY <1>1, <1>3, PutForm
  <2>. QED
    BY <1>3, <2>1
<1>. HIDE DEF version
<1>5. Backed([key |-> k, version |-> version, digest |-> v], bucket')
  BY <1>4 DEF Backed, OneMore
<1>6. \E H \in HostState : host' = [host EXCEPT ![h] = H] /\ HostFits(H, bucket')
  BY <1>1, <1>4, <1>5, RecordedFits DEF k, v
<1>7. k[1] \notin DOMAIN Trains /\ k # <<"latest", "lock">> /\ k[1] # "manifest" /\ k # <<"latest", "assets">>
  BY <1>2, NoLockIsCalled
<1>. QED
  BY <1>1, <1>6, <1>7, PreparedPut

\* After its last object a host has a manifest that fits.
LEMMA ManifestOfHost ==
  ASSUME ProtocolInv, NEW h \in Hosts, host[h].pc \in {"manifest", "latest", "announce"}
  PROVE  ManifestFits(Manifest(h), bucket)
<1>1. /\ host[h] \in HostState /\ PrepareFits(host[h], bucket)
      /\ host[h].train \in DOMAIN Trains /\ host[h].rows \in Seq(AssetRow)
  BY Rendering
<1>2. /\ Len(host[h].rows) + 1 = host[h].at /\ host[h].at = Len(Work[host[h].train]) + 1
      /\ RowsFit(host[h].train, host[h].rows, bucket) /\ OneScanEach(host[h].rows)
  BY <1>1 DEF PrepareFits
<1>3. Len(host[h].rows) = Len(Work[host[h].train])
  BY <1>1, <1>2, LenProperties, WorkIsThere
<1>4. Manifest(h).train = host[h].train /\ Manifest(h).rows = host[h].rows
  BY DEF Manifest
<1>. QED
  BY <1>1, <1>2, <1>3, <1>4 DEF ManifestFits

\* After its last row a preparation changes its stage, and perhaps notes a version.
LEMMA StageFits ==
  ASSUME ProtocolInv, NEW h \in Hosts, host[h].pc \in {"manifest", "latest", "announce"},
         NEW H \in HostState, NEW b, Keeps(bucket, b),
         H.train = host[h].train, H.lock = host[h].lock, H.rows = host[h].rows, H.at = host[h].at,
         H.pc \in {"latest", "announce"},
         H.pc = "announce" => Pins(H.version, Manifest(h), b)
  PROVE  HostFits(H, b)
<1>1. PrepareFits(host[h], bucket)
  BY Rendering
<1>2. PrepareFits(host[h], bucket) => RowsFit(host[h].train, host[h].rows, b)
  BY KeptFits DEF PrepareFits
<1>3. Manifest(h) = [train |-> H.train, lock |-> H.lock, rows |-> H.rows]
  BY DEF Manifest
<1>. QED
  BY <1>1, <1>2, <1>3 DEF HostFits, PrepareFits

\* It stores the manifest under its second.
LEMMA PutManifestKeeps ==
  ASSUME ProtocolInv, NEW h \in Hosts, PutManifest(h)
  PROVE  ProtocolInv'
<1>1. PICK second \in Seconds : PutVersion(<<"manifest", second>>, Manifest(h))
  BY DEF PutManifest
<1>. DEFINE k == <<"manifest", second>>
            H == [host[h] EXCEPT !.pc = "latest"]
<1>2. /\ host[h].pc = "manifest" /\ Stored(bucket)
      /\ starts' = starts /\ train' = train /\ pdfs' = pdfs /\ checkout' = checkout
  BY DEF ProtocolInv, PutManifest
<1>3. host \in [Hosts -> HostState] /\ host[h] \in HostState
  BY <1>2, Rendering
<1>4. host' = [host EXCEPT ![h] = H]
  BY <1>3 DEF PutManifest, Now
<1>5. H \in HostState
  BY <1>3 DEF HostState, Stages
<1>6. /\ H.train = host[h].train /\ H.lock = host[h].lock /\ H.rows = host[h].rows /\ H.at = host[h].at
      /\ H.pc = "latest"
  BY <1>3 DEF HostState
<1>7. Keeps(bucket, bucket')
  BY <1>1, <1>2, PutIsPuts, PutForm
<1>. HIDE DEF H
<1>8. HostFits(H, bucket')
  BY <1>2, <1>5, <1>6, <1>7, StageFits
<1>9. ManifestFits(Manifest(h), bucket)
  BY <1>2, ManifestOfHost
<1>10. k[1] \notin DOMAIN Trains /\ k # <<"latest", "lock">> /\ k # <<"latest", "assets">>
  BY NoLockIsCalled
<1>11. PutVersion(k, Manifest(h))
  BY <1>1
<1>. HIDE DEF k
<1>. QED
  BY <1>2, <1>4, <1>5, <1>8, <1>9, <1>10, <1>11, PreparedPut

\* It stores the manifest as the latest, and notes the version.
LEMMA PutLatestKeeps ==
  ASSUME ProtocolInv, NEW h \in Hosts, PutLatest(h)
  PROVE  ProtocolInv'
<1>. DEFINE k == <<"manifest", "latest">>
            version == Len(Versions(k)) + 1
            H == [host[h] EXCEPT !.pc = "announce", !.version = version]
<1>1. /\ host[h].pc = "latest" /\ Stored(bucket) /\ PutVersion(k, Manifest(h))
      /\ starts' = starts /\ train' = train /\ pdfs' = pdfs /\ checkout' = checkout
  BY DEF ProtocolInv, PutLatest
<1>2. host \in [Hosts -> HostState] /\ host[h] \in HostState
  BY <1>1, Rendering
<1>3. Puts(bucket, bucket', k, Manifest(h)) /\ Versions(k) = VersionsOf(bucket, k)
  BY <1>1, PutIsPuts
<1>4. host' = [host EXCEPT ![h] = H]
  BY <1>2 DEF PutLatest
<1>5. /\ k[1] \notin DOMAIN Trains /\ k # <<"latest", "lock">> /\ k # <<"latest", "assets">>
  BY NoLockIsCalled
<1>. HIDE DEF k
<1>6. /\ Keeps(bucket, bucket') /\ k \in DOMAIN bucket'
      /\ version \in Nat /\ version \in DOMAIN bucket'[k] /\ bucket'[k][version] = Manifest(h)
  <2>1. /\ Keeps(bucket, bucket') /\ OneMore(bucket, bucket', k, Manifest(h))
        /\ Len(VersionsOf(bucket, k)) \in Nat /\ Len(VersionsOf(bucket, k)) + 1 \in DOMAIN bucket'[k]
        /\ bucket'[k][Len(VersionsOf(bucket, k)) + 1] = Manifest(h)
    BY <1>1, <1>3, PutForm
  <2>2. k \in DOMAIN bucket'
    BY <2>1 DEF OneMore
  <2>. QED
    BY <1>3, <2>1, <2>2
<1>. HIDE DEF version
<1>7. H \in HostState
  BY <1>2, <1>6 DEF HostState, Stages
<1>8. /\ H.train = host[h].train /\ H.lock = host[h].lock /\ H.rows = host[h].rows /\ H.at = host[h].at
      /\ H.pc = "announce" /\ H.version = version
  BY <1>2 DEF HostState
<1>. HIDE DEF H
<1>9. Pins(H.version, Manifest(h), bucket')
  BY <1>6, <1>8 DEF Pins, k
<1>10. HostFits(H, bucket')
  BY <1>1, <1>6, <1>7, <1>8, <1>9, StageFits
<1>11. ManifestFits(Manifest(h), bucket)
  BY <1>1, ManifestOfHost
<1>. QED
  BY <1>1, <1>4, <1>5, <1>7, <1>10, <1>11, PreparedPut

\* It names that version as the latest assets.
LEMMA AnnounceKeeps ==
  ASSUME ProtocolInv, NEW h \in Hosts, Announce(h)
  PROVE  ProtocolInv'
<1>. DEFINE k == <<"latest", "assets">>
            v == [version |-> host[h].version, manifest |-> Manifest(h)]
<1>1. /\ host[h].pc = "announce" /\ PutVersion(k, v)
      /\ starts' = starts /\ train' = train /\ pdfs' = pdfs /\ checkout' = checkout
      /\ host' = [host EXCEPT ![h] = Idle]
  BY DEF Announce, Finished
<1>2. PrepareFits(host[h], bucket)
  BY <1>1, Rendering
<1>3. Pins(v.version, v.manifest, bucket)
  BY <1>1, <1>2 DEF PrepareFits, Manifest
<1>4. k[1] \notin DOMAIN Trains /\ k # <<"latest", "lock">> /\ k[1] # "manifest"
  BY NoLockIsCalled
<1>. HIDE DEF k, v
<1>. QED
  BY <1>1, <1>3, <1>4, IdleFits, PreparedPut

\* A command stops anywhere.
LEMMA HostStopsKeeps ==
  ASSUME ProtocolInv, NEW h \in Hosts, HostStops(h)
  PROVE  ProtocolInv'
<1>1. /\ host' = [host EXCEPT ![h] = Idle] /\ starts' \in Nat
      /\ train' = train /\ pdfs' = pdfs /\ bucket' = bucket /\ checkout' = checkout
  BY DEF ProtocolInv, HostStops, Finished
<1>. QED
  BY <1>1, IdleFits, HostOnly

\* The questions or a document are replaced.
LEMMA ReplaceSourceKeeps ==
  ASSUME ProtocolInv, ReplaceSource
  PROVE  ProtocolInv'
<1>1. /\ bucket' = bucket /\ checkout' = checkout /\ host' = host /\ starts' = starts
      /\ train \in DOMAIN Trains /\ pdfs \in [Sources -> DOMAIN Scans]
  BY DEF ReplaceSource, ProtocolInv
<1>2. train' \in DOMAIN Trains /\ pdfs' \in [Sources -> DOMAIN Scans]
  BY <1>1 DEF ReplaceSource
<1>. QED
  BY <1>1, <1>2 DEF ProtocolInv

\* The original questions have folds, as the builders always make them.
LEMMA OriginalHasFolds == Original \in DOMAIN Trains /\ FoldsOf[Original].ok
<1>. DEFINE records == Trains[Original]
            Record  == [question : Int, document : Int, pages : SUBSET Nat]
<1>1. Original \in DOMAIN Trains /\ records \in Seq(Record)
  BY ProtocolAssumption
<1>2. Cardinality(DocumentsOf(records)) >= 3 /\ OneQuestionEach(records)
  BY OriginalIsFrozen DEF OneQuestionEach
<1>3. Named(records)
  <2>1. \A i \in DOMAIN records : records[i] \in Record
    <3>. HIDE DEF records, Record
    <3>. QED
      BY <1>1, LenProperties
  <2>. QED
    BY <2>1 DEF Named
<1>4. Folds(records).ok
  <2>. HIDE DEF records, Record
  <2>. QED
    BY <1>1, <1>2, <1>3, FoldsAlwaysIsolate
<1>. QED
  BY <1>1, <1>4 DEF FoldsOf

\* The bucket after one freeze of the original questions.
LEMMA OnceUploadedFits ==
  /\ Stored(OnceUploaded) /\ LocksFit(OnceUploaded) /\ AssetsFit(OnceUploaded)
<1>. DEFINE b == OnceUploaded
            keys == {<<Original, "refs">>, <<Original, "folds">>, <<Original, "lock">>, <<Original, "summary">>,
                     <<"latest", "lock">>, <<"latest", "summary">>}
            file == [refs |-> Original, folds |-> Original, lock |-> Original, summary |-> 0]
<1>1. Original \in DOMAIN Trains /\ FoldsOf[Original].ok
  BY OriginalHasFolds
<1>2. ToSet(Uploads(Original)) = keys
  <2>1. /\ DOMAIN Uploads(Original) = 1..6
        /\ Uploads(Original)[1] = <<Original, "refs">> /\ Uploads(Original)[2] = <<Original, "folds">>
        /\ Uploads(Original)[3] = <<Original, "lock">> /\ Uploads(Original)[4] = <<Original, "summary">>
        /\ Uploads(Original)[5] = <<"latest", "lock">> /\ Uploads(Original)[6] = <<"latest", "summary">>
    BY DEF Uploads
  <2>2. 1..6 = {1, 2, 3, 4, 5, 6}
    OBVIOUS
  <2>3. ToSet(Uploads(Original)) = {Uploads(Original)[i] : i \in {1, 2, 3, 4, 5, 6}}
    BY <2>1, <2>2 DEF ToSet
  <2>. QED
    BY <2>1, <2>3
<1>3. b = [k \in keys |-> <<file[k[2]]>>]
  BY <1>2 DEF OnceUploaded
<1>4. /\ DOMAIN b = keys
      /\ \A k \in keys : b[k] = <<file[k[2]]>> /\ ToSet(b[k]) = {file[k[2]]} /\ b[k] # << >>
                         /\ b[k] \in Seq(ToSet(b[k]))
  <2>1. \A k \in keys : b[k] = <<file[k[2]]>>
    BY <1>3
  <2>2. \A x : ToSet(<<x>>) = {x} /\ <<x>> # << >> /\ <<x>> \in Seq({x})
    BY DEF ToSet
  <2>3. DOMAIN b = keys
    BY <1>3
  <2>. HIDE DEF keys, b, file
  <2>4. ASSUME NEW k \in keys
        PROVE  b[k] = <<file[k[2]]>> /\ ToSet(b[k]) = {file[k[2]]} /\ b[k] # << >> /\ b[k] \in Seq(ToSet(b[k]))
    <3>. DEFINE x == file[k[2]]
    <3>1. b[k] = <<x>>
      BY <2>1
    <3>. HIDE DEF x
    <3>2. ToSet(b[k]) = {x} /\ b[k] # << >> /\ b[k] \in Seq({x})
      BY <2>2, <3>1, Zenon
    <3>. QED
      BY <3>1, <3>2, Zenon DEF x
  <2>. QED
    BY <2>3, <2>4
<1>5. file.refs = Original /\ file.folds = Original /\ file.lock = Original
  OBVIOUS
<1>6. \A t \in DOMAIN Trains, f \in Files \ {"summary"} :
        <<t, f>> \in keys => t = Original /\ file[f] = Original
  BY <1>5, NoLockIsCalled DEF Files
<1>7. <<"latest", "assets">> \notin keys /\ \A k \in keys : k[1] # "manifest"
  BY <1>1, NoLockIsCalled
<1>8. ToSet(b[<<"latest", "lock">>]) = {Original}
  BY <1>4, <1>5
<1>9. \A f \in Files : <<Original, f>> \in keys
  BY DEF Files
<1>. HIDE DEF keys, b, file
<1>10. Stored(b)
  BY <1>4 DEF Stored
<1>11. LocksFit(b)
  <2>1. ASSUME NEW t \in DOMAIN Trains, NEW f \in Files \ {"summary"}, <<t, f>> \in DOMAIN b
        PROVE  ToSet(b[<<t, f>>]) \subseteq {t}
    <3>1. <<t, f>> \in keys /\ t = Original /\ file[f] = Original
      BY <1>4, <1>6, <2>1
    <3>2. <<t, f>>[2] = f
      OBVIOUS
    <3>3. ToSet(b[<<t, f>>]) = {file[f]}
      BY <1>4, <3>1, <3>2
    <3>. QED
      BY <3>1, <3>3
  <2>2. Published(Original, b)
    BY <1>1, <1>4, <1>9 DEF Published
  <2>3. ASSUME NEW t \in ToSet(b[<<"latest", "lock">>]) PROVE t \in DOMAIN Trains /\ Published(t, b)
    BY <1>1, <1>8, <2>2
  <2>. QED
    BY <2>1, <2>3 DEF LocksFit
<1>12. AssetsFit(b)
  BY <1>4, <1>7 DEF AssetsFit
<1>. QED
  BY <1>10, <1>11, <1>12 DEF b

\* The initial state.
LEMMA FrozenOnceFits ==
  ASSUME FrozenOnce
  PROVE  ProtocolInv
<1>1. Original \in DOMAIN Trains /\ 1 \in DOMAIN Scans
  BY ProtocolAssumption
<1>2. /\ train = Original /\ pdfs = [d \in Sources |-> 1] /\ starts = 0
      /\ checkout = [h \in Hosts |-> Committed] /\ host = [h \in Hosts |-> Idle] /\ bucket = OnceUploaded
  BY DEF FrozenOnce
<1>3. Committed \in CheckoutState /\ Committed.receipts = NoLock
  BY <1>1 DEF Committed, CheckoutState
<1>4. host \in [Hosts -> HostState] /\ checkout \in [Hosts -> CheckoutState]
  BY <1>2, <1>3, IdleFits
<1>5. \A h \in Hosts : HostFits(host[h], bucket) /\ ReceiptFits(checkout[h], bucket)
  BY <1>2, <1>3, IdleFits DEF ReceiptFits
<1>6. Stored(bucket) /\ LocksFit(bucket) /\ AssetsFit(bucket)
  BY <1>2, OnceUploadedFits
<1>7. train \in DOMAIN Trains /\ pdfs \in [Sources -> DOMAIN Scans] /\ starts \in Nat
  BY <1>1, <1>2
<1>. QED
  BY <1>4, <1>5, <1>6, <1>7 DEF ProtocolInv

\* Every step keeps the invariant.
LEMMA ProtocolStep ==
  ASSUME ProtocolInv, [ProtocolNext]_protocolVars
  PROVE  ProtocolInv'
<1>1. CASE UNCHANGED protocolVars
  <2>1. /\ train' = train /\ pdfs' = pdfs /\ bucket' = bucket /\ checkout' = checkout /\ host' = host
        /\ starts' = starts
    BY <1>1 DEF protocolVars
  <2>. QED
    BY <2>1 DEF ProtocolInv
<1>2. CASE ReplaceSource
  BY <1>2, ReplaceSourceKeeps
<1>3. ASSUME NEW h \in Hosts, BeginFreeze(h) PROVE ProtocolInv'
  BY <1>3, BeginFreezeKeeps
<1>4. ASSUME NEW h \in Hosts, WriteLocal(h) PROVE ProtocolInv'
  BY <1>4, WriteLocalKeeps
<1>5. ASSUME NEW h \in Hosts, Upload(h) PROVE ProtocolInv'
  BY <1>5, UploadKeeps
<1>6. ASSUME NEW h \in Hosts, CheckUpload(h) PROVE ProtocolInv'
  BY <1>6, CheckUploadKeeps
<1>7. ASSUME NEW h \in Hosts, BeginAssets(h) PROVE ProtocolInv'
  BY <1>7, BeginAssetsKeeps
<1>8. ASSUME NEW h \in Hosts, OpenPdf(h) PROVE ProtocolInv'
  BY <1>8, OpenPdfKeeps
<1>9. ASSUME NEW h \in Hosts, HeadObjectOf(h) PROVE ProtocolInv'
  BY <1>9, HeadObjectOfKeeps
<1>10. ASSUME NEW h \in Hosts, PutObject(h) PROVE ProtocolInv'
  BY <1>10, PutObjectKeeps
<1>11. ASSUME NEW h \in Hosts, PutManifest(h) PROVE ProtocolInv'
  BY <1>11, PutManifestKeeps
<1>12. ASSUME NEW h \in Hosts, PutLatest(h) PROVE ProtocolInv'
  BY <1>12, PutLatestKeeps
<1>13. ASSUME NEW h \in Hosts, Announce(h) PROVE ProtocolInv'
  BY <1>13, AnnounceKeeps
<1>14. ASSUME NEW h \in Hosts, HostStops(h) PROVE ProtocolInv'
  BY <1>14, HostStopsKeeps
<1>. QED
  BY <1>1, <1>2, <1>3, <1>4, <1>5, <1>6, <1>7, <1>8, <1>9, <1>10, <1>11, <1>12, <1>13, <1>14 DEF ProtocolNext

\* The invariant holds for any hosts, questions, scans and objects: whatever hosts
\* do at the same time, a manifest has a backed row for each object and each
\* document of it is of one scan (freeze_protocol, prepare_oracle_assets).
THEOREM ProtocolInvHolds == ProtocolSpec => []ProtocolInv
<1>1. FrozenOnce => ProtocolInv
  BY FrozenOnceFits
<1>2. ProtocolInv /\ [ProtocolNext]_protocolVars => ProtocolInv'
  BY ProtocolStep
<1>. QED
  BY <1>1, <1>2, PTL DEF ProtocolSpec

\* From the invariant: the latest lock is whole.
LEMMA WholeWhenFit ==
  ASSUME ProtocolInv
  PROVE  LockIsWhole
<1>1. Stored(bucket) /\ LocksFit(bucket) /\ AssetsFit(bucket)
  BY DEF ProtocolInv
<1>2. ASSUME NEW lock \in (ToSet(Versions(<<"latest", "lock">>)) \cup {checkout[h].receipts : h \in Hosts}) \ {NoLock}
      PROVE  lock \in DOMAIN Trains /\ Published(lock, bucket)
  <2>1. CASE lock \in ToSet(Versions(<<"latest", "lock">>))
    <3>1. <<"latest", "lock">> \in DOMAIN bucket
      <4>1. Versions(<<"latest", "lock">>) # << >>
        BY <2>1 DEF ToSet
      <4>. QED
        BY <4>1 DEF Versions
    <3>2. lock \in ToSet(bucket[<<"latest", "lock">>])
      BY <2>1, <3>1 DEF Versions
    <3>. QED
      BY <1>1, <3>1, <3>2 DEF LocksFit
  <2>2. CASE lock \in {checkout[h].receipts : h \in Hosts}
    <3>1. PICK h \in Hosts : lock = checkout[h].receipts
      BY <2>2
    <3>2. checkout[h] \in CheckoutState /\ ReceiptFits(checkout[h], bucket) /\ lock # NoLock
      BY <1>2 DEF ProtocolInv
    <3>3. checkout[h].receipts \in DOMAIN Trains \cup {NoLock}
      BY <3>2 DEF CheckoutState
    <3>. QED
      BY <3>1, <3>2, <3>3 DEF ReceiptFits
  <2>. QED
    BY <1>2, <2>1, <2>2
<1>3. ASSUME NEW t \in DOMAIN Trains, Published(t, bucket) PROVE FoldsFit[t]
  <2>1. Folds(Trains[t]).ok /\ FoldsOf[t] = Folds(Trains[t])
    BY <1>3 DEF Published, FoldsOf
  <2>2. Trains[t] \in Seq([question : Int, document : Int, pages : SUBSET Nat])
    BY ProtocolAssumption
  <2>3. Isolated(Folds(Trains[t]).nested, Trains[t])
    BY <2>1, <2>2, ValidFoldsAreIsolated
  <2>. QED
    BY <2>1, <2>3 DEF FoldsFit
<1>4. ASSUME NEW t \in DOMAIN Trains, Published(t, bucket), NEW file \in Files
      PROVE  /\ Versions(<<t, file>>) # << >>
             /\ file # "summary" => ToSet(Versions(<<t, file>>)) = {t}
  <2>. DEFINE k == <<t, file>>
  <2>1. k \in DOMAIN bucket /\ Versions(k) = bucket[k]
    BY <1>4 DEF Published, Versions
  <2>2. bucket[k] \in Seq(ToSet(bucket[k])) /\ bucket[k] # << >>
    BY <1>1, <2>1 DEF Stored
  <2>3. file # "summary" => ToSet(bucket[k]) \subseteq {t}
    BY <1>1, <2>1 DEF LocksFit
  <2>. HIDE DEF k
  <2>4. ToSet(bucket[k]) # {}
    <3>1. 1 \in DOMAIN bucket[k]
      BY <2>2, LenProperties, EmptySeq
    <3>. QED
      BY <3>1 DEF ToSet
  <2>. QED
    BY <2>1, <2>2, <2>3, <2>4 DEF k
<1>. QED
  BY <1>2, <1>3, <1>4 DEF LockIsWhole, Files

\* What the latest lock points to is there, complete, and its folds isolate the
\* documents (freeze_protocol uploads the pointer after the files).
THEOREM LocksAreWhole == ProtocolSpec => []LockIsWhole
<1>1. ProtocolInv => LockIsWhole
  BY WholeWhenFit
<1>. QED
  BY <1>1, ProtocolInvHolds, PTL

\* From the invariant: the latest assets are backed.
LEMMA BackedWhenFit ==
  ASSUME ProtocolInv
  PROVE  AssetsAreBacked
<1>1. Stored(bucket) /\ AssetsFit(bucket)
  BY DEF ProtocolInv
<1>2. ASSUME NEW k \in DOMAIN bucket, k[1] = "manifest", NEW m \in ToSet(bucket[k])
      PROVE  /\ [n \in DOMAIN m.rows |-> m.rows[n].key] = Work[m.train]
             /\ \A n \in DOMAIN m.rows : /\ m.rows[n].version \in DOMAIN bucket[m.rows[n].key]
                                         /\ bucket[m.rows[n].key][m.rows[n].version] = m.rows[n].digest
             /\ \A d \in DocumentsOf(Trains[m.train]) : \E s \in DOMAIN Scans :
                  \A n \in DOMAIN m.rows : m.rows[n].key[2] = d => m.rows[n].digest = Scans[s][m.rows[n].key[4]]
  <2>. DEFINE rows == m.rows
              t == m.train
  <2>1. /\ t \in DOMAIN Trains /\ rows \in Seq(AssetRow) /\ Len(rows) = Len(Work[t])
        /\ RowsFit(t, rows, bucket) /\ OneScanEach(rows)
    BY <1>1, <1>2 DEF AssetsFit, ManifestFits
  <2>. HIDE DEF rows, t
  <2>2. DOMAIN rows = 1..Len(Work[t])
    BY <2>1, LenProperties
  <2>3. Work[t] = [n \in 1..Len(Work[t]) |-> Work[t][n]]
    BY <2>1, WorkForm, Zenon
  <2>4. [n \in DOMAIN rows |-> rows[n].key] = Work[t]
    <3>1. \A n \in DOMAIN rows : rows[n].key = Work[t][n]
      BY <2>1 DEF RowsFit
    <3>2. [n \in DOMAIN rows |-> rows[n].key] = [n \in 1..Len(Work[t]) |-> Work[t][n]]
      BY <2>2, <3>1
    <3>. QED
      BY <2>3, <3>2
  <2>5. \A n \in DOMAIN rows : /\ rows[n].version \in DOMAIN bucket[rows[n].key]
                               /\ bucket[rows[n].key][rows[n].version] = rows[n].digest
    BY <2>1 DEF RowsFit, Backed
  <2>6. ASSUME NEW d PROVE \E s \in DOMAIN Scans : OfScan(rows, d, s)
    <3>1. CASE \E n \in DOMAIN rows : rows[n].key[2] = d
      BY <2>1, <3>1 DEF OneScanEach
    <3>2. CASE ~\E n \in DOMAIN rows : rows[n].key[2] = d
      <4>1. OfScan(rows, d, 1)
        BY <3>2 DEF OfScan
      <4>2. 1 \in DOMAIN Scans
        BY ProtocolAssumption
      <4>. QED
        BY <4>1, <4>2
    <3>. QED
      BY <3>1, <3>2
  <2>7. \A d \in DocumentsOf(Trains[t]) : \E s \in DOMAIN Scans :
          \A n \in DOMAIN rows : rows[n].key[2] = d => rows[n].digest = Scans[s][rows[n].key[4]]
    BY <2>6 DEF OfScan
  <2>. QED
    BY <2>4, <2>5, <2>7 DEF rows, t
<1>3. ASSUME NEW a \in ToSet(Versions(<<"latest", "assets">>))
      PROVE  Versions(<<"manifest", "latest">>)[a.version] = a.manifest
  <2>1. <<"latest", "assets">> \in DOMAIN bucket
    <3>1. Versions(<<"latest", "assets">>) # << >>
      BY DEF ToSet
    <3>. QED
      BY <3>1 DEF Versions
  <2>2. a \in ToSet(bucket[<<"latest", "assets">>])
    BY <2>1 DEF Versions
  <2>3. Pins(a.version, a.manifest, bucket)
    BY <1>1, <2>1, <2>2 DEF AssetsFit
  <2>. QED
    BY <2>3 DEF Pins, Versions
<1>. QED
  BY <1>2, <1>3 DEF AssetsAreBacked

\* Every row of the announced manifest, and of every other, names a version that
\* exists with that digest, of one scan for each document (prepare_oracle_assets).
THEOREM AssetsStayBacked == ProtocolSpec => []AssetsAreBacked
<1>1. ProtocolInv => AssetsAreBacked
  BY BackedWhenFit
<1>. QED
  BY <1>1, ProtocolInvHolds, PTL

-----------------------------------------------------------------------------
(***************************************************************************)
(* The evaluation (Evaluation)                                             *)
(***************************************************************************)

\* Products grow with their first factor.
LEMMA TimesGrows ==
  ASSUME NEW a \in Nat, NEW b \in Nat, NEW n \in Nat, a <= b
  PROVE  a * n <= b * n /\ a * n \in Nat /\ b * n \in Nat
<1>1. b * n = a * n + (b - a) * n
  OBVIOUS
<1>2. (b - a) * n \in Nat /\ a * n \in Nat
  OBVIOUS
<1>. QED
  BY <1>1, <1>2

\* Every pair of items has its place in the list of all pairs.
Listed(m, n, x, y) == \E k \in 1..(m * n) : ((k - 1) \div n) + 1 = x /\ ((k - 1) % n) + 1 = y

\* Items are listed as the code numbers them: each pair of places has a number.
LEMMA PairPlace ==
  ASSUME NEW m \in Nat, NEW n \in Nat, NEW x \in 1..m, NEW y \in 1..n
  PROVE  Listed(m, n, x, y)
<1>. DEFINE a == (x - 1) * n + (y - 1)
            k == a + 1
<1>1. (x - 1) * n \in Nat /\ a \in Nat /\ k - 1 = a /\ n > 0
  <2>1. x - 1 \in Nat /\ y - 1 \in Nat
    OBVIOUS
  <2>2. (x - 1) * n \in Nat
    BY <2>1
  <2>. QED
    BY <2>1, <2>2
<1>2. k \in 1..(m * n)
  <2>1. x * n <= m * n /\ m * n \in Nat
    BY TimesGrows
  <2>2. (x - 1) * n + n = x * n
    OBVIOUS
  <2>3. a + 1 <= (x - 1) * n + n
    BY <1>1
  <2>. QED
    BY <1>1, <2>1, <2>2, <2>3
<1>3. a \div n = x - 1 /\ a % n = y - 1
  <2>. DEFINE q == a \div n
              r == a % n
  <2>1. q \in Nat /\ r \in 0..(n - 1) /\ a = q * n + r
    BY <1>1
  <2>. HIDE DEF q, r
  <2>2. CASE q < x - 1
    <3>1. (q + 1) * n <= (x - 1) * n
      BY <2>1, <2>2, TimesGrows
    <3>2. (q + 1) * n = q * n + n /\ q * n \in Nat
      BY <2>1
    <3>. QED
      BY <1>1, <2>1, <3>1, <3>2
  <2>3. CASE q > x - 1
    <3>1. ((x - 1) + 1) * n <= q * n
      BY <2>1, <2>3, TimesGrows
    <3>2. ((x - 1) + 1) * n = (x - 1) * n + n /\ q * n \in Nat
      BY <2>1
    <3>. QED
      BY <1>1, <2>1, <3>1, <3>2
  <2>4. CASE q = x - 1
    BY <1>1, <2>1, <2>4 DEF q, r
  <2>. QED
    BY <2>1, <2>2, <2>3, <2>4
<1>4. ((k - 1) \div n) + 1 = x /\ ((k - 1) % n) + 1 = y
  <2>1. k - 1 = a
    BY <1>1
  <2>. HIDE DEF a, k
  <2>. QED
    BY <1>3, <2>1
<1>. HIDE DEF k
<1>. QED
  BY <1>2, <1>4 DEF Listed

\* A question has a reference and a prediction, of its format.
LEMMA IdsForm ==
  /\ Ids = 1..Len(References) /\ Len(References) \in Nat
  /\ \A kind \in Kinds, i \in Ids :
       /\ IsAnswer(References[i].format, References[i].answer)
       /\ IsAnswer(References[i].format, Predicted(kind)[i].answer)
<1>1. References \in Seq(ToSet(References))
  BY EvaluationAssumption
<1>2. Ids = 1..Len(References) /\ Len(References) \in Nat
  BY <1>1, LenProperties DEF Ids
<1>3. \A i \in Ids : \A answer \in {References[i].answer, First[i].answer, Second[i].answer} :
        IsAnswer(References[i].format, answer)
  BY EvaluationAssumption
<1>4. \A kind \in Kinds : Predicted(kind) = First \/ Predicted(kind) = Second
  BY DEF Predicted
<1>. QED
  BY <1>2, <1>3, <1>4

\* The pairs that the score of a question looks at.
PairsFor(kind, i) == PairsOf(References[i].format, References[i].answer, Predicted(kind)[i].answer)

\* The pairs of a question: all pairs of items, unless nothing is asked.
LEMMA PairsForm ==
  ASSUME NEW kind \in Kinds, NEW i \in Ids
  PROVE  LET gold == References[i].answer
             predicted == Predicted(kind)[i].answer IN
         /\ \E S : PairsFor(kind, i) \in Seq(S)
         /\ ~(References[i].format = "unordered_list" /\ << >> \in {gold, predicted}) =>
              \A x \in DOMAIN gold, y \in DOMAIN predicted : <<gold[x], predicted[y]>> \in ToSet(PairsFor(kind, i))
<1>. DEFINE gold == References[i].answer
            predicted == Predicted(kind)[i].answer
            format == References[i].format
            m == Len(gold)
            n == Len(predicted)
            pairs == [k \in 1..(m * n) |-> <<gold[((k - 1) \div n) + 1], predicted[((k - 1) % n) + 1]>>]
<1>1. /\ gold \in Seq(ToSet(gold)) /\ predicted \in Seq(ToSet(predicted))
  BY IdsForm DEF IsAnswer
<1>2. m \in Nat /\ n \in Nat /\ DOMAIN gold = 1..m /\ DOMAIN predicted = 1..n
  BY <1>1, LenProperties
<1>3. PairsFor(kind, i) = IF format = "unordered_list" /\ << >> \in {gold, predicted} THEN << >> ELSE pairs
  BY DEF PairsFor, PairsOf
<1>4. m * n \in Nat
  <2>1. \A a, b \in Nat : a * b \in Nat
    OBVIOUS
  <2>. HIDE DEF m, n
  <2>. QED
    BY <1>2, <2>1, Zenon
<1>. HIDE DEF gold, predicted, format, m, n
<1>5. \E S : pairs \in Seq(S)
  <2>. DEFINE S == {pairs[k] : k \in 1..(m * n)}
  <2>1. pairs \in [1..(m * n) -> S]
    OBVIOUS
  <2>. HIDE DEF pairs, S
  <2>2. pairs \in Seq(S)
    BY <1>4, <2>1, SeqDef
  <2>. QED
    BY <2>2
<1>6. \E S : << >> \in Seq(S)
  BY EmptySeq
<1>7. ASSUME NEW x \in 1..m, NEW y \in 1..n PROVE <<gold[x], predicted[y]>> \in ToSet(pairs)
  <2>1. PICK k \in 1..(m * n) : ((k - 1) \div n) + 1 = x /\ ((k - 1) % n) + 1 = y
    <3>1. Listed(m, n, x, y)
      BY <1>2, PairPlace
    <3>. QED
      BY <3>1 DEF Listed
  <2>2. pairs[k] = <<gold[((k - 1) \div n) + 1], predicted[((k - 1) % n) + 1]>>
    OBVIOUS
  <2>3. pairs[k] = <<gold[x], predicted[y]>>
    BY <2>1, <2>2
  <2>4. k \in DOMAIN pairs
    OBVIOUS
  <2>. HIDE DEF pairs
  <2>. QED
    BY <2>3, <2>4 DEF ToSet
<1>. HIDE DEF pairs
<1>8. \E S : PairsFor(kind, i) \in Seq(S)
  BY <1>3, <1>5, <1>6
<1>9. ~(format = "unordered_list" /\ << >> \in {gold, predicted}) =>
        \A x \in DOMAIN gold, y \in DOMAIN predicted : <<gold[x], predicted[y]>> \in ToSet(PairsFor(kind, i))
  BY <1>2, <1>3, <1>7
<1>. QED
  BY <1>8, <1>9 DEF gold, predicted, format

\* A sequence is one of its own items.
LEMMA OwnSeq ==
  ASSUME NEW S, NEW s \in Seq(S)
  PROVE  s \in Seq(ToSet(s))
<1>1. s \in [1..Len(s) -> S] /\ Len(s) \in Nat
  BY LenProperties
<1>2. s \in [1..Len(s) -> ToSet(s)]
  BY <1>1 DEF ToSet
<1>. QED
  BY <1>1, <1>2, SeqDef

\* What a run asks: first the controls, then every pair of every question.
LEMMA AskedForm ==
  ASSUME NEW kind \in Kinds
  PROVE  /\ Len(Probes) \in Nat /\ 1 <= Len(Probes) /\ DOMAIN Probes = 1..Len(Probes)
         /\ Len(Asked(kind)) \in Nat /\ Len(Probes) <= Len(Asked(kind))
         /\ DOMAIN Asked(kind) = 1..Len(Asked(kind))
         /\ \A n \in 1..Len(Probes) : Asked(kind)[n] = Probes[n].pair
         /\ \A i \in Ids : ToSet(PairsFor(kind, i)) \subseteq ToSet(Asked(kind))
         /\ ToSet(Asked(kind)) \subseteq Pairs
<1>. DEFINE S == UNION {ToSet(PairsFor(kind, i)) : i \in Ids}
            seqs == [i \in Ids |-> PairsFor(kind, i)]
            probes == [n \in DOMAIN Probes |-> Probes[n].pair]
            questions == QuestionPairs(kind)
            T == ToSet(probes) \cup S
<1>1. Len(Probes) \in Nat /\ 1 <= Len(Probes) /\ DOMAIN Probes = 1..Len(Probes)
  <2>1. Probes \in Seq(ToSet(Probes)) /\ Probes # << >>
    BY EvaluationAssumption
  <2>2. Len(Probes) \in Nat /\ Len(Probes) # 0 /\ DOMAIN Probes = 1..Len(Probes)
    BY <2>1, LenProperties, EmptySeq
  <2>. QED
    BY <2>2
<1>2. seqs \in Seq(Seq(S))
  <2>1. ASSUME NEW i \in Ids PROVE PairsFor(kind, i) \in Seq(S)
    <3>1. PICK U : PairsFor(kind, i) \in Seq(U)
      BY PairsForm
    <3>2. PairsFor(kind, i) \in Seq(ToSet(PairsFor(kind, i)))
      BY <3>1, OwnSeq
    <3>3. ToSet(PairsFor(kind, i)) \subseteq S
      OBVIOUS
    <3>. HIDE DEF S
    <3>. QED
      BY <3>2, <3>3, SeqMonotonic
  <2>2. Ids = 1..Len(References) /\ Len(References) \in Nat
    BY IdsForm
  <2>. HIDE DEF S
  <2>3. seqs \in [1..Len(References) -> Seq(S)]
    BY <2>1, <2>2
  <2>. HIDE DEF seqs
  <2>. QED
    BY <2>2, <2>3, SeqDef
<1>3. questions = FlattenSeq(seqs) /\ DOMAIN seqs = Ids /\ \A i \in Ids : seqs[i] = PairsFor(kind, i)
  BY DEF QuestionPairs, PairsFor
<1>. HIDE DEF S, seqs
<1>4. /\ questions \in Seq(S)
      /\ \A i \in Ids : ToSet(PairsFor(kind, i)) \subseteq ToSet(questions)
  <2>1. /\ FlattenSeq(seqs) \in Seq(S)
        /\ ToSet(FlattenSeq(seqs)) = UNION {ToSet(seqs[i]) : i \in DOMAIN seqs}
    BY <1>2, FlattenForm
  <2>. HIDE DEF questions
  <2>. QED
    BY <1>3, <2>1
<1>5. probes \in Seq(ToSet(probes)) /\ Len(probes) = Len(Probes) /\ \A n \in 1..Len(Probes) : probes[n] = Probes[n].pair
  <2>1. DOMAIN probes = 1..Len(Probes) /\ \A n \in 1..Len(Probes) : probes[n] = Probes[n].pair
    BY <1>1
  <2>2. probes \in [1..Len(Probes) -> ToSet(probes)]
    BY <2>1 DEF ToSet
  <2>. HIDE DEF probes
  <2>3. probes \in Seq(ToSet(probes))
    BY <1>1, <2>2, SeqDef
  <2>4. Len(probes) = Len(Probes)
    BY <1>1, <2>1, <2>3, LenProperties
  <2>. QED
    BY <2>1, <2>3, <2>4
<1>6. Asked(kind) = probes \o questions
  BY DEF Asked
<1>. HIDE DEF probes, questions
<1>7. probes \in Seq(T) /\ questions \in Seq(T)
  BY <1>4, <1>5, SeqMonotonic
<1>. HIDE DEF T
<1>8. /\ Asked(kind) \in Seq(T) /\ Len(Asked(kind)) = Len(probes) + Len(questions)
      /\ \A n \in 1..(Len(probes) + Len(questions)) : Asked(kind)[n] = IF n <= Len(probes) THEN probes[n] ELSE questions[n - Len(probes)]
      /\ ToSet(Asked(kind)) = ToSet(probes) \cup ToSet(questions)
  BY <1>6, <1>7, ConcatProperties, SetOfConcat
<1>9. Len(questions) \in Nat
  BY <1>7, LenProperties
<1>10. Len(Asked(kind)) \in Nat /\ DOMAIN Asked(kind) = 1..Len(Asked(kind)) /\ Len(Probes) <= Len(Asked(kind))
  BY <1>1, <1>5, <1>8, <1>9, LenProperties
<1>11. \A n \in 1..Len(Probes) : Asked(kind)[n] = Probes[n].pair
  BY <1>1, <1>5, <1>8, <1>9
<1>12. ToSet(Asked(kind)) \subseteq Pairs
  BY DEF Pairs
<1>. QED
  BY <1>1, <1>4, <1>8, <1>10, <1>11, <1>12

\* The score of an answer depends on what was said of the pairs of its items.
LEMMA ScoresAgree ==
  ASSUME NEW kind \in Kinds, NEW i \in Ids, NEW said, NEW told,
         \A p \in ToSet(PairsFor(kind, i)) : said[p] = told[p]
  PROVE  Row(kind, i, said) = Row(kind, i, told)
<1>. DEFINE gold == References[i].answer
            predicted == Predicted(kind)[i].answer
            format == References[i].format
            none == format = "unordered_list" /\ << >> \in {gold, predicted}
<1>1. /\ gold \in Seq(ToSet(gold)) /\ predicted \in Seq(ToSet(predicted))
      /\ format \notin {"unordered_list", "ordered_list"} => Len(gold) = 1 /\ Len(predicted) = 1
  BY IdsForm DEF IsAnswer
<1>2. ~none => \A x \in DOMAIN gold, y \in DOMAIN predicted : said[<<gold[x], predicted[y]>>] = told[<<gold[x], predicted[y]>>]
  <2>1. ~none => \A x \in DOMAIN gold, y \in DOMAIN predicted : <<gold[x], predicted[y]>> \in ToSet(PairsFor(kind, i))
    BY PairsForm
  <2>. HIDE DEF gold, predicted, none
  <2>. QED
    BY <2>1
<1>. HIDE DEF gold, predicted, format
<1>3. ~none => Matrix(gold, predicted, said) = Matrix(gold, predicted, told)
  BY <1>2 DEF Matrix
<1>4. AnswerScore(format, gold, predicted, said) = AnswerScore(format, gold, predicted, told)
  <2>1. CASE format = "unordered_list"
    <3>1. UnorderedScore(gold, predicted, said) = UnorderedScore(gold, predicted, told)
      BY <1>3, <2>1 DEF UnorderedScore
    <3>. QED
      BY <2>1, <3>1 DEF AnswerScore
  <2>2. CASE format = "ordered_list"
    <3>1. OrderedScore(gold, predicted, said) = OrderedScore(gold, predicted, told)
      BY <1>3, <2>2 DEF OrderedScore
    <3>. QED
      BY <2>2, <3>1 DEF AnswerScore
  <2>3. CASE format \notin {"unordered_list", "ordered_list"}
    <3>1. 1 \in DOMAIN gold /\ 1 \in DOMAIN predicted
      BY <1>1, <2>3, LenProperties
    <3>2. said[<<gold[1], predicted[1]>>] = told[<<gold[1], predicted[1]>>]
      BY <1>2, <2>3, <3>1
    <3>. QED
      BY <2>3, <3>2 DEF AnswerScore
  <2>. QED
    BY <2>1, <2>2, <2>3
<1>. QED
  BY <1>4 DEF Row, gold, predicted, format

\* So do the scores of all: they depend on what a run asked about.
LEMMA RowsAgree ==
  ASSUME NEW kind \in Kinds, NEW said, NEW told,
         \A p \in ToSet(Asked(kind)) : said[p] = told[p]
  PROVE  Rows(kind, said) = Rows(kind, told)
<1>1. ASSUME NEW i \in Ids PROVE Row(kind, i, said) = Row(kind, i, told)
  <2>1. ToSet(PairsFor(kind, i)) \subseteq ToSet(Asked(kind))
    BY AskedForm
  <2>. QED
    BY <2>1, ScoresAgree
<1>. QED
  BY <1>1 DEF Rows

\* What a judge can say, and what it is when it says neither.
Words == {"YES", "NO", "none"}

\* What the recorded decisions say.
Verdicts(d) == [p \in Pairs |-> IF d[p] = None THEN "none" ELSE Says(d[p])]

\* What is recorded can be parsed.
DecisionsFit(d) == /\ d \in [Pairs -> Raws \cup {None}]
                   /\ \A p \in Pairs : d[p] # None => Says(d[p]) # "none"

\* Every pair that a run of the kind asks about is decided.
Settled(d, kind) == \A p \in ToSet(Asked(kind)) : d[p] # None

\* The controls are decided as expected.
Controlled(d) == \A n \in DOMAIN Probes : /\ d[Probes[n].pair] # None
                                          /\ Says(d[Probes[n].pair]) = Probes[n].expected

\* What the first summary has to be.
FirstSummary(d) == [kind |-> "first", rows |-> Rows("first", Verdicts(d))]

\* The summaries are what the decisions say, from a run that passed its controls.
ResultsFit(d, a, S, r) ==
  /\ S \subseteq {FirstSummary(d)}
  /\ S # {} => Settled(d, "first")
  /\ r # None => /\ r.rows = Rows("second", Verdicts(d)) /\ Settled(d, "second")
                 /\ r.first \in S /\ r.named = r.first
  /\ S # {} \/ r # None => Passed \in a /\ Controlled(d)

\* What the files may be.
FilesOf(S, r) == [summary : {Old} \cup S, sha : {Old} \cup S,
                  refinement : {Old, None, r}, refinementSha : {Old, None, r}]

\* The memory of a run.
RunState(S, r) == [kind : Kinds, at : Nat, raw : Raws \cup {None}, said : Seq(Words),
                   base : {None} \cup S, summary : {None, r} \cup S]

\* What a run heard of a pair was decided, and what it heard after the controls was something.
Heard(m, d) ==
  /\ m.at = Len(m.said) + 1 /\ m.at <= Len(Asked(m.kind)) + 1
  /\ \A n \in DOMAIN m.said : /\ m.said[n] # "none" => /\ d[Asked(m.kind)[n]] # None
                                                      /\ Says(d[Asked(m.kind)[n]]) = m.said[n]
                              /\ n > Len(Probes) => m.said[n] # "none"

\* A run that went beyond its controls heard what it expected, and recorded it.
Accepted(m, a) == /\ Passed \in a
                  /\ \A n \in DOMAIN Probes : n \in DOMAIN m.said /\ m.said[n] = Probes[n].expected

\* Where in its list a run stands, at each stage.
Placed(m, l) == /\ l \in {"ask", "infer", "put"} => m.at <= Len(Asked(m.kind))
                /\ l = "report" => m.at = Len(Probes) + 1
                /\ l \in {"save", "file", "sha"} => m.at = Len(Asked(m.kind)) + 1

\* What a run has in memory fits what is recorded.
RunFits(m, l, d, a, S, r, f) ==
  /\ Heard(m, d)
  /\ l \in Active => /\ Placed(m, l)
                     /\ l # "report" /\ m.at > Len(Probes) => Accepted(m, a)
                     /\ m.kind = "second" => m.base \in S /\ f.summary = m.base
  /\ l = "put" => m.raw \in Raws /\ Says(m.raw) # "none"
  /\ l \in {"file", "sha"} => IF m.kind = "first" THEN m.summary \in S ELSE m.summary \in {None, r}

\* The inductive invariant of the evaluation: whoever asks, what a run heard is
\* what is recorded, and a decision once recorded stays (DurableSemanticJudge,
\* evaluate_system, evaluate_refinement).
EvaluationInv ==
  /\ DecisionsFit(decisions) /\ ResultsFit(decisions, acceptance, summaries, refinement)
  /\ files \in FilesOf(summaries, refinement)
  /\ pc \in [Evaluators -> Ended \cup Active] /\ mem \in [Evaluators -> RunState(summaries, refinement)]
  /\ \A e \in Evaluators : RunFits(mem[e], pc[e], decisions, acceptance, summaries, refinement, files)

\* A decision, once there, stays.
Grows(d, c) == \A p \in Pairs : d[p] # None => c[p] = d[p]

\* A run is not disturbed by decisions that others record.
LEMMA RunPersists ==
  ASSUME NEW m, NEW l, NEW d, NEW a, NEW S, NEW r, NEW f, NEW d2, NEW a2, NEW S2, NEW r2, NEW f2,
         m \in RunState(S, r), RunFits(m, l, d, a, S, r, f), Grows(d, d2), a \subseteq a2, S \subseteq S2,
         r \in {None, r2}, \A x, y \in S2 : x = y, f2.summary \in {f.summary} \cup S2
  PROVE  m \in RunState(S2, r2) /\ RunFits(m, l, d2, a2, S2, r2, f2)
<1>1. m \in RunState(S2, r2) /\ m.kind \in Kinds /\ m.said \in Seq(Words) /\ m.at \in Nat
  BY DEF RunState
<1>2. Heard(m, d2)
  <2>1. ASSUME NEW n \in DOMAIN m.said PROVE Asked(m.kind)[n] \in Pairs
    <3>1. /\ Len(Asked(m.kind)) \in Nat /\ DOMAIN Asked(m.kind) = 1..Len(Asked(m.kind))
          /\ ToSet(Asked(m.kind)) \subseteq Pairs
      BY <1>1, AskedForm
    <3>2. m.at = Len(m.said) + 1 /\ m.at <= Len(Asked(m.kind)) + 1
      BY DEF RunFits, Heard
    <3>3. n \in 1..Len(m.said) /\ Len(m.said) \in Nat
      BY <1>1, LenProperties
    <3>4. n \in DOMAIN Asked(m.kind)
      BY <3>1, <3>2, <3>3
    <3>. QED
      BY <3>1, <3>4 DEF ToSet
  <2>. QED
    BY <2>1 DEF RunFits, Heard, Grows
<1>3. Accepted(m, a) => Accepted(m, a2)
  BY DEF Accepted
<1>4. l \in Active /\ m.kind = "second" => m.base \in S2 /\ f2.summary = m.base
  BY DEF RunFits
<1>. QED
  BY <1>1, <1>2, <1>3, <1>4 DEF RunFits

\* Nor are the scores of a run that has heard everything.
LEMMA RowsPersist ==
  ASSUME NEW kind \in Kinds, NEW d, NEW d2, Grows(d, d2), Settled(d, kind)
  PROVE  Rows(kind, Verdicts(d2)) = Rows(kind, Verdicts(d)) /\ Settled(d2, kind)
<1>1. ToSet(Asked(kind)) \subseteq Pairs
  BY AskedForm
<1>2. \A p \in ToSet(Asked(kind)) : d[p] # None /\ d2[p] = d[p]
  BY <1>1 DEF Settled, Grows
<1>3. \A p \in ToSet(Asked(kind)) : Verdicts(d2)[p] = Verdicts(d)[p]
  BY <1>1, <1>2 DEF Verdicts
<1>4. Settled(d2, kind)
  BY <1>2 DEF Settled
<1>. QED
  BY <1>3, <1>4, RowsAgree

\* The controls are among the pairs.
LEMMA ProbesArePairs == \A n \in DOMAIN Probes : Probes[n].pair \in Pairs
<1>1. "first" \in Kinds
  BY DEF Kinds
<1>2. /\ DOMAIN Probes = 1..Len(Probes) /\ Len(Probes) \in Nat
      /\ Len(Asked("first")) \in Nat /\ Len(Probes) <= Len(Asked("first"))
      /\ DOMAIN Asked("first") = 1..Len(Asked("first"))
      /\ \A n \in 1..Len(Probes) : Asked("first")[n] = Probes[n].pair
      /\ ToSet(Asked("first")) \subseteq Pairs
  BY <1>1, AskedForm
<1>3. \A n \in 1..Len(Probes) : n \in DOMAIN Asked("first")
  BY <1>2
<1>4. \A n \in 1..Len(Probes) : Asked("first")[n] \in Pairs
  BY <1>2, <1>3 DEF ToSet
<1>. QED
  BY <1>2, <1>4

\* Nor are the summaries.
LEMMA ResultsPersist ==
  ASSUME NEW d, NEW d2, NEW a, NEW a2, NEW S, NEW r, ResultsFit(d, a, S, r), Grows(d, d2), a \subseteq a2
  PROVE  ResultsFit(d2, a2, S, r)
<1>1. S # {} => FirstSummary(d2) = FirstSummary(d) /\ Settled(d2, "first")
  BY RowsPersist DEF ResultsFit, FirstSummary, Kinds
<1>2. r # None => Rows("second", Verdicts(d2)) = Rows("second", Verdicts(d)) /\ Settled(d2, "second")
  BY RowsPersist DEF ResultsFit, Kinds
<1>3. Controlled(d) => Controlled(d2)
  BY ProbesArePairs DEF Controlled, Grows
<1>4. S \subseteq {FirstSummary(d2)}
  BY <1>1 DEF ResultsFit
<1>. QED
  BY <1>1, <1>2, <1>3, <1>4 DEF ResultsFit

\* A step of one run, with what it has to see to.
LEMMA RunMoves ==
  ASSUME EvaluationInv, NEW e \in Evaluators, NEW m, NEW l \in Ended \cup Active,
         mem' = [mem EXCEPT ![e] = m], pc' = [pc EXCEPT ![e] = l],
         DecisionsFit(decisions'), ResultsFit(decisions', acceptance', summaries', refinement'),
         files' \in FilesOf(summaries', refinement'), m \in RunState(summaries', refinement'),
         RunFits(m, l, decisions', acceptance', summaries', refinement', files'),
         Grows(decisions, decisions'), acceptance \subseteq acceptance', summaries \subseteq summaries',
         refinement \in {None, refinement'}, files'.summary \in {files.summary} \cup summaries'
  PROVE  EvaluationInv'
<1>1. \A x, y \in summaries' : x = y
  BY DEF ResultsFit
<1>2. ASSUME NEW g \in Evaluators
      PROVE  /\ mem[g] \in RunState(summaries', refinement')
             /\ RunFits(mem[g], pc[g], decisions', acceptance', summaries', refinement', files')
  <2>1. /\ mem[g] \in RunState(summaries, refinement)
        /\ RunFits(mem[g], pc[g], decisions, acceptance, summaries, refinement, files)
    BY DEF EvaluationInv
  <2>. QED
    BY <1>1, <2>1, RunPersists
<1>3. /\ pc \in [Evaluators -> Ended \cup Active] /\ mem \in [Evaluators -> RunState(summaries, refinement)]
  BY DEF EvaluationInv
<1>4. /\ pc' \in [Evaluators -> Ended \cup Active]
      /\ \A g \in Evaluators : mem'[g] = (IF g = e THEN m ELSE mem[g]) /\ pc'[g] = IF g = e THEN l ELSE pc[g]
      /\ mem' = [g \in Evaluators |-> mem'[g]]
  BY <1>3
<1>5. mem' \in [Evaluators -> RunState(summaries', refinement')]
  BY <1>2, <1>4
<1>6. \A g \in Evaluators : RunFits(mem'[g], pc'[g], decisions', acceptance', summaries', refinement', files')
  BY <1>2, <1>4
<1>. QED
  BY <1>4, <1>5, <1>6 DEF EvaluationInv

\* Nothing but the run itself moves.
LEMMA RunOnly ==
  ASSUME EvaluationInv, NEW e \in Evaluators, NEW m, NEW l \in Ended \cup Active,
         mem' = [mem EXCEPT ![e] = m], pc' = [pc EXCEPT ![e] = l],
         decisions' = decisions, acceptance' = acceptance, summaries' = summaries, refinement' = refinement,
         files' = files, m \in RunState(summaries, refinement),
         RunFits(m, l, decisions, acceptance, summaries, refinement, files)
  PROVE  EvaluationInv'
<1>1. /\ DecisionsFit(decisions) /\ ResultsFit(decisions, acceptance, summaries, refinement)
      /\ files \in FilesOf(summaries, refinement)
  BY DEF EvaluationInv
<1>2. Grows(decisions, decisions)
  BY DEF Grows
<1>. QED
  BY <1>1, <1>2, RunMoves

\* A run that has ended is nowhere.
LEMMA NothingFits ==
  ASSUME NEW l \in Ended, NEW d, NEW a, NEW S, NEW r, NEW f
  PROVE  Nothing \in RunState(S, r) /\ RunFits(Nothing, l, d, a, S, r, f)
<1>1. << >> \in Seq(Words) /\ Len(<< >>) = 0 /\ DOMAIN << >> = {}
  BY EmptySeq
<1>2. /\ Nothing.kind = "first" /\ Nothing.at = 1 /\ Nothing.said = << >>
      /\ Nothing = [kind |-> "first", at |-> 1, raw |-> None, said |-> << >>, base |-> None, summary |-> None]
  BY DEF Nothing
<1>3. Nothing \in RunState(S, r)
  BY <1>1, <1>2 DEF RunState, Kinds
<1>4. Len(Asked("first")) \in Nat
  BY AskedForm DEF Kinds
<1>5. Heard(Nothing, d)
  BY <1>1, <1>2, <1>4 DEF Heard
<1>6. l \notin Active /\ l # "put" /\ l \notin {"file", "sha"}
  BY DEF Ended, Active
<1>. QED
  BY <1>3, <1>5, <1>6 DEF RunFits

\* Where a run stands that asks.
LEMMA Asking ==
  ASSUME EvaluationInv, NEW e \in Evaluators, pc[e] \in {"ask", "infer", "put"}
  PROVE  /\ mem[e] \in RunState(summaries, refinement) /\ mem[e].kind \in Kinds
         /\ mem \in [Evaluators -> RunState(summaries, refinement)] /\ pc \in [Evaluators -> Ended \cup Active]
         /\ RunFits(mem[e], pc[e], decisions, acceptance, summaries, refinement, files)
         /\ mem[e].at \in 1..Len(asked(e)) /\ asked(e) = Asked(mem[e].kind) /\ pair(e) = Asked(mem[e].kind)[mem[e].at]
         /\ mem[e].said \in Seq(Words) /\ Len(mem[e].said) + 1 = mem[e].at /\ Len(mem[e].said) \in Nat
         /\ pair(e) \in Pairs /\ pair(e) \in ToSet(Asked(mem[e].kind))
<1>1. /\ mem[e] \in RunState(summaries, refinement)
      /\ mem \in [Evaluators -> RunState(summaries, refinement)] /\ pc \in [Evaluators -> Ended \cup Active]
      /\ RunFits(mem[e], pc[e], decisions, acceptance, summaries, refinement, files)
  BY DEF EvaluationInv
<1>2. mem[e].kind \in Kinds /\ mem[e].said \in Seq(Words) /\ mem[e].at \in Nat
  BY <1>1 DEF RunState
<1>3. /\ Len(mem[e].said) + 1 = mem[e].at /\ mem[e].at <= Len(Asked(mem[e].kind))
  BY <1>1 DEF RunFits, Heard, Placed, Active
<1>4. /\ Len(Asked(mem[e].kind)) \in Nat /\ DOMAIN Asked(mem[e].kind) = 1..Len(Asked(mem[e].kind))
      /\ ToSet(Asked(mem[e].kind)) \subseteq Pairs
  BY <1>2, AskedForm
<1>5. Len(mem[e].said) \in Nat
  BY <1>2, LenProperties
<1>6. mem[e].at \in 1..Len(Asked(mem[e].kind))
  BY <1>2, <1>3, <1>4, <1>5
<1>7. asked(e) = Asked(mem[e].kind) /\ pair(e) = Asked(mem[e].kind)[mem[e].at]
  BY DEF asked, pair
<1>8. pair(e) \in ToSet(Asked(mem[e].kind))
  BY <1>4, <1>6, <1>7 DEF ToSet
<1>. QED
  BY <1>1, <1>2, <1>3, <1>4, <1>5, <1>6, <1>7, <1>8

\* One answer more; decisions may have grown by it.
LEMMA HearFits ==
  ASSUME EvaluationInv, NEW e \in Evaluators, pc[e] \in {"ask", "infer", "put"},
         NEW d, Grows(decisions, d), NEW said \in Words,
         said # "none" => d[pair(e)] # None /\ Says(d[pair(e)]) = said,
         mem[e].at > Len(Probes) => said # "none",
         Hear(e, said)
  PROVE  \E m \in RunState(summaries, refinement), l \in Ended \cup Active :
           /\ mem' = [mem EXCEPT ![e] = m] /\ pc' = [pc EXCEPT ![e] = l]
           /\ RunFits(m, l, d, acceptance, summaries, refinement, files)
<1>. DEFINE m0 == mem[e]
            kind == mem[e].kind
            n == mem[e].at
            more == Append(mem[e].said, said)
            m == [mem[e] EXCEPT !.said = more, !.at = n + 1, !.raw = None]
            l == IF n = Len(Probes) THEN "report" ELSE IF n = Len(asked(e)) THEN "save" ELSE "ask"
<1>1. /\ mem[e] \in RunState(summaries, refinement) /\ kind \in Kinds
      /\ mem \in [Evaluators -> RunState(summaries, refinement)] /\ pc \in [Evaluators -> Ended \cup Active]
      /\ RunFits(mem[e], pc[e], decisions, acceptance, summaries, refinement, files)
      /\ n \in 1..Len(Asked(kind)) /\ asked(e) = Asked(kind) /\ pair(e) = Asked(kind)[n]
      /\ mem[e].said \in Seq(Words) /\ Len(mem[e].said) + 1 = n /\ Len(mem[e].said) \in Nat
  BY Asking
<1>2. /\ Len(Probes) \in Nat /\ 1 <= Len(Probes) /\ DOMAIN Probes = 1..Len(Probes)
      /\ Len(Asked(kind)) \in Nat /\ Len(Probes) <= Len(Asked(kind)) /\ DOMAIN Asked(kind) = 1..Len(Asked(kind))
      /\ ToSet(Asked(kind)) \subseteq Pairs
  BY <1>1, AskedForm
<1>3. mem' = [mem EXCEPT ![e] = m]
  BY <1>1 DEF Hear
<1>4. pc' = [pc EXCEPT ![e] = l]
  BY DEF Hear, Goto
<1>5. n \in Nat /\ n + 1 \in Nat
  BY <1>1, <1>2
<1>6. /\ more \in Seq(Words) /\ Len(more) = n /\ DOMAIN more = 1..n
      /\ \A i \in 1..(n - 1) : more[i] = mem[e].said[i]
      /\ more[n] = said
  <2>1. /\ more \in Seq(Words) /\ Len(more) = Len(mem[e].said) + 1 /\ DOMAIN more = 1..(Len(mem[e].said) + 1)
        /\ \A i \in 1..Len(mem[e].said) : more[i] = mem[e].said[i]
        /\ more[Len(mem[e].said) + 1] = said
    BY <1>1, SetOfAppend
  <2>2. Len(mem[e].said) = n - 1
    BY <1>1
  <2>. HIDE DEF more
  <2>. QED
    BY <1>1, <2>1, <2>2
<1>7. DOMAIN mem[e].said = 1..(n - 1)
  BY <1>1, LenProperties
<1>. HIDE DEF more
<1>8. m \in RunState(summaries, refinement)
  <2>1. \A i \in Nat : [mem[e] EXCEPT !.said = more, !.at = i, !.raw = None] \in RunState(summaries, refinement)
    BY <1>1, <1>6 DEF RunState
  <2>. QED
    BY <1>5, <2>1
<1>9. m.said = more /\ m.at = n + 1 /\ m.kind = kind /\ m.base = mem[e].base
  BY <1>1 DEF RunState
<1>10. /\ l \in {"report", "save", "ask"} /\ l \in Ended \cup Active
       /\ l = "report" => n = Len(Probes)
       /\ l = "save" => n = Len(Asked(kind))
       /\ l = "ask" => n < Len(Asked(kind))
       /\ l # "report" => n # Len(Probes)
  <2>1. CASE n = Len(Probes)
    BY <2>1 DEF Active
  <2>2. CASE n # Len(Probes) /\ n = Len(Asked(kind))
    BY <1>1, <2>2 DEF Active
  <2>3. CASE n # Len(Probes) /\ n # Len(Asked(kind))
    <3>1. l = "ask" /\ n < Len(Asked(kind))
      BY <1>1, <1>2, <2>3
    <3>. HIDE DEF l
    <3>. QED
      BY <2>3, <3>1 DEF Active
  <2>. QED
    BY <2>1, <2>2, <2>3
<1>. HIDE DEF m, l
<1>11. Heard(m, d)
  <2>1. m.at = Len(m.said) + 1 /\ m.at <= Len(Asked(m.kind)) + 1
    BY <1>1, <1>2, <1>6, <1>9
  <2>2. ASSUME NEW i \in 1..n
        PROVE  /\ more[i] # "none" => d[Asked(kind)[i]] # None /\ Says(d[Asked(kind)[i]]) = more[i]
               /\ i > Len(Probes) => more[i] # "none"
    <3>1. CASE i = n
      BY <1>1, <1>6, <3>1
    <3>2. CASE i # n
      <4>1. i \in 1..(n - 1) /\ more[i] = mem[e].said[i] /\ i \in DOMAIN mem[e].said
        <5>1. i \in 1..(n - 1)
          BY <1>5, <3>2
        <5>. QED
          BY <1>6, <1>7, <5>1
      <4>2. Asked(kind)[i] \in Pairs
        <5>1. i \in DOMAIN Asked(kind)
          BY <1>1, <1>2
        <5>. QED
          BY <1>2, <5>1 DEF ToSet
      <4>3. /\ mem[e].said[i] # "none" => /\ decisions[Asked(kind)[i]] # None
                                          /\ Says(decisions[Asked(kind)[i]]) = mem[e].said[i]
            /\ i > Len(Probes) => mem[e].said[i] # "none"
        BY <1>1, <4>1 DEF RunFits, Heard
      <4>. QED
        BY <4>1, <4>2, <4>3 DEF Grows
    <3>. QED
      BY <3>1, <3>2
  <2>. QED
    BY <1>6, <1>9, <2>1, <2>2 DEF Heard
<1>12. Placed(m, l)
  BY <1>2, <1>5, <1>9, <1>10 DEF Placed
<1>13. l # "report" /\ m.at > Len(Probes) => Accepted(m, acceptance)
  <2>1. ASSUME l # "report", n + 1 > Len(Probes) PROVE Accepted(m, acceptance)
    <3>1. n > Len(Probes)
      BY <1>2, <1>5, <1>10, <2>1
    <3>2. pc[e] \in Active /\ pc[e] # "report"
      BY DEF Active
    <3>3. Accepted(mem[e], acceptance)
      BY <1>1, <3>1, <3>2 DEF RunFits
    <3>4. \A i \in DOMAIN Probes : i \in 1..(n - 1) /\ i \in 1..n
      BY <1>2, <1>5, <3>1
    <3>. QED
      BY <1>6, <1>9, <3>3, <3>4 DEF Accepted
  <2>. QED
    BY <1>9, <2>1
<1>14. m.kind = "second" => m.base \in summaries /\ files.summary = m.base
  <2>1. pc[e] \in Active
    BY DEF Active
  <2>. QED
    BY <1>1, <1>9, <2>1 DEF RunFits
<1>15. RunFits(m, l, d, acceptance, summaries, refinement, files)
  BY <1>10, <1>11, <1>12, <1>13, <1>14 DEF RunFits
<1>. QED
  BY <1>3, <1>4, <1>8, <1>10, <1>15

\* An answer is yes, no or neither.
LEMMA SaysAWord == \A raw : Says(raw) \in Words
BY DEF Says, Words

\* A run starts; the second one with the first summary.
LEMMA StartKeeps ==
  ASSUME EvaluationInv, NEW e \in Evaluators, NEW kind \in Kinds, Start(e, kind)
  PROVE  EvaluationInv'
<1>. DEFINE base == IF kind = "first" THEN None ELSE Loaded
            m == [Nothing EXCEPT !.kind = kind, !.base = base]
<1>1. /\ decisions' = decisions /\ acceptance' = acceptance /\ summaries' = summaries
      /\ refinement' = refinement /\ files' = files
      /\ mem' = [mem EXCEPT ![e] = m] /\ pc' = [pc EXCEPT ![e] = "ask"]
      /\ kind = "second" => Loaded # None
  BY DEF Start, durable, Goto
<1>2. Loaded # None => Loaded \in summaries /\ files.summary = Loaded
  <2>1. files.summary \in {Old} \cup summaries
    BY DEF EvaluationInv, FilesOf
  <2>2. Loaded # None => Loaded = files.summary /\ files.summary.kind = "first"
    BY DEF Loaded
  <2>3. Old.kind # "first"
    BY DEF Old
  <2>. QED
    BY <2>1, <2>2, <2>3
<1>3. kind = "first" \/ kind = "second"
  BY DEF Kinds
<1>4. base \in {None} \cup summaries /\ (kind = "second" => base \in summaries /\ files.summary = base)
  BY <1>1, <1>2, <1>3
<1>. HIDE DEF base
<1>5. m \in RunState(summaries, refinement)
  <2>1. "idle" \in Ended
    BY DEF Ended
  <2>2. Nothing \in RunState(summaries, refinement)
    BY <2>1, NothingFits
  <2>. QED
    BY <1>4, <2>2 DEF RunState
<1>6. m.kind = kind /\ m.at = 1 /\ m.said = << >> /\ m.base = base
  BY DEF Nothing
<1>. HIDE DEF m
<1>7. RunFits(m, "ask", decisions, acceptance, summaries, refinement, files)
  <2>1. Len(m.said) = 0 /\ DOMAIN m.said = {}
    BY <1>6
  <2>2. Len(Asked(kind)) \in Nat /\ Len(Probes) \in Nat /\ 1 <= Len(Probes) /\ Len(Probes) <= Len(Asked(kind))
    BY AskedForm
  <2>3. Heard(m, decisions)
    BY <1>6, <2>1, <2>2 DEF Heard
  <2>4. Placed(m, "ask")
    BY <1>6, <2>2 DEF Placed
  <2>5. ~(m.at > Len(Probes))
    BY <1>6, <2>2
  <2>. QED
    BY <1>4, <1>6, <2>3, <2>4, <2>5 DEF RunFits
<1>8. "ask" \in Ended \cup Active
  BY DEF Active
<1>. QED
  BY <1>1, <1>5, <1>7, <1>8, RunOnly

\* A run that goes to another stage at the same place.
LEMMA GotoFits ==
  ASSUME EvaluationInv, NEW e \in Evaluators, pc[e] = "ask",
         decisions' = decisions, acceptance' = acceptance, summaries' = summaries, refinement' = refinement,
         files' = files, mem' = mem, pc' = [pc EXCEPT ![e] = "infer"]
  PROVE  EvaluationInv'
<1>1. /\ mem[e] \in RunState(summaries, refinement)
      /\ mem \in [Evaluators -> RunState(summaries, refinement)]
      /\ RunFits(mem[e], pc[e], decisions, acceptance, summaries, refinement, files)
  BY Asking
<1>2. RunFits(mem[e], "infer", decisions, acceptance, summaries, refinement, files)
  BY <1>1 DEF RunFits, Placed, Active
<1>3. mem' = [mem EXCEPT ![e] = mem[e]] /\ "infer" \in Ended \cup Active
  BY <1>1 DEF Active
<1>. QED
  BY <1>1, <1>2, <1>3, RunOnly

\* A run ends.
LEMMA EndKeeps ==
  ASSUME EvaluationInv, NEW e \in Evaluators, NEW l \in Ended, End(e, l),
         decisions' = decisions, acceptance' = acceptance, summaries' = summaries, refinement' = refinement,
         files' = files
  PROVE  EvaluationInv'
<1>1. mem' = [mem EXCEPT ![e] = Nothing] /\ pc' = [pc EXCEPT ![e] = l] /\ l \in Ended \cup Active
  BY DEF End, Goto
<1>2. /\ Nothing \in RunState(summaries, refinement)
      /\ RunFits(Nothing, l, decisions, acceptance, summaries, refinement, files)
  BY NothingFits
<1>. QED
  BY <1>1, <1>2, RunOnly

\* It looks for the decision of a pair, and hears it when it is there.
LEMMA LookupKeeps ==
  ASSUME EvaluationInv, NEW e \in Evaluators, Lookup(e)
  PROVE  EvaluationInv'
<1>1. /\ pc[e] = "ask" /\ decisions' = decisions /\ acceptance' = acceptance /\ summaries' = summaries
      /\ refinement' = refinement /\ files' = files
  BY DEF Lookup, durable
<1>2. CASE decisions[pair(e)] = None /\ Goto(e, "infer") /\ UNCHANGED mem
  BY <1>1, <1>2, GotoFits DEF Goto
<1>3. CASE decisions[pair(e)] # None /\ Hear(e, Says(decisions[pair(e)]))
  <2>1. Grows(decisions, decisions)
    BY DEF Grows
  <2>2. pair(e) \in Pairs
    BY <1>1, Asking
  <2>3. Says(decisions[pair(e)]) # "none" /\ Says(decisions[pair(e)]) \in Words
    BY <1>3, <2>2, SaysAWord DEF EvaluationInv, DecisionsFit
  <2>4. \E m \in RunState(summaries, refinement), l \in Ended \cup Active :
          /\ mem' = [mem EXCEPT ![e] = m] /\ pc' = [pc EXCEPT ![e] = l]
          /\ RunFits(m, l, decisions, acceptance, summaries, refinement, files)
    BY <1>1, <1>3, <2>1, <2>3, HearFits
  <2>. QED
    BY <1>1, <2>4, RunOnly
<1>. QED
  BY <1>2, <1>3 DEF Lookup

\* It asks the model; a malformed answer ends it, or fails a control.
LEMMA InferKeeps ==
  ASSUME EvaluationInv, NEW e \in Evaluators, NEW raw \in Raws, Infer(e, raw)
  PROVE  EvaluationInv'
<1>1. /\ pc[e] = "infer" /\ decisions' = decisions /\ acceptance' = acceptance /\ summaries' = summaries
      /\ refinement' = refinement /\ files' = files
  BY DEF Infer, durable
<1>2. /\ mem[e] \in RunState(summaries, refinement)
      /\ mem \in [Evaluators -> RunState(summaries, refinement)]
      /\ RunFits(mem[e], pc[e], decisions, acceptance, summaries, refinement, files)
  BY <1>1, Asking
<1>3. CASE Says(raw) # "none" /\ mem' = [mem EXCEPT ![e].raw = raw] /\ Goto(e, "put")
  <2>. DEFINE m == [mem[e] EXCEPT !.raw = raw]
  <2>1. mem' = [mem EXCEPT ![e] = m] /\ pc' = [pc EXCEPT ![e] = "put"]
    BY <1>2, <1>3 DEF Goto
  <2>2. m \in RunState(summaries, refinement)
    BY <1>2 DEF RunState
  <2>3. /\ m.kind = mem[e].kind /\ m.at = mem[e].at /\ m.said = mem[e].said /\ m.base = mem[e].base
        /\ m.raw = raw
    BY <1>2 DEF RunState
  <2>. HIDE DEF m
  <2>4. Heard(m, decisions) /\ Placed(m, "put") /\ (Accepted(mem[e], acceptance) => Accepted(m, acceptance))
    BY <1>1, <1>2, <2>3 DEF RunFits, Heard, Placed, Accepted, Active
  <2>5. RunFits(m, "put", decisions, acceptance, summaries, refinement, files)
    BY <1>1, <1>2, <1>3, <2>3, <2>4 DEF RunFits, Active
  <2>6. "put" \in Ended \cup Active
    BY DEF Active
  <2>. QED
    BY <1>1, <2>1, <2>2, <2>5, <2>6, RunOnly
<1>4. CASE probing(e) /\ Hear(e, "none")
  <2>1. Grows(decisions, decisions) /\ "none" \in Words
    BY DEF Grows, Words
  <2>2. ~(mem[e].at > Len(Probes))
    BY <1>1, <1>4, Asking, AskedForm DEF probing
  <2>3. \E m \in RunState(summaries, refinement), l \in Ended \cup Active :
          /\ mem' = [mem EXCEPT ![e] = m] /\ pc' = [pc EXCEPT ![e] = l]
          /\ RunFits(m, l, decisions, acceptance, summaries, refinement, files)
    BY <1>1, <1>4, <2>1, <2>2, HearFits
  <2>. QED
    BY <1>1, <2>3, RunOnly
<1>5. CASE End(e, "failed")
  <2>1. "failed" \in Ended
    BY DEF Ended
  <2>. QED
    BY <1>1, <1>5, <2>1, EndKeeps
<1>. QED
  BY <1>3, <1>4, <1>5 DEF Infer

\* It crashes.
LEMMA CrashKeeps ==
  ASSUME EvaluationInv, NEW e \in Evaluators, Crash(e)
  PROVE  EvaluationInv'
<1>1. /\ decisions' = decisions /\ acceptance' = acceptance /\ summaries' = summaries
      /\ refinement' = refinement /\ files' = files /\ End(e, "failed") /\ "failed" \in Ended
  BY DEF Crash, durable, Ended
<1>. QED
  BY <1>1, EndKeeps

\* It records the answer, or hears the one that was recorded meanwhile.
LEMMA PutKeeps ==
  ASSUME EvaluationInv, NEW e \in Evaluators, Put(e)
  PROVE  EvaluationInv'
<1>1. /\ pc[e] = "put" /\ acceptance' = acceptance /\ summaries' = summaries /\ refinement' = refinement
      /\ files' = files
  BY DEF Put
<1>2. CASE decisions[pair(e)] \in {None, mem[e].raw}
  <2>. DEFINE p == pair(e)
              raw == mem[e].raw
  <2>1. decisions' = [decisions EXCEPT ![p] = raw] /\ Hear(e, Says(raw))
    BY <1>2 DEF Put
  <2>2. p \in Pairs /\ RunFits(mem[e], pc[e], decisions, acceptance, summaries, refinement, files)
    BY <1>1, Asking
  <2>3. raw \in Raws /\ Says(raw) # "none" /\ Says(raw) \in Words /\ raw # None
    BY <1>1, <2>2, SaysAWord, EvaluationAssumption DEF RunFits
  <2>4. DecisionsFit(decisions)
    BY DEF EvaluationInv
  <2>. HIDE DEF p, raw
  <2>5. /\ decisions' \in [Pairs -> Raws \cup {None}]
        /\ \A q \in Pairs : decisions'[q] = IF q = p THEN raw ELSE decisions[q]
    BY <2>1, <2>2, <2>3, <2>4 DEF DecisionsFit
  <2>6. DecisionsFit(decisions')
    BY <2>3, <2>4, <2>5 DEF DecisionsFit
  <2>7. Grows(decisions, decisions')
    BY <1>2, <2>5 DEF Grows, p, raw
  <2>8. decisions'[pair(e)] # None /\ Says(decisions'[pair(e)]) = Says(raw)
    BY <2>2, <2>3, <2>5 DEF p
  <2>9. \E m \in RunState(summaries, refinement), l \in Ended \cup Active :
          /\ mem' = [mem EXCEPT ![e] = m] /\ pc' = [pc EXCEPT ![e] = l]
          /\ RunFits(m, l, decisions', acceptance, summaries, refinement, files)
    BY <1>1, <2>1, <2>3, <2>7, <2>8, HearFits
  <2>10. /\ ResultsFit(decisions', acceptance, summaries, refinement)
         /\ files \in FilesOf(summaries, refinement)
    BY <2>7, ResultsPersist DEF EvaluationInv
  <2>. QED
    BY <1>1, <2>6, <2>7, <2>9, <2>10, RunMoves
<1>3. CASE ~(decisions[pair(e)] \in {None, mem[e].raw})
  <2>1. End(e, "failed") /\ decisions' = decisions /\ "failed" \in Ended
    BY <1>3 DEF Put, Ended
  <2>. QED
    BY <1>1, <2>1, EndKeeps
<1>. QED
  BY <1>2, <1>3

\* What is known of a run whose questions, or controls, are behind it.
LEMMA Running ==
  ASSUME EvaluationInv, NEW e \in Evaluators
  PROVE  /\ mem[e] \in RunState(summaries, refinement) /\ mem[e].kind \in Kinds /\ mem[e].said \in Seq(Words)
         /\ mem \in [Evaluators -> RunState(summaries, refinement)] /\ pc \in [Evaluators -> Ended \cup Active]
         /\ RunFits(mem[e], pc[e], decisions, acceptance, summaries, refinement, files)
         /\ mem[e].at = Len(mem[e].said) + 1 /\ Len(mem[e].said) \in Nat
         /\ DOMAIN mem[e].said = 1..Len(mem[e].said)
         /\ asked(e) = Asked(mem[e].kind)
<1>1. /\ mem[e] \in RunState(summaries, refinement)
      /\ mem \in [Evaluators -> RunState(summaries, refinement)] /\ pc \in [Evaluators -> Ended \cup Active]
      /\ RunFits(mem[e], pc[e], decisions, acceptance, summaries, refinement, files)
  BY DEF EvaluationInv
<1>2. mem[e].kind \in Kinds /\ mem[e].said \in Seq(Words)
  BY <1>1 DEF RunState
<1>3. Len(mem[e].said) \in Nat /\ DOMAIN mem[e].said = 1..Len(mem[e].said)
  BY <1>2, LenProperties
<1>4. mem[e].at = Len(mem[e].said) + 1
  BY <1>1 DEF RunFits, Heard
<1>. QED
  BY <1>1, <1>2, <1>3, <1>4 DEF asked

\* It reports the controls, and goes on when all are as expected.
LEMMA ReportKeeps ==
  ASSUME EvaluationInv, NEW e \in Evaluators, Report(e)
  PROVE  EvaluationInv'
<1>. DEFINE l == IF mem[e].at > Len(asked(e)) THEN "save" ELSE "ask"
            kind == mem[e].kind
<1>1. /\ pc[e] = "report" /\ acceptance' = acceptance \cup {Observed(e)}
      /\ decisions' = decisions /\ summaries' = summaries /\ refinement' = refinement /\ files' = files
  BY DEF Report
<1>2. /\ mem[e] \in RunState(summaries, refinement) /\ kind \in Kinds
      /\ mem \in [Evaluators -> RunState(summaries, refinement)]
      /\ RunFits(mem[e], pc[e], decisions, acceptance, summaries, refinement, files)
      /\ mem[e].at = Len(mem[e].said) + 1 /\ Len(mem[e].said) \in Nat
      /\ DOMAIN mem[e].said = 1..Len(mem[e].said) /\ asked(e) = Asked(kind)
  BY Running
<1>3. /\ Len(Probes) \in Nat /\ DOMAIN Probes = 1..Len(Probes)
      /\ Len(Asked(kind)) \in Nat /\ Len(Probes) <= Len(Asked(kind))
  BY <1>2, AskedForm
<1>4. mem[e].at = Len(Probes) + 1
  BY <1>1, <1>2 DEF RunFits, Placed, Active
<1>5. /\ DecisionsFit(decisions) /\ files \in FilesOf(summaries, refinement)
      /\ ResultsFit(decisions, acceptance', summaries, refinement) /\ Grows(decisions, decisions)
  BY <1>1, ResultsPersist DEF EvaluationInv, Grows
<1>6. CASE Observed(e) # Passed
  <2>1. mem' = [mem EXCEPT ![e] = Nothing] /\ pc' = [pc EXCEPT ![e] = "failed"]
    BY <1>6 DEF Report, End, Goto
  <2>2. "failed" \in Ended /\ "failed" \in Ended \cup Active
    BY DEF Ended
  <2>3. /\ Nothing \in RunState(summaries, refinement)
        /\ RunFits(Nothing, "failed", decisions, acceptance', summaries, refinement, files)
    BY <2>2, NothingFits
  <2>. QED
    BY <1>1, <1>5, <2>1, <2>2, <2>3, RunMoves
<1>7. CASE Observed(e) = Passed
  <2>1. mem' = mem /\ pc' = [pc EXCEPT ![e] = l]
    BY <1>7 DEF Report, Goto
  <2>2. /\ l \in {"save", "ask"} /\ l \in Ended \cup Active
        /\ l = "save" => mem[e].at > Len(Asked(kind))
        /\ l = "ask" => ~(mem[e].at > Len(Asked(kind)))
    BY <1>2 DEF Active
  <2>. HIDE DEF l
  <2>3. \A n \in DOMAIN Probes : mem[e].said[n] = Probes[n].expected
    <3>1. \A n \in DOMAIN Probes : Observed(e)[n] = mem[e].said[n] /\ Passed[n] = Probes[n].expected
      BY DEF Observed, Passed
    <3>. QED
      BY <1>7, <3>1
  <2>4. Accepted(mem[e], acceptance')
    <3>1. \A n \in DOMAIN Probes : n \in DOMAIN mem[e].said
      BY <1>2, <1>3, <1>4
    <3>. QED
      BY <1>1, <1>7, <2>3, <3>1 DEF Accepted
  <2>5. Placed(mem[e], l)
    BY <1>2, <1>3, <1>4, <2>2 DEF Placed
  <2>6. RunFits(mem[e], l, decisions, acceptance', summaries, refinement, files)
    BY <1>1, <1>2, <2>2, <2>4, <2>5 DEF RunFits, Active
  <2>7. mem' = [mem EXCEPT ![e] = mem[e]]
    BY <1>2, <2>1
  <2>. QED
    BY <1>1, <1>2, <1>5, <2>1, <2>2, <2>6, <2>7, RunMoves
<1>. QED
  BY <1>6, <1>7

\* A run that saves has heard of every pair what was decided, and passed.
LEMMA SaveIsSettled ==
  ASSUME EvaluationInv, NEW e \in Evaluators, pc[e] = "save"
  PROVE  /\ Settled(decisions, mem[e].kind) /\ Passed \in acceptance /\ Controlled(decisions)
         /\ Rows(mem[e].kind, Told(e)) = Rows(mem[e].kind, Verdicts(decisions))
<1>. DEFINE kind == mem[e].kind
            said == mem[e].said
<1>1. /\ kind \in Kinds /\ RunFits(mem[e], pc[e], decisions, acceptance, summaries, refinement, files)
      /\ mem[e].at = Len(said) + 1 /\ Len(said) \in Nat /\ DOMAIN said = 1..Len(said) /\ asked(e) = Asked(kind)
  BY Running
<1>2. /\ Len(Probes) \in Nat /\ DOMAIN Probes = 1..Len(Probes)
      /\ Len(Asked(kind)) \in Nat /\ Len(Probes) <= Len(Asked(kind)) /\ DOMAIN Asked(kind) = 1..Len(Asked(kind))
      /\ \A n \in 1..Len(Probes) : Asked(kind)[n] = Probes[n].pair
      /\ ToSet(Asked(kind)) \subseteq Pairs
  BY <1>1, AskedForm
<1>3. mem[e].at = Len(Asked(kind)) + 1 /\ Heard(mem[e], decisions) /\ Accepted(mem[e], acceptance)
  <2>1. pc[e] \in Active /\ pc[e] # "report"
    BY DEF Active
  <2>2. Placed(mem[e], pc[e]) /\ Heard(mem[e], decisions) /\ (mem[e].at > Len(Probes) => Accepted(mem[e], acceptance))
    BY <1>1, <2>1 DEF RunFits
  <2>3. mem[e].at = Len(Asked(kind)) + 1
    BY <2>2 DEF Placed
  <2>. QED
    BY <1>2, <2>2, <2>3
<1>4. DOMAIN said = DOMAIN Asked(kind)
  BY <1>1, <1>2, <1>3
<1>5. ASSUME NEW n \in DOMAIN Asked(kind)
      PROVE  decisions[Asked(kind)[n]] # None /\ Says(decisions[Asked(kind)[n]]) = said[n]
  <2>1. n \in DOMAIN said
    BY <1>4
  <2>2. said[n] # "none"
    <3>1. CASE n > Len(Probes)
      BY <1>3, <2>1, <3>1 DEF Heard
    <3>2. CASE ~(n > Len(Probes))
      <4>1. n \in DOMAIN Probes
        BY <1>2, <3>2
      <4>2. said[n] = Probes[n].expected /\ Probes[n].expected \in {"YES", "NO"}
        BY <1>3, <4>1, EvaluationAssumption DEF Accepted
      <4>. QED
        BY <4>2
    <3>. QED
      BY <3>1, <3>2
  <2>. QED
    BY <1>3, <2>1, <2>2 DEF Heard
<1>6. Settled(decisions, kind)
  BY <1>5 DEF Settled, ToSet
<1>7. Passed \in acceptance
  BY <1>3 DEF Accepted
<1>8. Controlled(decisions)
  <2>1. ASSUME NEW n \in DOMAIN Probes
        PROVE  decisions[Probes[n].pair] # None /\ Says(decisions[Probes[n].pair]) = Probes[n].expected
    <3>1. n \in DOMAIN Asked(kind) /\ Asked(kind)[n] = Probes[n].pair
      BY <1>2
    <3>2. said[n] = Probes[n].expected
      BY <1>3 DEF Accepted
    <3>. QED
      BY <1>5, <3>1, <3>2
  <2>. QED
    BY <2>1 DEF Controlled
<1>9. ASSUME NEW p \in ToSet(Asked(kind)) PROVE Told(e)[p] = Verdicts(decisions)[p]
  <2>. DEFINE n == CHOOSE i \in DOMAIN said : asked(e)[i] = p
  <2>1. Told(e)[p] = said[n]
    BY <1>1 DEF Told
  <2>2. \E i \in DOMAIN said : asked(e)[i] = p
    BY <1>1, <1>4 DEF ToSet
  <2>3. n \in DOMAIN said /\ asked(e)[n] = p
    BY <2>2
  <2>. HIDE DEF n
  <2>4. decisions[p] # None /\ Says(decisions[p]) = said[n]
    BY <1>1, <1>4, <1>5, <2>3
  <2>5. p \in Pairs
    BY <1>2
  <2>6. Verdicts(decisions)[p] = IF decisions[p] = None THEN "none" ELSE Says(decisions[p])
    BY <2>5 DEF Verdicts
  <2>. QED
    BY <2>1, <2>4, <2>6
<1>10. Rows(kind, Told(e)) = Rows(kind, Verdicts(decisions))
  BY <1>1, <1>9, RowsAgree
<1>. QED
  BY <1>6, <1>7, <1>8, <1>10

\* After the save a run notes the summary.
LEMMA SavedFits ==
  ASSUME EvaluationInv, NEW e \in Evaluators, pc[e] = "save", NEW S, NEW r, NEW s,
         summaries \subseteq S, refinement \in {None, r}, s \in {r} \cup S,
         \A x, y \in S : x = y,
         IF mem[e].kind = "first" THEN s \in S ELSE s = r
  PROVE  /\ [mem[e] EXCEPT !.summary = s] \in RunState(S, r)
         /\ RunFits([mem[e] EXCEPT !.summary = s], "file", decisions, acceptance, S, r, files)
         /\ mem[e].kind = "second" => mem[e].base \in summaries /\ files.summary = mem[e].base
<1>. DEFINE m == [mem[e] EXCEPT !.summary = s]
<1>1. /\ mem[e] \in RunState(summaries, refinement)
      /\ RunFits(mem[e], pc[e], decisions, acceptance, summaries, refinement, files)
  BY Running
<1>2. Grows(decisions, decisions)
  BY DEF Grows
<1>3. mem[e] \in RunState(S, r) /\ RunFits(mem[e], pc[e], decisions, acceptance, S, r, files)
  BY <1>1, <1>2, RunPersists
<1>4. m \in RunState(S, r)
  BY <1>3 DEF RunState
<1>5. m.kind = mem[e].kind /\ m.at = mem[e].at /\ m.said = mem[e].said /\ m.base = mem[e].base /\ m.summary = s
  BY <1>1 DEF RunState
<1>. HIDE DEF m
<1>6. Heard(m, decisions) /\ Placed(m, "file") /\ (Accepted(mem[e], acceptance) => Accepted(m, acceptance))
  BY <1>3, <1>5 DEF RunFits, Heard, Placed, Accepted, Active
<1>7. RunFits(m, "file", decisions, acceptance, S, r, files)
  BY <1>3, <1>5, <1>6 DEF RunFits, Active
<1>8. mem[e].kind = "second" => mem[e].base \in summaries /\ files.summary = mem[e].base
  BY <1>1 DEF RunFits, Active
<1>. QED
  BY <1>4, <1>7, <1>8 DEF m

\* A first pass saves its summary: the one that is there, if there is one.
LEMMA SaveFirstKeeps ==
  ASSUME EvaluationInv, NEW e \in Evaluators, SaveFirst(e)
  PROVE  EvaluationInv'
<1>. DEFINE s == [kind |-> "first", rows |-> Rows("first", Told(e))]
            m == [mem[e] EXCEPT !.summary = s]
<1>1. /\ pc[e] = "save" /\ mem[e].kind = "first" /\ pc' = [pc EXCEPT ![e] = "file"]
      /\ summaries' = summaries \cup {s} /\ mem' = [mem EXCEPT ![e].summary = s]
      /\ decisions' = decisions /\ acceptance' = acceptance /\ refinement' = refinement /\ files' = files
  BY DEF SaveFirst, Goto
<1>2. mem' = [mem EXCEPT ![e] = m]
  BY <1>1, Running
<1>3. /\ Settled(decisions, "first") /\ Passed \in acceptance /\ Controlled(decisions)
      /\ s = FirstSummary(decisions)
  BY <1>1, SaveIsSettled DEF FirstSummary
<1>. HIDE DEF s
<1>4. /\ DecisionsFit(decisions) /\ ResultsFit(decisions, acceptance, summaries, refinement)
      /\ files \in FilesOf(summaries, refinement)
  BY DEF EvaluationInv
<1>5. ResultsFit(decisions, acceptance, summaries', refinement)
  BY <1>1, <1>3, <1>4 DEF ResultsFit
<1>6. files \in FilesOf(summaries', refinement)
  BY <1>1, <1>4 DEF FilesOf
<1>7. \A x, y \in summaries' : x = y
  BY <1>5 DEF ResultsFit
<1>8. m \in RunState(summaries', refinement) /\ RunFits(m, "file", decisions, acceptance, summaries', refinement, files)
  BY <1>1, <1>7, SavedFits
<1>9. Grows(decisions, decisions) /\ "file" \in Ended \cup Active
  BY DEF Grows, Active
<1>. HIDE DEF m
<1>. QED
  BY <1>1, <1>2, <1>4, <1>5, <1>6, <1>8, <1>9, RunMoves

\* A second pass saves its own, which names the first, unless another is there.
LEMMA SaveSecondKeeps ==
  ASSUME EvaluationInv, NEW e \in Evaluators, SaveSecond(e)
  PROVE  EvaluationInv'
<1>. DEFINE s == [kind |-> "second", rows |-> Rows("second", Told(e)), first |-> mem[e].base,
                  named |-> files.summary]
            m == [mem[e] EXCEPT !.summary = s]
<1>1. /\ pc[e] = "save" /\ mem[e].kind = "second"
      /\ decisions' = decisions /\ acceptance' = acceptance /\ summaries' = summaries /\ files' = files
  BY DEF SaveSecond
<1>2. /\ Settled(decisions, "second") /\ Passed \in acceptance /\ Controlled(decisions)
      /\ s.rows = Rows("second", Verdicts(decisions)) /\ s.first = mem[e].base /\ s.named = files.summary
  BY <1>1, SaveIsSettled
<1>3. /\ DecisionsFit(decisions) /\ ResultsFit(decisions, acceptance, summaries, refinement)
      /\ files \in FilesOf(summaries, refinement)
  BY DEF EvaluationInv
<1>4. CASE refinement \in {None, s}
  <2>1. /\ refinement' = s /\ mem' = [mem EXCEPT ![e].summary = s] /\ pc' = [pc EXCEPT ![e] = "file"]
    BY <1>4 DEF SaveSecond, Goto
  <2>2. mem' = [mem EXCEPT ![e] = m]
    BY <2>1, Running
  <2>. HIDE DEF s
  <2>3. \A x, y \in summaries : x = y
    BY <1>3 DEF ResultsFit
  <2>4. refinement \in {None, refinement'} /\ mem[e].kind # "first" /\ summaries \subseteq summaries
    BY <1>1, <1>4, <2>1
  <2>5. /\ m \in RunState(summaries, refinement') /\ RunFits(m, "file", decisions, acceptance, summaries, refinement', files)
        /\ mem[e].base \in summaries /\ files.summary = mem[e].base
    BY <1>1, <2>1, <2>3, <2>4, SavedFits
  <2>6. ResultsFit(decisions, acceptance, summaries, refinement')
    BY <1>2, <1>3, <2>1, <2>5 DEF ResultsFit
  <2>7. files \in FilesOf(summaries, refinement')
    BY <1>3, <2>4 DEF FilesOf
  <2>8. Grows(decisions, decisions) /\ "file" \in Ended \cup Active
    BY DEF Grows, Active
  <2>. HIDE DEF m
  <2>. QED
    BY <1>1, <1>3, <2>1, <2>2, <2>4, <2>5, <2>6, <2>7, <2>8, RunMoves
<1>5. CASE ~(refinement \in {None, s})
  <2>1. End(e, "failed") /\ refinement' = refinement /\ "failed" \in Ended
    BY <1>5 DEF SaveSecond, Ended
  <2>. QED
    BY <1>1, <2>1, EndKeeps
<1>. QED
  BY <1>4, <1>5

\* It writes the file of the summary.
LEMMA WriteFileKeeps ==
  ASSUME EvaluationInv, NEW e \in Evaluators, WriteFile(e)
  PROVE  EvaluationInv'
<1>1. /\ pc[e] = "file" /\ mem' = mem /\ pc' = [pc EXCEPT ![e] = "sha"]
      /\ decisions' = decisions /\ acceptance' = acceptance /\ summaries' = summaries /\ refinement' = refinement
      /\ files' = IF mem[e].kind = "first" THEN [files EXCEPT !.summary = mem[e].summary]
                                           ELSE [files EXCEPT !.refinement = mem[e].summary]
  BY DEF WriteFile, Goto, durable
<1>2. /\ mem[e] \in RunState(summaries, refinement)
      /\ mem \in [Evaluators -> RunState(summaries, refinement)]
      /\ RunFits(mem[e], pc[e], decisions, acceptance, summaries, refinement, files)
  BY Running
<1>3. IF mem[e].kind = "first" THEN mem[e].summary \in summaries ELSE mem[e].summary \in {None, refinement}
  BY <1>1, <1>2 DEF RunFits
<1>4. /\ DecisionsFit(decisions) /\ ResultsFit(decisions, acceptance, summaries, refinement)
      /\ files \in FilesOf(summaries, refinement)
  BY DEF EvaluationInv
<1>5. files' \in FilesOf(summaries, refinement) /\ files'.summary \in {files.summary} \cup summaries
  BY <1>1, <1>3, <1>4 DEF FilesOf
<1>6. Grows(decisions, decisions) /\ "sha" \in Ended \cup Active
  BY DEF Grows, Active
<1>7. \A x, y \in summaries : x = y
  BY <1>4 DEF ResultsFit
<1>8. RunFits(mem[e], pc[e], decisions, acceptance, summaries, refinement, files')
  BY <1>2, <1>5, <1>6, <1>7, RunPersists
<1>9. RunFits(mem[e], "sha", decisions, acceptance, summaries, refinement, files')
  BY <1>1, <1>8 DEF RunFits, Placed, Active
<1>10. mem' = [mem EXCEPT ![e] = mem[e]]
  BY <1>1, <1>2
<1>11. refinement \in {None, refinement'} /\ acceptance \subseteq acceptance' /\ summaries \subseteq summaries'
  BY <1>1
<1>. QED
  BY <1>1, <1>2, <1>4, <1>5, <1>6, <1>9, <1>10, <1>11, RunMoves

\* It writes the digest of it.
LEMMA WriteShaKeeps ==
  ASSUME EvaluationInv, NEW e \in Evaluators, WriteSha(e)
  PROVE  EvaluationInv'
<1>1. /\ pc[e] = "sha" /\ mem' = [mem EXCEPT ![e] = Nothing] /\ pc' = [pc EXCEPT ![e] = "done"]
      /\ decisions' = decisions /\ acceptance' = acceptance /\ summaries' = summaries /\ refinement' = refinement
      /\ files' = IF mem[e].kind = "first" THEN [files EXCEPT !.sha = mem[e].summary]
                                           ELSE [files EXCEPT !.refinementSha = mem[e].summary]
  BY DEF WriteSha, End, Goto, durable
<1>2. RunFits(mem[e], pc[e], decisions, acceptance, summaries, refinement, files)
  BY Running
<1>3. IF mem[e].kind = "first" THEN mem[e].summary \in summaries ELSE mem[e].summary \in {None, refinement}
  BY <1>1, <1>2 DEF RunFits
<1>4. /\ DecisionsFit(decisions) /\ ResultsFit(decisions, acceptance, summaries, refinement)
      /\ files \in FilesOf(summaries, refinement)
  BY DEF EvaluationInv
<1>5. files' \in FilesOf(summaries, refinement) /\ files'.summary = files.summary
  BY <1>1, <1>3, <1>4 DEF FilesOf
<1>6. Grows(decisions, decisions) /\ "done" \in Ended /\ "done" \in Ended \cup Active
  BY DEF Grows, Ended
<1>7. /\ Nothing \in RunState(summaries, refinement)
      /\ RunFits(Nothing, "done", decisions, acceptance, summaries, refinement, files')
  BY <1>6, NothingFits
<1>8. /\ refinement \in {None, refinement'} /\ acceptance \subseteq acceptance' /\ summaries \subseteq summaries'
      /\ files'.summary \in {files.summary} \cup summaries'
  BY <1>1, <1>5
<1>. QED
  BY <1>1, <1>4, <1>5, <1>6, <1>7, <1>8, RunMoves

\* The initial state.
LEMMA InitFits ==
  ASSUME Init
  PROVE  EvaluationInv
<1>1. /\ decisions = [p \in Pairs |-> None] /\ acceptance = {} /\ summaries = {} /\ refinement = None
      /\ files = [summary |-> Old, sha |-> Old, refinement |-> Old, refinementSha |-> Old]
      /\ pc = [e \in Evaluators |-> "idle"] /\ mem = [e \in Evaluators |-> Nothing] /\ "idle" \in Ended
  BY DEF Init, Ended
<1>2. DecisionsFit(decisions)
  BY <1>1 DEF DecisionsFit
<1>3. ResultsFit(decisions, acceptance, summaries, refinement)
  BY <1>1 DEF ResultsFit
<1>4. files \in FilesOf(summaries, refinement)
  BY <1>1 DEF FilesOf
<1>5. /\ Nothing \in RunState(summaries, refinement)
      /\ RunFits(Nothing, "idle", decisions, acceptance, summaries, refinement, files)
  BY <1>1, NothingFits
<1>. QED
  BY <1>1, <1>2, <1>3, <1>4, <1>5 DEF EvaluationInv

\* Every step keeps the invariant.
LEMMA EvaluationStep ==
  ASSUME EvaluationInv, [Next]_vars
  PROVE  EvaluationInv'
<1>1. CASE UNCHANGED vars
  <2>1. /\ decisions' = decisions /\ acceptance' = acceptance /\ summaries' = summaries
        /\ refinement' = refinement /\ files' = files /\ pc' = pc /\ mem' = mem
    BY <1>1 DEF vars, durable
  <2>. QED
    BY <2>1 DEF EvaluationInv
<1>2. ASSUME NEW e \in Evaluators, NEW kind \in Kinds, Start(e, kind) PROVE EvaluationInv'
  BY <1>2, StartKeeps
<1>3. ASSUME NEW e \in Evaluators, Lookup(e) PROVE EvaluationInv'
  BY <1>3, LookupKeeps
<1>4. ASSUME NEW e \in Evaluators, NEW raw \in Raws, Infer(e, raw) PROVE EvaluationInv'
  BY <1>4, InferKeeps
<1>5. ASSUME NEW e \in Evaluators, Put(e) PROVE EvaluationInv'
  BY <1>5, PutKeeps
<1>6. ASSUME NEW e \in Evaluators, Report(e) PROVE EvaluationInv'
  BY <1>6, ReportKeeps
<1>7. ASSUME NEW e \in Evaluators, SaveFirst(e) PROVE EvaluationInv'
  BY <1>7, SaveFirstKeeps
<1>8. ASSUME NEW e \in Evaluators, SaveSecond(e) PROVE EvaluationInv'
  BY <1>8, SaveSecondKeeps
<1>9. ASSUME NEW e \in Evaluators, WriteFile(e) PROVE EvaluationInv'
  BY <1>9, WriteFileKeeps
<1>10. ASSUME NEW e \in Evaluators, WriteSha(e) PROVE EvaluationInv'
  BY <1>10, WriteShaKeeps
<1>11. ASSUME NEW e \in Evaluators, Crash(e) PROVE EvaluationInv'
  BY <1>11, CrashKeeps
<1>. QED
  BY <1>1, <1>2, <1>3, <1>4, <1>5, <1>6, <1>7, <1>8, <1>9, <1>10, <1>11 DEF Next

\* The invariant holds for any runs at once, references, predictions and judge.
THEOREM EvaluationInvHolds == Spec => []EvaluationInv
<1>1. Init => EvaluationInv
  BY InitFits
<1>2. EvaluationInv /\ [Next]_vars => EvaluationInv'
  BY EvaluationStep
<1>. QED
  BY <1>1, <1>2, PTL DEF Spec

\* The summaries that are saved have the scores that the recorded decisions give:
\* whoever scores again from the decisions gets the same (score_predictions, evaluate_refinement).
THEOREM ScoresReproduce == Spec => []ScoresAreReproducible
<1>1. EvaluationInv => ScoresAreReproducible
  BY DEF EvaluationInv, ResultsFit, ScoresAreReproducible, FirstSummary, Verdicts
<1>. QED
  BY <1>1, EvaluationInvHolds, PTL

\* No summary is saved before the controls were all decided as expected and the
\* report of it is there (DurableSemanticJudge.validate).
THEOREM AcceptanceHolds == Spec => []AcceptanceGates
<1>1. EvaluationInv => AcceptanceGates
  BY DEF EvaluationInv, ResultsFit, AcceptanceGates, Controlled
<1>. QED
  BY <1>1, EvaluationInvHolds, PTL

\* What the files are loaded as was saved, and a refinement is compared with the
\* first pass that it names, which is the one of the evaluation (load_summary, load_refinement).
THEOREM LineageIsTrue == Spec => []LineageHolds
<1>1. ASSUME EvaluationInv PROVE LineageHolds
  <2>1. /\ files \in FilesOf(summaries, refinement) /\ ResultsFit(decisions, acceptance, summaries, refinement)
    BY <1>1 DEF EvaluationInv
  <2>2. Loaded # None => Loaded \in summaries
    BY <2>1 DEF FilesOf, Loaded, Old
  <2>3. LoadedRefinement # None => LoadedRefinement = refinement
    BY <2>1 DEF FilesOf, LoadedRefinement, Old
  <2>4. refinement # None => refinement.first \in summaries /\ refinement.named = refinement.first
    BY <2>1 DEF ResultsFit
  <2>. QED
    BY <2>2, <2>3, <2>4 DEF LineageHolds
<1>. QED
  BY <1>1, EvaluationInvHolds, PTL

-----------------------------------------------------------------------------
(***************************************************************************)
(* The metric: joins and the longest common subsequence (Metric, Ordering) *)
(***************************************************************************)

\* Names of two digits are in the order of the numbers.
LEMMA TwoDigitsInOrder ==
  ASSUME NEW k \in 1..99, NEW i \in 1..99
  PROVE  Before(PublicId(k), PublicId(i)) <=> k < i
<1>. DEFINE a == PublicId(k)
            b == PublicId(i)
<1>1. /\ k \div 10 \in Nat /\ k % 10 \in 0..9 /\ k = 10 * (k \div 10) + (k % 10)
      /\ i \div 10 \in Nat /\ i % 10 \in 0..9 /\ i = 10 * (i \div 10) + (i % 10)
  OBVIOUS
<1>2. a = <<k \div 10, k % 10>> /\ b = <<i \div 10, i % 10>>
  BY DEF PublicId
<1>3. /\ a \in Seq(Nat) /\ b \in Seq(Nat) /\ Len(a) = 2 /\ Len(b) = 2
      /\ DOMAIN a \cap DOMAIN b = {1, 2}
      /\ a[1] = k \div 10 /\ a[2] = k % 10 /\ b[1] = i \div 10 /\ b[2] = i % 10
  BY <1>1, <1>2
<1>. HIDE DEF a, b
<1>4. ~(a # b /\ IsPrefix(a, b))
  <2>1. SubSeq(a, 1, 2) = a /\ SubSeq(b, 1, 2) = b
    BY <1>3, SubSeqFull
  <2>. QED
    BY <1>3, <2>1 DEF IsPrefix
<1>5. (\E n \in {1, 2} : a[n] < b[n] /\ \A j \in 1..(n - 1) : a[j] = b[j])
        <=> a[1] < b[1] \/ (a[1] = b[1] /\ a[2] < b[2])
  <2>1. 1..(1 - 1) = {} /\ 1..(2 - 1) = {1}
    OBVIOUS
  <2>2. (a[1] < b[1] /\ \A j \in 1..(1 - 1) : a[j] = b[j]) <=> a[1] < b[1]
    BY <2>1
  <2>3. (a[2] < b[2] /\ \A j \in 1..(2 - 1) : a[j] = b[j]) <=> a[1] = b[1] /\ a[2] < b[2]
    BY <2>1
  <2>. QED
    BY <2>2, <2>3
<1>6. k < i <=> a[1] < b[1] \/ (a[1] = b[1] /\ a[2] < b[2])
  BY <1>1, <1>3
<1>7. Before(a, b) <=> a[1] < b[1] \/ (a[1] = b[1] /\ a[2] < b[2])
  BY <1>3, <1>4, <1>5 DEF Before
<1>. QED
  BY <1>6, <1>7 DEF a, b

\* For up to 99 questions a score goes back to the row it belongs to: rows are
\* joined by position after the names were sorted as strings (score_predictions).
THEOREM ScoresGoBackToTheirRows ==
  ASSUME NEW c \in 0..99
  PROVE  JoinedTo(c) = [i \in 1..c |-> i]
<1>. DEFINE before(i) == {k \in 1..c : Before(PublicId(k), PublicId(i))}
            place(i) == Cardinality(before(i)) + 1
<1>1. ASSUME NEW i \in 1..c PROVE place(i) = i
  <2>1. before(i) = 1..(i - 1)
    <3>1. 1..c \subseteq 1..99
      OBVIOUS
    <3>2. \A k \in 1..c : Before(PublicId(k), PublicId(i)) <=> k < i
      BY <3>1, TwoDigitsInOrder
    <3>. QED
      BY <3>2
  <2>2. Cardinality(1..(i - 1)) = i - 1
    BY FS_Interval
  <2>3. place(i) = Cardinality(before(i)) + 1
    OBVIOUS
  <2>. HIDE DEF before, place
  <2>. QED
    BY <2>1, <2>2, <2>3
<1>2. JoinedTo(c) = [i \in 1..c |-> CHOOSE k \in 1..c : place(k) = i]
  BY DEF JoinedTo
<1>. HIDE DEF place
<1>3. ASSUME NEW i \in 1..c PROVE (CHOOSE k \in 1..c : place(k) = i) = i
  BY <1>1
<1>. QED
  BY <1>2, <1>3

\* A common subsequence of the first i and the first j items: pairs of equal ones
\* (as edges has it), of which one comes after the other in both.
IsCommon(edges, M, i, j) ==
  /\ M \subseteq (1..i) \X (1..j)
  /\ \A p \in M : edges[p[1]][p[2]]
  /\ \A p, q \in M : \/ p = q
                     \/ p[1] < q[1] /\ p[2] < q[2]
                     \/ p[1] > q[1] /\ p[2] > q[2]

\* The longest of them has n items.
IsLongest(edges, n, i, j) == /\ \E M : IsCommon(edges, M, i, j) /\ Cardinality(M) = n
                             /\ \A M : IsCommon(edges, M, i, j) => Cardinality(M) <= n

\* A common subsequence is finite.
LEMMA CommonIsFinite ==
  ASSUME NEW edges, NEW i \in Nat, NEW j \in Nat, NEW M, IsCommon(edges, M, i, j)
  PROVE  IsFiniteSet(M) /\ Cardinality(M) \in Nat
<1>1. IsFiniteSet((1..i) \X (1..j))
  <2>1. IsFiniteSet(1..i) /\ IsFiniteSet(1..j)
    BY FS_Interval
  <2>. QED
    BY <2>1, FS_Product
<1>2. IsFiniteSet(M)
  BY <1>1, FS_Subset DEF IsCommon
<1>. QED
  BY <1>2, FS_CardinalityType

\* The greater of two numbers.
LEMMA MaxOfTwo ==
  ASSUME NEW b \in Nat, NEW c \in Nat
  PROVE  Max({b, c}) \in {b, c} /\ b <= Max({b, c}) /\ c <= Max({b, c})
<1>1. \E x \in {b, c} : \A y \in {b, c} : x >= y
  <2>1. CASE b >= c
    BY <2>1
  <2>2. CASE c >= b
    BY <2>2
  <2>. QED
    BY <2>1, <2>2
<1>2. Max({b, c}) \in {b, c} /\ \A y \in {b, c} : Max({b, c}) >= y
  BY <1>1 DEF Max
<1>. QED
  BY <1>2

\* Without items there is nothing in common.
LEMMA LongestOfNone ==
  ASSUME NEW edges, NEW i \in Nat, NEW j \in Nat, i = 0 \/ j = 0
  PROVE  IsLongest(edges, 0, i, j)
<1>1. (1..i) \X (1..j) = {}
  <2>1. 1..0 = {}
    OBVIOUS
  <2>. QED
    BY <2>1
<1>2. \A M : IsCommon(edges, M, i, j) => M = {}
  BY <1>1 DEF IsCommon
<1>3. IsCommon(edges, {}, i, j)
  BY DEF IsCommon
<1>4. Cardinality({}) = 0
  BY FS_EmptySet
<1>. QED
  BY <1>2, <1>3, <1>4 DEF IsLongest

\* When the last two items are equal they are the last of a longest subsequence.
LEMMA LongestWithBoth ==
  ASSUME NEW edges, NEW i \in Nat \ {0}, NEW j \in Nat \ {0}, NEW a \in Nat,
         IsLongest(edges, a, i - 1, j - 1), edges[i][j]
  PROVE  IsLongest(edges, a + 1, i, j)
<1>1. i - 1 \in Nat /\ j - 1 \in Nat /\ i \in Nat /\ j \in Nat
  OBVIOUS
<1>2. PICK M : IsCommon(edges, M, i - 1, j - 1) /\ Cardinality(M) = a
  BY DEF IsLongest
<1>3. \A p \in M : p \in (1..i) \X (1..j) /\ p[1] < i /\ p[2] < j
  BY <1>1, <1>2 DEF IsCommon
<1>4. IsCommon(edges, M \cup {<<i, j>>}, i, j)
  <2>. DEFINE x == <<i, j>>
  <2>1. x \in (1..i) \X (1..j) /\ x[1] = i /\ x[2] = j
    BY <1>1
  <2>. HIDE DEF x
  <2>2. IsCommon(edges, M \cup {x}, i, j)
    BY <1>2, <1>3, <2>1 DEF IsCommon
  <2>. QED
    BY <2>2 DEF x
<1>5. Cardinality(M \cup {<<i, j>>}) = a + 1
  <2>1. <<i, j>> \notin M
    BY <1>1, <1>3
  <2>2. IsFiniteSet(M)
    BY <1>1, <1>2, CommonIsFinite
  <2>. QED
    BY <1>2, <2>1, <2>2, FS_AddElement
<1>6. ASSUME NEW N, IsCommon(edges, N, i, j) PROVE Cardinality(N) <= a + 1
  <2>1. IsFiniteSet(N) /\ Cardinality(N) \in Nat
    BY <1>1, <1>6, CommonIsFinite
  <2>2. \A p \in N : p = <<p[1], p[2]>> /\ p[1] \in 1..i /\ p[2] \in 1..j
    BY <1>6 DEF IsCommon
  <2>3. CASE \A p \in N : p[1] # i /\ p[2] # j
    <3>1. \A p \in N : p \in (1..(i - 1)) \X (1..(j - 1))
      BY <1>1, <2>2, <2>3
    <3>2. IsCommon(edges, N, i - 1, j - 1)
      BY <1>6, <3>1 DEF IsCommon
    <3>3. Cardinality(N) <= a
      BY <3>2 DEF IsLongest
    <3>. QED
      BY <2>1, <3>3
  <2>4. CASE \E x \in N : x[1] = i \/ x[2] = j
    <3>1. PICK x \in N : x[1] = i \/ x[2] = j
      BY <2>4
    <3>2. ASSUME NEW p \in N, p # x PROVE p[1] < i /\ p[2] < j
      <4>1. \/ p[1] < x[1] /\ p[2] < x[2]
            \/ p[1] > x[1] /\ p[2] > x[2]
        BY <1>6, <3>2 DEF IsCommon
      <4>. QED
        BY <1>1, <2>2, <3>1, <4>1
    <3>3. \A p \in N \ {x} : p \in (1..(i - 1)) \X (1..(j - 1))
      BY <1>1, <2>2, <3>2
    <3>4. IsCommon(edges, N \ {x}, i - 1, j - 1)
      BY <1>6, <3>3 DEF IsCommon
    <3>5. Cardinality(N \ {x}) <= a
      BY <3>4 DEF IsLongest
    <3>6. Cardinality(N \ {x}) = Cardinality(N) - 1
      BY <2>1, FS_RemoveElement
    <3>. QED
      BY <2>1, <3>5, <3>6
  <2>. QED
    BY <2>3, <2>4
<1>. QED
  BY <1>4, <1>5, <1>6 DEF IsLongest

\* When they are not, one of the two may as well be left out.
LEMMA LongestWithout ==
  ASSUME NEW edges, NEW i \in Nat \ {0}, NEW j \in Nat \ {0}, NEW b \in Nat, NEW c \in Nat,
         IsLongest(edges, b, i - 1, j), IsLongest(edges, c, i, j - 1), ~edges[i][j]
  PROVE  IsLongest(edges, Max({b, c}), i, j)
<1>. DEFINE m == Max({b, c})
<1>1. i - 1 \in Nat /\ j - 1 \in Nat /\ i \in Nat /\ j \in Nat
  OBVIOUS
<1>2. m \in {b, c} /\ b <= m /\ c <= m
  BY MaxOfTwo
<1>. HIDE DEF m
<1>3. (1..(i - 1)) \X (1..j) \subseteq (1..i) \X (1..j) /\ (1..i) \X (1..(j - 1)) \subseteq (1..i) \X (1..j)
  BY <1>1
<1>4. \E M : IsCommon(edges, M, i, j) /\ Cardinality(M) = m
  <2>1. CASE m = b
    BY <1>3, <2>1 DEF IsLongest, IsCommon
  <2>2. CASE m = c
    BY <1>3, <2>2 DEF IsLongest, IsCommon
  <2>. QED
    BY <1>2, <2>1, <2>2
<1>5. ASSUME NEW N, IsCommon(edges, N, i, j) PROVE Cardinality(N) <= m
  <2>1. Cardinality(N) \in Nat
    BY <1>1, <1>5, CommonIsFinite
  <2>2. \A p \in N : p = <<p[1], p[2]>> /\ p[1] \in 1..i /\ p[2] \in 1..j
    BY <1>5 DEF IsCommon
  <2>3. CASE \A p \in N : p[1] # i
    <3>1. \A p \in N : p \in (1..(i - 1)) \X (1..j)
      BY <1>1, <2>2, <2>3
    <3>2. IsCommon(edges, N, i - 1, j)
      BY <1>5, <3>1 DEF IsCommon
    <3>3. Cardinality(N) <= b
      BY <3>2 DEF IsLongest
    <3>. QED
      BY <1>2, <2>1, <3>3
  <2>4. CASE \E x \in N : x[1] = i
    <3>1. PICK x \in N : x[1] = i
      BY <2>4
    <3>2. ASSUME NEW q \in N PROVE q[2] # j
      <4>1. CASE q = x
        BY <1>5, <2>2, <3>1, <4>1 DEF IsCommon
      <4>2. CASE q # x
        <5>1. \/ q[1] < x[1] /\ q[2] < x[2]
              \/ q[1] > x[1] /\ q[2] > x[2]
          BY <1>5, <4>2 DEF IsCommon
        <5>. QED
          BY <1>1, <2>2, <3>1, <5>1
      <4>. QED
        BY <4>1, <4>2
    <3>3. \A p \in N : p \in (1..i) \X (1..(j - 1))
      BY <1>1, <2>2, <3>2
    <3>4. IsCommon(edges, N, i, j - 1)
      BY <1>5, <3>3 DEF IsCommon
    <3>5. Cardinality(N) <= c
      BY <3>4 DEF IsLongest
    <3>. QED
      BY <1>2, <2>1, <3>5
  <2>. QED
    BY <2>3, <2>4
<1>. QED
  BY <1>4, <1>5 DEF IsLongest, m

\* What is worked out for items i and j from what was for those before.
Entry(edges, T, i, j) == IF i = 0 \/ j = 0  THEN 0
                         ELSE IF edges[i][j] THEN T[<<i - 1, j - 1>>] + 1
                         ELSE Max({T[<<i - 1, j>>], T[<<i, j - 1>>]})

\* The table of all of them, numbers of items i and j up to m and w.
IsTable(T, edges, m, w) == T = [p \in (0..m) \X (0..w) |-> Entry(edges, T, p[1], p[2])]

\* What is worked out from longest ones is the length of a longest one.
LEMMA EntryIsLongest ==
  ASSUME NEW edges, NEW T, NEW i \in Nat, NEW j \in Nat,
         \A k, l \in Nat : k <= i /\ l <= j /\ k + l < i + j =>
            T[<<k, l>>] \in Nat /\ IsLongest(edges, T[<<k, l>>], k, l)
  PROVE  Entry(edges, T, i, j) \in Nat /\ IsLongest(edges, Entry(edges, T, i, j), i, j)
<1>1. CASE i = 0 \/ j = 0
  BY <1>1, LongestOfNone DEF Entry
<1>2. CASE i # 0 /\ j # 0
  <2>1. i \in Nat \ {0} /\ j \in Nat \ {0} /\ i - 1 \in Nat /\ j - 1 \in Nat
    BY <1>2
  <2>2. /\ T[<<i - 1, j - 1>>] \in Nat /\ IsLongest(edges, T[<<i - 1, j - 1>>], i - 1, j - 1)
        /\ T[<<i - 1, j>>] \in Nat /\ IsLongest(edges, T[<<i - 1, j>>], i - 1, j)
        /\ T[<<i, j - 1>>] \in Nat /\ IsLongest(edges, T[<<i, j - 1>>], i, j - 1)
    BY <2>1
  <2>3. CASE edges[i][j]
    BY <1>2, <2>1, <2>2, <2>3, LongestWithBoth DEF Entry
  <2>4. CASE ~edges[i][j]
    <3>1. Entry(edges, T, i, j) = Max({T[<<i - 1, j>>], T[<<i, j - 1>>]})
      BY <1>2, <2>4 DEF Entry
    <3>2. Max({T[<<i - 1, j>>], T[<<i, j - 1>>]}) \in Nat
      BY <2>2, MaxOfTwo
    <3>3. IsLongest(edges, Max({T[<<i - 1, j>>], T[<<i, j - 1>>]}), i, j)
      BY <2>1, <2>2, <2>4, LongestWithout
    <3>. QED
      BY <3>1, <3>2, <3>3
  <2>. QED
    BY <2>3, <2>4
<1>. QED
  BY <1>1, <1>2

\* There is a longest one for all numbers of items.
LEMMA LongestExists ==
  ASSUME NEW edges, NEW i \in Nat, NEW j \in Nat
  PROVE  \E n \in Nat : IsLongest(edges, n, i, j)
<1>. DEFINE Has(k, l) == \E n \in Nat : IsLongest(edges, n, k, l)
            Bad == {s \in Nat : \E k, l \in Nat : k + l = s /\ ~Has(k, l)}
<1>1. SUFFICES ASSUME Bad # {} PROVE FALSE
  <2>. HIDE DEF Has
  <2>1. ASSUME Bad = {} PROVE Has(i, j)
    BY <2>1, i + j \in Nat
  <2>. QED
    BY <2>1 DEF Has
<1>2. PICK s \in Bad : \A r \in Bad : s <= r
  <2>1. Bad \in SUBSET Nat
    OBVIOUS
  <2>. HIDE DEF Bad
  <2>. QED
    BY <1>1, <2>1, Least
<1>3. PICK x \in Nat, y \in Nat : x + y = s /\ ~Has(x, y)
  OBVIOUS
<1>4. ASSUME NEW k \in Nat, NEW l \in Nat, k + l < x + y PROVE Has(k, l)
  <2>1. k + l \in Nat /\ ~(s <= k + l)
    BY <1>3, <1>4
  <2>. QED
    BY <1>2, <2>1
<1>. HIDE DEF Has, Bad
<1>. DEFINE T == [p \in (0..x) \X (0..y) |-> CHOOSE n \in Nat : IsLongest(edges, n, p[1], p[2])]
<1>5. ASSUME NEW k \in Nat, NEW l \in Nat, k <= x, l <= y, k + l < x + y
      PROVE  T[<<k, l>>] \in Nat /\ IsLongest(edges, T[<<k, l>>], k, l)
  <2>1. T[<<k, l>>] = CHOOSE n \in Nat : IsLongest(edges, n, k, l)
    BY <1>5
  <2>2. \E n \in Nat : IsLongest(edges, n, k, l)
    BY <1>4, <1>5 DEF Has
  <2>. HIDE DEF T
  <2>. QED
    BY <2>1, <2>2
<1>. HIDE DEF T
<1>6. Entry(edges, T, x, y) \in Nat /\ IsLongest(edges, Entry(edges, T, x, y), x, y)
  BY <1>5, EntryIsLongest
<1>. QED
  BY <1>3, <1>6 DEF Has

\* What fits the recursion is what is longest.
LEMMA TableIsLongest ==
  ASSUME NEW edges, NEW T, NEW m \in Nat, NEW w \in Nat, IsTable(T, edges, m, w), NEW i \in 0..m, NEW j \in 0..w
  PROVE  T[<<i, j>>] \in Nat /\ IsLongest(edges, T[<<i, j>>], i, j)
<1>. DEFINE Has(k, l) == T[<<k, l>>] \in Nat /\ IsLongest(edges, T[<<k, l>>], k, l)
            Bad == {s \in Nat : \E k \in 0..m, l \in 0..w : k + l = s /\ ~Has(k, l)}
<1>1. SUFFICES ASSUME Bad # {} PROVE FALSE
  <2>. HIDE DEF Has
  <2>1. ASSUME Bad = {} PROVE Has(i, j)
    BY <2>1, i + j \in Nat
  <2>. QED
    BY <2>1 DEF Has
<1>2. PICK s \in Bad : \A r \in Bad : s <= r
  <2>1. Bad \in SUBSET Nat
    OBVIOUS
  <2>. HIDE DEF Bad
  <2>. QED
    BY <1>1, <2>1, Least
<1>3. PICK x \in 0..m, y \in 0..w : x + y = s /\ ~Has(x, y)
  OBVIOUS
<1>4. ASSUME NEW k \in Nat, NEW l \in Nat, k <= x, l <= y, k + l < x + y PROVE Has(k, l)
  <2>1. k + l \in Nat /\ ~(s <= k + l) /\ k \in 0..m /\ l \in 0..w
    BY <1>3, <1>4
  <2>. HIDE DEF Has
  <2>. QED
    BY <1>2, <2>1
<1>5. Entry(edges, T, x, y) \in Nat /\ IsLongest(edges, Entry(edges, T, x, y), x, y)
  <2>1. x \in Nat /\ y \in Nat
    OBVIOUS
  <2>2. \A k, l \in Nat : k <= x /\ l <= y /\ k + l < x + y =>
           T[<<k, l>>] \in Nat /\ IsLongest(edges, T[<<k, l>>], k, l)
    BY <1>4
  <2>. HIDE DEF Has, Bad
  <2>. QED
    BY <2>1, <2>2, EntryIsLongest
<1>6. T[<<x, y>>] = Entry(edges, T, x, y)
  BY DEF IsTable
<1>. QED
  BY <1>3, <1>5, <1>6

\* Something fits it.
LEMMA TableExists ==
  ASSUME NEW edges, NEW m \in Nat, NEW w \in Nat
  PROVE  \E T : IsTable(T, edges, m, w)
<1>. DEFINE T == [p \in (0..m) \X (0..w) |-> CHOOSE n \in Nat : IsLongest(edges, n, p[1], p[2])]
<1>1. ASSUME NEW k \in 0..m, NEW l \in 0..w
      PROVE  T[<<k, l>>] \in Nat /\ IsLongest(edges, T[<<k, l>>], k, l)
  <2>1. T[<<k, l>>] = CHOOSE n \in Nat : IsLongest(edges, n, k, l)
    OBVIOUS
  <2>2. \E n \in Nat : IsLongest(edges, n, k, l)
    BY LongestExists
  <2>. HIDE DEF T
  <2>. QED
    BY <2>1, <2>2
<1>2. T = [p \in (0..m) \X (0..w) |-> T[p]]
  OBVIOUS
<1>. HIDE DEF T
<1>3. ASSUME NEW i \in 0..m, NEW j \in 0..w PROVE T[<<i, j>>] = Entry(edges, T, i, j)
  <2>1. \A k, l \in Nat : k <= i /\ l <= j => k \in 0..m /\ l \in 0..w
    OBVIOUS
  <2>2. Entry(edges, T, i, j) \in Nat /\ IsLongest(edges, Entry(edges, T, i, j), i, j)
    BY <1>1, <2>1, EntryIsLongest
  <2>3. \A n, k \in Nat : IsLongest(edges, n, i, j) /\ IsLongest(edges, k, i, j) => n = k
    BY DEF IsLongest
  <2>. QED
    BY <1>1, <2>2, <2>3
<1>4. \A p \in (0..m) \X (0..w) : T[p] = Entry(edges, T, p[1], p[2])
  BY <1>3
<1>. QED
  BY <1>2, <1>4 DEF IsTable

\* The dynamic program computes the length of a longest common subsequence, of
\* lists of any length and for whatever the judge says of their items
\* (semantic_lcs_length).
THEOREM LcsIsLongest ==
  ASSUME NEW edges \in Seq(Seq(BOOLEAN))
  PROVE  /\ LcsLength(edges) \in Nat
         /\ IsLongest(edges, LcsLength(edges), Len(edges), Width(edges))
<1>. DEFINE m == Len(edges)
            w == Width(edges)
            T == CHOOSE T : IsTable(T, edges, m, w)
<1>1. m \in Nat
  BY LenProperties
<1>2. w \in Nat
  <2>1. CASE edges = << >>
    BY <2>1 DEF Width
  <2>2. CASE edges # << >>
    <3>1. edges[1] \in Seq(BOOLEAN)
      BY <2>2, <1>1, EmptySeq, ElementOfSeq
    <3>. QED
      BY <2>2, <3>1, LenProperties DEF Width
  <2>. QED
    BY <2>1, <2>2
<1>3. LcsLength(edges) = T[<<m, w>>]
  BY DEF LcsLength, IsTable, Entry
<1>. HIDE DEF m, w
<1>4. IsTable(T, edges, m, w)
  BY <1>1, <1>2, TableExists
<1>. HIDE DEF T
<1>5. m \in 0..m /\ w \in 0..w
  BY <1>1, <1>2
<1>6. T[<<m, w>>] \in Nat /\ IsLongest(edges, T[<<m, w>>], m, w)
  BY <1>1, <1>2, <1>4, <1>5, TableIsLongest
<1>. QED
  BY <1>3, <1>6 DEF m, w

=============================================================================
