----------------------------- MODULE PageSearch -----------------------------
(***************************************************************************)
(* The order in which the pages of one document are looked at: the ranking *)
(* of lava/retrieval/lexical.py and the windows that the recovery of       *)
(* unanswered questions tries one after the other.  Scores are numbers: how *)
(* BM25 computes them is left out, how they order pages is not.            *)
(***************************************************************************)
EXTENDS Ordering, Sequences, SequencesExt, FiniteSetsExt

\* The pages of a strong joint context, and of each later batch.
Batch == 4

\* BM25Index.rank: best score first, ties by page number.
Better(score) == {p \in (DOMAIN score) \X (DOMAIN score) :
                    \/ score[p[1]] > score[p[2]]
                    \/ score[p[1]] = score[p[2]] /\ p[1] < p[2]}

Rank(score) == Ordered(DOMAIN score, Better(score))

\* page_search_order refuses any other ranking.
CoversPages(ranked) == ToSet(ranked) = 1..Len(ranked)

Top(ranked, n) == SubSeq(ranked, 1, Min({n, Len(ranked)}))

\* A page with the ones before and after it.
Neighbours(p, count) == Max({1, p - 1})..Min({count, p + 1})

\* Batches after the first one: ranked[4:8], ranked[8:12], ...
Batches(ranked) ==
  [i \in 1..((Len(ranked) - 1) \div Batch) |->
     ToSet(SubSeq(ranked, Batch * i + 1, Min({Batch * (i + 1), Len(ranked)})))]

Singles(ranked) == [i \in DOMAIN ranked |-> {ranked[i]}]

\* A fault: the tail of a long document is never looked at.
CandidatesWithoutTail(ranked) ==
  LET top == Top(ranked, Batch) IN
  <<ToSet(top)>> \o [i \in DOMAIN Top(ranked, 2) |-> Neighbours(ranked[i], Len(ranked))]
                 \o Singles(top)

\* Joint context, the neighbourhoods of the two best pages, the best pages one
\* by one, and then the rest of the document.
Candidates(ranked) ==
  LET top == Top(ranked, Batch) IN
  <<ToSet(top)>> \o [i \in DOMAIN Top(ranked, 2) |-> Neighbours(ranked[i], Len(ranked))]
                 \o Singles(top)
                 \o Batches(ranked)

\* The items of a sequence, each at its first place only.
Distinct(s) ==
  LET first == Ascending({i \in DOMAIN s : \A j \in 1..(i - 1) : s[j] # s[i]}) IN
  [i \in DOMAIN first |-> s[first[i]]]

\* page_search_order: each window once, at its first place.
SearchOrder(ranked) == Distinct(Candidates(ranked))

\* select_pages: the best pages within the budget, in document order.
SelectPages(ranked, budget) == ToSet(Top(ranked, budget))

\* What page_search_order promises of a ranking: each window once, no page left
\* out, the best four first together and each of them alone, no window empty or
\* beyond what one request can carry.
IsCompleteSearch(w, ranked) ==
  /\ UNION ToSet(w) = ToSet(ranked)
  /\ IsInjective(w)
  /\ w[1] = SelectPages(ranked, Batch)
  /\ \A p \in w[1] : {p} \in ToSet(w)
  /\ \A v \in ToSet(w) : v # {} /\ Cardinality(v) <= Batch
=============================================================================
