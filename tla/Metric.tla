------------------------------- MODULE Metric -------------------------------
(***************************************************************************)
(* lava/evaluation/matching.py, metric.py, retrieval.py and the part of    *)
(* system.py that puts scores and questions together.  edges[i][j] says    *)
(* that reference item i and predicted item j are equivalent to the judge. *)
(* A score is a fraction, the pair of its numerator and denominator.       *)
(***************************************************************************)
EXTENDS Integers, Sequences, FiniteSets, SequencesExt, FiniteSetsExt, Combinatorics

Width(edges) == IF edges = << >> THEN 0 ELSE Len(edges[1])

\* A matching in the making: partners (0: none) and the distances of the search.
States(edges) == [left  : [DOMAIN edges -> 0..Width(edges)],
                  right : [1..Width(edges) -> 0..Len(edges)],
                  dist  : [DOMAIN edges -> -1..Len(edges)]]

Unmatched(edges) == [left  |-> [l \in DOMAIN edges |-> 0],
                     right |-> [r \in 1..Width(edges) |-> 0],
                     dist  |-> [l \in DOMAIN edges |-> 0]]

Free(s) == {l \in DOMAIN s.left : s.left[l] = 0}

\* breadth_first_search: distances along alternating paths from the free items,
\* and whether one of the paths ends at a free partner.
Search(edges, s) ==
  LET layer[t \in States(edges), d \in Nat, found \in BOOLEAN] ==
        LET at    == {l \in DOMAIN edges : t.dist[l] = d}
            near  == {r \in 1..Width(edges) : \E l \in at : edges[l][r]}
            next  == {t.right[r] : r \in near} \ {0}
            fresh == {l \in next : t.dist[l] < 0}
            ends  == found \/ \E r \in near : t.right[r] = 0 IN
        IF at = {} THEN [s |-> t, found |-> found]
        ELSE layer[[t EXCEPT !.dist = [l \in DOMAIN edges |-> IF l \in fresh THEN d + 1 ELSE @[l]]],
                   d + 1, ends] IN
  layer[[s EXCEPT !.dist = [l \in DOMAIN edges |-> IF l \in Free(s) THEN 0 ELSE -1]], 0, FALSE]

Paired(s, l, r) == [s EXCEPT !.left[l] = r, !.right[r] = l]

\* depth_first_search from item: with the partners r, r + 1, ... of l still to try.
Augment(edges, s, item) ==
  LET from[t \in States(edges), l \in DOMAIN edges, r \in 1..(Width(edges) + 1)] ==
        IF r > Width(edges) THEN [ok |-> FALSE, s |-> [t EXCEPT !.dist[l] = -1]]
        ELSE IF ~edges[l][r] THEN from[t, l, r + 1]
        ELSE IF t.right[r] = 0 THEN [ok |-> TRUE, s |-> Paired(t, l, r)]
        ELSE IF t.dist[t.right[r]] # t.dist[l] + 1 THEN from[t, l, r + 1]
        ELSE LET deep == from[t, t.right[r], 1] IN
             IF deep.ok THEN [ok |-> TRUE, s |-> Paired(deep.s, l, r)] ELSE from[deep.s, l, r + 1] IN
  from[s, item, 1]

\* One round: an augmenting path from each item that is still free.
Round(edges, s) ==
  FoldLeft(LAMBDA t, l : IF t.left[l] = 0 THEN Augment(edges, t, l).s ELSE t, s, [l \in DOMAIN edges |-> l])

\* Rounds until no path is found.
Rounds(edges) ==
  LET after[s \in States(edges)] ==
        LET b == Search(edges, s) IN IF b.found THEN after[Round(edges, b.s)] ELSE s IN
  after[Unmatched(edges)]

\* A fault: one round only.
GreedyMatches(edges) ==
  Len(edges) - Cardinality(Free(Round(edges, Search(edges, Unmatched(edges)).s)))

\* maximum_bipartite_matches
Matches(edges) == Len(edges) - Cardinality(Free(Rounds(edges)))

\* semantic_lcs_length
LcsLength(edges) ==
  LET T[p \in (0..Len(edges)) \X (0..Width(edges))] ==
        LET i == p[1]
            j == p[2] IN
        IF i = 0 \/ j = 0  THEN 0
        ELSE IF edges[i][j] THEN T[<<i - 1, j - 1>>] + 1
        ELSE Max({T[<<i - 1, j>>], T[<<i, j - 1>>]}) IN
  T[<<Len(edges), Width(edges)>>]

-----------------------------------------------------------------------------
SetF1(gold, predicted) ==
  IF gold = {} /\ predicted = {} THEN <<1, 1>>
  ELSE <<2 * Cardinality(gold \cap predicted), Cardinality(gold) + Cardinality(predicted)>>

\* semantic_match_matrix, for what was said of each pair.
Matrix(gold, predicted, said) ==
  [i \in DOMAIN gold |-> [j \in DOMAIN predicted |-> said[<<gold[i], predicted[j]>>] = "YES"]]

UnorderedScore(gold, predicted, said) ==
  IF gold = << >> /\ predicted = << >> THEN <<1, 1>>
  ELSE <<IF << >> \in {gold, predicted} THEN 0 ELSE 2 * Matches(Matrix(gold, predicted, said)),
         Len(gold) + Len(predicted)>>

OrderedScore(gold, predicted, said) ==
  IF gold = << >> /\ predicted = << >> THEN <<1, 1>>
  ELSE <<LcsLength(Matrix(gold, predicted, said)), Max({Len(gold), Len(predicted)})>>

\* answer_score
AnswerScore(format, gold, predicted, said) ==
  CASE format = "unordered_list" -> UnorderedScore(gold, predicted, said)
    [] format = "ordered_list"   -> OrderedScore(gold, predicted, said)
    [] OTHER                     -> <<IF said[<<gold[1], predicted[1]>>] = "YES" THEN 1 ELSE 0, 1>>

\* The pairs answer_score asks the judge about, in the order it asks.
PairsOf(format, gold, predicted) ==
  IF format = "unordered_list" /\ << >> \in {gold, predicted} THEN << >>
  ELSE [k \in 1..(Len(gold) * Len(predicted)) |->
          <<gold[((k - 1) \div Len(predicted)) + 1], predicted[((k - 1) % Len(predicted)) + 1]>>]

Mean(a, b) == <<a[1] * b[2] + b[1] * a[2], 2 * a[2] * b[2]>>

\* score_predictions: why a question did not get full credit.
FailureCategory(valid, retrieved, answer, grounding) ==
  CASE ~valid                     -> "invalid_response"
    [] ~retrieved                 -> "missing_evidence"
    [] answer[1] < answer[2]      -> "answer_incomplete_or_incorrect"
    [] grounding[1] < grounding[2] -> "evidence_citation_incomplete"
    [] OTHER                      -> "full_credit"

-----------------------------------------------------------------------------
\* The ranks at most k at which a relevant page stands.
Hits(ranked, relevant, k) == {r \in DOMAIN ranked : r <= k /\ ranked[r] \in relevant}

\* Sum of the precisions at the hits, in parts of Len(ranked) factorial.
PrecisionSum(hits, parts) ==
  MapThenSumSet(LAMBDA r : (parts * Cardinality({h \in hits : h <= r})) \div r, hits)

\* A fault: the precisions are averaged over all relevant pages, reachable or not.
ScoreOverRelevant(ranked, relevant, k) ==
  LET hits  == Hits(ranked, relevant, k)
      parts == factorial[Len(ranked)] IN
  [recall    |-> <<Cardinality(hits), Cardinality(relevant)>>,
   complete  |-> relevant \subseteq ToSet(SubSeq(ranked, 1, Min({k, Len(ranked)}))),
   first     |-> IF hits = {} THEN <<0, 1>> ELSE <<1, Min(hits)>>,
   precision |-> <<PrecisionSum(hits, parts), parts * Cardinality(relevant)>>]

\* score_retrieval, but for the discounted gain, which is in logarithms.
RetrievalScore(ranked, relevant, k) ==
  LET hits  == Hits(ranked, relevant, k)
      parts == factorial[Len(ranked)] IN
  [recall    |-> <<Cardinality(hits), Cardinality(relevant)>>,
   complete  |-> relevant \subseteq ToSet(SubSeq(ranked, 1, Min({k, Len(ranked)}))),
   first     |-> IF hits = {} THEN <<0, 1>> ELSE <<1, Min(hits)>>,
   precision |-> <<PrecisionSum(hits, parts), parts * Min({Cardinality(relevant), k})>>]

-----------------------------------------------------------------------------
\* The public name of question i, as its digits: at least two of them.
PublicId(i) == IF i < 100 THEN <<i \div 10, i % 10>>
               ELSE <<i \div 100, (i \div 10) % 10, i % 10>>

\* Names are compared as strings, character by character.
Before(a, b) == \/ a # b /\ IsPrefix(a, b)
                \/ \E n \in DOMAIN a \cap DOMAIN b : a[n] < b[n] /\ \A k \in 1..(n - 1) : a[k] = b[k]

\* score_dataset answers in the order of the names, and score_predictions
\* joins the scores to its own rows by their position.
JoinedTo(count) == LET place(i) == Cardinality({k \in 1..count : Before(PublicId(k), PublicId(i))}) + 1 IN
                   [i \in 1..count |-> CHOOSE k \in 1..count : place(k) = i]
=============================================================================
