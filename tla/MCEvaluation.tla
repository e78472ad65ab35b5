---------------------------- MODULE MCEvaluation ----------------------------
(***************************************************************************)
(* Two evaluators, one control, and two questions: a number, and a list of *)
(* two items of which one was predicted, on a page that was not retrieved. *)
(* The control asks about the same pair as the number.                     *)
(*                                                                         *)
(* The protocol that fixes references and folds is frozen, and the models  *)
(* are locked to revisions, long before anything is evaluated; they share  *)
(* no file that changes with it: phase says which a behaviour is about.    *)
(***************************************************************************)
EXTENDS Evaluation, Protocol, Registry

VARIABLE phase

MCProbes     == <<[pair |-> <<"42", "43">>, expected |-> "NO"]>>
MCReferences == <<[format |-> "number", answer |-> <<"42">>, pages |-> {1}],
                  [format |-> "unordered_list", answer |-> <<"a", "b">>, pages |-> {1, 2}]>>
MCAvailable  == <<{1, 3}, {1}>>
MCFirst      == <<[valid |-> TRUE, answer |-> <<"43">>, pages |-> {1}],
                  [valid |-> TRUE, answer |-> <<"b">>, pages |-> {1}]>>
MCSecond     == <<[valid |-> TRUE, answer |-> <<"42">>, pages |-> {1}],
                  [valid |-> FALSE, answer |-> << >>, pages |-> {}]>>

\* Four questions of three documents, one with two pages; a replacement of two
\* questions, and one that is left with two documents.  A replaced document may
\* have a page less.
Asks(q, d, ps) == [question |-> q, document |-> d, pages |-> ps]
MCTrains == [t1 |-> <<Asks(4, 1, {1}), Asks(2, 2, {1, 2}), Asks(1, 3, {1}), Asks(3, 2, {2})>>,
             t2 |-> <<Asks(4, 1, {1}), Asks(2, 2, {1}), Asks(1, 3, {1}), Asks(3, 1, {1})>>,
             t3 |-> <<Asks(4, 1, {1}), Asks(2, 2, {1}), Asks(1, 2, {1}), Asks(3, 1, {1})>>]
MCScans  == <<[image |-> "i1"], [image |-> "i2"], [image |-> "i3"]>>
MCPageCount == <<2, 2, 1>>
MCObjects   == <<"image">>

\* Configurations that extend, drift from, and drop from each other, with two
\* candidates of a repository, in one of them for different licenses.
Reads(k, r, l, t) == [key |-> k, repository |-> r, license |-> l, terms |-> t]
MCConfigs == {<<Reads("a", "r1", "mit", 1)>>,
              <<Reads("a", "r1", "mit", 1), Reads("b", "r1", "mit", 1)>>,
              <<Reads("b", "r2", "mit", 1), Reads("a", "r1", "mit", 1), Reads("c", "r1", "mit", 2)>>,
              <<Reads("a", "r1", "mit", 2), Reads("b", "r1", "mit", 1)>>,
              <<Reads("a", "r1", "mit", 1), Reads("d", "r2", "mit", 1), Reads("e", "r2", "apache", 1)>>}

MCInit == /\ Init /\ FrozenOnce
          /\ \/ phase = "register" /\ Unresolved
             \/ /\ phase \in {"freeze", "evaluate"}
                /\ config = << >> /\ hub = << >> /\ Unlocked
MCNext == \/ phase = "evaluate" /\ Next /\ UNCHANGED <<phase, protocolVars, registryVars>>
          \/ phase = "freeze" /\ ProtocolNext /\ UNCHANGED <<phase, vars, registryVars>>
          \/ phase = "register" /\ RegistryNext /\ UNCHANGED <<phase, vars, protocolVars>>
          \/ /\ phase = "freeze" /\ starts = MaxStarts /\ \A h \in Hosts : host[h].pc = "idle"
             /\ UNCHANGED <<phase, vars, protocolVars, registryVars>>  \* nobody starts anything more
MCSpec == MCInit /\ [][MCNext]_<<phase, vars, protocolVars, registryVars>>

\* The most pairs with no two alike in what apart compares: a reference for
\* the two algorithms that looks at every choice of pairs.
Best(edges, apart(_, _)) ==
  LET all == {p \in (DOMAIN edges) \X (1..Width(edges)) : edges[p[1]][p[2]]}
      Some(k) == \E M \in kSubset(k, all) : \A p, q \in M : p = q \/ apart(p, q) IN
  CHOOSE k \in 0..Len(edges) : Some(k) /\ ~Some(k + 1)

\* Rankings of four pages: nothing but the relevant pages at the front gets
\* full precision, recall is full when no evidence is missing, and to move a
\* relevant page up by one place, past another, lowers no measure.
AtMost(a, b) == a[1] * b[2] <= b[1] * a[2]
RankingsAreOrdered ==
  \A ranked \in SetToSeqs(1..4), relevant \in SUBSET (1..4) \ {{}}, k \in 1..5 :
    LET score == RetrievalScore(ranked, relevant, k) IN
    /\ AtMost(<<1, 1>>, score.recall) <=> score.complete
    /\ AtMost(<<1, 1>>, score.precision) <=>
         \A r \in 1..Min({k, Cardinality(relevant)}) : ranked[r] \in relevant
    /\ \A r \in 1..3 : ranked[r] \notin relevant /\ ranked[r + 1] \in relevant =>
         LET up == RetrievalScore([ranked EXCEPT ![r] = ranked[r + 1], ![r + 1] = ranked[r]], relevant, k) IN
         /\ AtMost(score.recall, up.recall) /\ AtMost(score.first, up.first)
         /\ AtMost(score.precision, up.precision)
         /\ r <= k => ~AtMost(up.precision, score.precision)

\* Five questions over four documents in every way: folds are built when three
\* documents have questions, and then they are isolated.
FoldsAreIsolated ==
  \A of \in [1..5 -> 1..4] :
    LET records == [i \in 1..5 |-> Asks(6 - i, of[i], {1})]
        folds   == Folds(records) IN
    /\ folds.ok <=> Cardinality(DocumentsOf(records)) >= 3
    /\ folds.ok => Isolated(folds.nested, records)

\* The metrics compute the maximum matching and the longest common subsequence
\* on every matrix of up to three by three, and their scores go back to the rows
\* they belong to for every number of questions a two-digit name can carry;
\* rankings are measured and folds are built as their definitions ask
\* (maximum_bipartite_matches, semantic_lcs_length, score_predictions,
\* score_retrieval, build_nested_leave_one_document_out_folds).
MaxItems == 3
MaxQuestions == 99
AlgorithmsAreExact ==
  phase = "evaluate" /\ pc = [e \in Evaluators |-> "idle"] =>
    /\ \A m, n \in 1..MaxItems : \A edges \in [1..m -> [1..n -> BOOLEAN]] :
         /\ Matches(edges) = Best(edges, LAMBDA p, q : p[1] # q[1] /\ p[2] # q[2])
         /\ LcsLength(edges) = Best(edges, LAMBDA p, q : \/ p[1] < q[1] /\ p[2] < q[2]
                                                         \/ p[1] > q[1] /\ p[2] > q[2])
    /\ \A c \in {1, 16, MaxQuestions} : JoinedTo(c) = [i \in 1..c |-> i]
    /\ RankingsAreOrdered
    /\ FoldsAreIsolated
=============================================================================
