------------------------------- MODULE Splits -------------------------------
(***************************************************************************)
(* lava/evaluation/splits.py: nested folds, each of which holds one source *)
(* document out, and the validators that the builders call on their own    *)
(* result.  records is a sequence with at least a question and a document  *)
(* in each element; names of both are numbers, in sorting order.           *)
(***************************************************************************)
EXTENDS Ordering, Sequences, SequencesExt

DocumentsOf(records) == {records[i].document : i \in DOMAIN records}

QuestionsOf(records, documents) ==
  {records[i].question : i \in {j \in DOMAIN records : records[j].document \in documents}}

AllQuestions(records) == QuestionsOf(records, DocumentsOf(records))

\* One fold over documents, with the question names in sorted order.
Fold(records, documents, held) ==
  [held      |-> held,
   train     |-> documents \ {held},
   learned   |-> QuestionsOf(records, documents \ {held}),
   validated |-> Ascending(QuestionsOf(records, {held}))]

LeaveOneOut(records, documents) ==
  LET order == Ascending(documents) IN [n \in DOMAIN order |-> Fold(records, documents, order[n])]

\* A fault: the inner folds range over every document.
NestedInAll(records) ==
  LET outer == LeaveOneOut(records, DocumentsOf(records)) IN
  [n \in DOMAIN outer |-> [fold |-> outer[n], inner |-> LeaveOneOut(records, DocumentsOf(records))]]

\* build_nested_leave_one_document_out_folds, before its validation.
NestedFolds(records) ==
  LET outer == LeaveOneOut(records, DocumentsOf(records)) IN
  [n \in DOMAIN outer |->
     [fold |-> outer[n], inner |-> LeaveOneOut(records, outer[n].train)]]

-----------------------------------------------------------------------------
\* list names every member of S, each once.
Exactly(list, S) == ToSet(list) = S /\ Len(list) = Cardinality(S)

HeldOut(folds)   == [n \in DOMAIN folds |-> folds[n].held]
Validated(folds) == FlattenSeq([n \in DOMAIN folds |-> folds[n].validated])

\* The questions of a fold are split in two, and make up all.
Divided(fold, all) == /\ fold.learned \cap ToSet(fold.validated) = {}
                      /\ fold.learned \cup ToSet(fold.validated) = all

\* validate_folds.
ValidFolds(folds, records) ==
  /\ \A n \in DOMAIN folds : /\ folds[n].held \notin folds[n].train
                             /\ Divided(folds[n], AllQuestions(records))
  /\ Exactly(HeldOut(folds), DocumentsOf(records))
  /\ Exactly(Validated(folds), AllQuestions(records))

\* The checks of one inner fold of outer.
ValidInner(inner, outer, records) ==
  /\ outer.held \notin inner.train
  /\ inner.held \notin inner.train
  /\ inner.train \cup {inner.held} = outer.train
  /\ Divided(inner, outer.learned)
  /\ (inner.learned \cup ToSet(inner.validated)) \cap QuestionsOf(records, {outer.held}) = {}

\* validate_nested_folds.
ValidNested(nested, records) ==
  /\ ValidFolds([n \in DOMAIN nested |-> nested[n].fold], records)
  /\ \A n \in DOMAIN nested :
       LET outer == nested[n].fold
           inner == nested[n].inner IN
       /\ Exactly(HeldOut(inner), outer.train)
       /\ \A k \in DOMAIN inner : ValidInner(inner[k], outer, records)
       /\ Exactly(Validated(inner), outer.learned)

\* What the builder returns, or an error: duplicate names, too few documents.
Folds(records) ==
  LET nested == NestedFolds(records) IN
  [ok     |-> /\ Cardinality(AllQuestions(records)) = Len(records)
              /\ Cardinality(DocumentsOf(records)) >= 3
              /\ ValidNested(nested, records),
   nested |-> nested]

DocumentOf(records, q) == records[CHOOSE i \in DOMAIN records : records[i].question = q].document

\* Who learns and who is measured have no document in common.
Apart(fold, records) == /\ \A q \in fold.learned : DocumentOf(records, q) # fold.held
                        /\ \A q \in ToSet(fold.validated) : DocumentOf(records, q) = fold.held

Once(folds, all) == \A q \in all : Cardinality({n \in DOMAIN folds : q \in ToSet(folds[n].validated)}) = 1

\* What nested folds are for, said of the records alone: a model tuned on the
\* inner folds and trained on the outer one has met no question of a document
\* that it is measured on, and each question is measured once at each level.
Isolated(nested, records) ==
  /\ Once([n \in DOMAIN nested |-> nested[n].fold], AllQuestions(records))
  /\ \A n \in DOMAIN nested :
       LET outer == nested[n].fold
           inner == nested[n].inner IN
       /\ Apart(outer, records)
       /\ Once(inner, outer.learned)
       /\ \A k \in DOMAIN inner : /\ Apart(inner[k], records)
                                  /\ inner[k].learned \cup ToSet(inner[k].validated) \subseteq outer.learned
=============================================================================
