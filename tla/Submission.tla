----------------------------- MODULE Submission -----------------------------
(***************************************************************************)
(* lava/evaluation/submission.py: the CSV of the competition is made only  *)
(* of a complete set of predictions, and is validated again as a file.  A  *)
(* prediction row is [id, answer, pages]: its answer is the items of a     *)
(* list or the one text of a scalar, its pages a sequence.                 *)
(***************************************************************************)
EXTENDS ReaderOutput, SequencesExt

\* _answer: nonempty, and so is every item of a list.
AnswerFits(a, format) == IF format \in ListFormats
                         THEN a # << >> /\ \A i \in DOMAIN a : a[i] # Blank
                         ELSE Len(a) = 1 /\ a[1] # Blank

\* _pages: a nonempty list of pages of the document, none of them twice.
PagesFit(pages, count) == /\ pages # << >>
                          /\ ToSet(pages) \subseteq 1..count
                          /\ IsInjective(pages)

\* A fault: nobody looks for missing or repeated questions.
CoversSome(rows, order) == {rows[i].id : i \in DOMAIN rows} \subseteq ToSet(order)

\* Prediction IDs are unique, and are those of the template.
Covers(rows, order) == /\ \A i, j \in DOMAIN rows : rows[i].id = rows[j].id => i = j
                       /\ {rows[i].id : i \in DOMAIN rows} = ToSet(order)

RowOf(rows, id) == CHOOSE r \in ToSet(rows) : r.id = id

Accepted(rows, order, format, count) ==
  /\ Covers(rows, order)
  /\ \A id \in ToSet(order) : /\ AnswerFits(RowOf(rows, id).answer, format[id])
                              /\ PagesFit(RowOf(rows, id).pages, count[id])

\* build_submission: the rows in the order of the template, whatever order the
\* predictions came in.  Asked for only when they are Accepted.
BuildSubmission(rows, order) ==
  [i \in DOMAIN order |-> [id     |-> order[i],
                           answer |-> RowOf(rows, order[i]).answer,
                           pages  |-> Ascending(ToSet(RowOf(rows, order[i]).pages))]]

\* validate_submission_csv, which knows nothing of how the file was made.
ValidCsv(csv, order, format, count) ==
  /\ Len(csv) = Len(order)
  /\ \A i \in DOMAIN csv : /\ csv[i].id = order[i]
                           /\ AnswerFits(csv[i].answer, format[csv[i].id])
                           /\ PagesFit(csv[i].pages, count[csv[i].id])
=============================================================================
