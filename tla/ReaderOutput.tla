---------------------------- MODULE ReaderOutput ----------------------------
(***************************************************************************)
(* parse_reader_response of lava/readers/parsing.py: from what the model   *)
(* said to a prediction.  A response is abstracted to what the parser      *)
(* tells apart: how far its JSON can be read, whether the object has the   *)
(* four fields with their types, and the value of each.  Texts are         *)
(* strings.                                                                *)
(***************************************************************************)
EXTENDS Ordering, Sequences

\* Every text that is blank after strip().
Blank == ""

\* The answer formats, and those whose answer is a list.
ListFormats == {"ordered_list", "unordered_list"}
Formats     == ListFormats \cup {"string", "number"}

\* How far _first_json_object and json.loads get with a response.
Reads == {"object", "missing_json_object", "unterminated_json_object", "invalid_json"}

\* The value of "answer": its JSON type, what str() shows of it, and what a
\* second json.loads finds in it when it is a string.
AnswerValues(Texts) ==
  [type : {"string", "number"}, text : Texts, reads : {"text", "scalar", "list", "object"},
   items : {<< >>}]
    \cup [type : {"string", "array"}, text : Texts, reads : {"list"}, items : Seq(Texts)]

NonBlank(items) == LET kept == Ascending({i \in DOMAIN items : items[i] # Blank}) IN
                   [k \in DOMAIN kept |-> items[kept[k]]]

\* _canonical_answer for a list format: a string that is not JSON is a list
\* of one; one that reads as anything else than an array is refused.
ListItems(v) == IF v.type = "string" /\ v.reads = "text" THEN <<v.text>> ELSE v.items

WrongType(v, format) ==
  IF format \in ListFormats
    THEN v.type # "array" /\ ~(v.type = "string" /\ v.reads \in {"text", "list"})
    ELSE v.type = "array"

\* A fault: blank items are kept.
KeepBlankItems(v, format) == IF format \in ListFormats THEN ListItems(v) ELSE <<v.text>>

\* The canonical answer: the items of a list, or the one text of a scalar.
CanonicalAnswer(v, format) == IF format \in ListFormats THEN NonBlank(ListItems(v)) ELSE <<v.text>>

\* answer in {"", "[]"}
EmptyAnswer(a, format) == IF format \in ListFormats THEN a = << >> ELSE a[1] \in {Blank, "[]"}

Pages(r) == {r.pages[i] : i \in DOMAIN r.pages}

\* Why a response is refused, in the order the parser looks; "none" if it is not.
ParserError(r, format, allowed) ==
  LET answer == CanonicalAnswer(r.answer, format) IN
  CASE r.json # "object"               -> r.json
    [] ~r.schema                       -> "schema_validation_failed"
    [] \E p \in Pages(r) : p < 1       -> "invalid_pages"
    [] ~(Pages(r) \subseteq allowed)   -> "out_of_scope_page"
    [] WrongType(r.answer, format)     -> "wrong_answer_type"
    [] /\ r.abstain
       /\ \/ ~EmptyAnswer(answer, format)
          \/ Pages(r) # {}             -> "invalid_abstention"
    [] OTHER                           -> "none"

\* What validate_prediction makes of a refused response: a failure that is
\* counted, not an exception.
Failure(error) == [valid |-> FALSE, abstain |-> TRUE, answer |-> << >>, pages |-> {}, error |-> error]

\* The prediction: sorted pages without repetition are a set.
Prediction(r, format, allowed) ==
  LET error == ParserError(r, format, allowed) IN
  IF error # "none" THEN Failure(error)
  ELSE [valid   |-> TRUE,
        abstain |-> r.abstain,
        answer  |-> CanonicalAnswer(r.answer, format),
        pages   |-> Pages(r),
        error   |-> "none"]
=============================================================================
