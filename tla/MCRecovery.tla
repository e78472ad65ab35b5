----------------------------- MODULE MCRecovery -----------------------------
(***************************************************************************)
(* Two runs, three questions of which the base inference left two open, a  *)
(* document of two pages that OCR may rank either way, and two responses:  *)
(* one that a window with page 1 in it makes complete and any other makes  *)
(* out of scope, and one that a completeness check might take for an       *)
(* answer.                                                                 *)
(***************************************************************************)
EXTENDS Recovery, TLC

Array(items) == [type |-> "array", text |-> "...", reads |-> "list", items |-> items]

Object(answer, pages, abstain) == [json |-> "object", schema |-> TRUE, answer |-> answer,
                                   pages |-> pages, abstain |-> abstain]

MCResponses == {Object(Array(<<"a", "">>), <<1>>, FALSE),
                Object(Array(<<"">>), <<2>>, FALSE)}

MCOrder  == <<2, 1, 3>>
MCFormat == (1 :> "ordered_list" @@ 2 :> "unordered_list" @@ 3 :> "ordered_list")
MCBase   == (1 :> Object(Array(<< >>), << >>, TRUE)
          @@ 2 :> Object(Array(<<"">>), <<2>>, FALSE)
          @@ 3 :> Object(Array(<<"b">>), <<2, 1, 2>>, FALSE))

\* page_search_order over every ranking of up to six pages: each window once,
\* no page left out, the best four first together and each of them alone, no
\* window beyond what one request can carry.  Looked at before any page is read.
MaxPages == 6
SearchOrderIsComplete ==
  ocr = [p \in PageSet |-> None] =>
  \A n \in 1..MaxPages : \A ranked \in {f \in [1..n -> 1..n] : IsInjective(f)} :
    /\ CoversPages(ranked)
    /\ IsCompleteSearch(SearchOrder(ranked), ranked)
=============================================================================
