-------------------------- MODULE MCSystemCommand --------------------------
(***************************************************************************)
(* Two files; a replacement of the same size and one of another size; a    *)
(* listing in one page, and one that repeats a page token.  Publishers are *)
(* interchangeable: the command and the operator start any that is idle.   *)
(***************************************************************************)
EXTENDS SystemCommand, TLC

TheFiles    == <<"test", "train">>
TheContents == <<"c1", "c2", "c3">>
TheSplit    == [f \in {"test", "train"} |-> IF f = "train" THEN "system" ELSE "export"]
TheSizes    == [c \in {"c1", "c2", "c3"} |-> IF c = "c3" THEN 2 ELSE 1]
Page(names, next) == [names |-> names, next |-> next]
TheChains   == {<<Page({"test", "train"}, "end")>>,
                <<Page({"test"}, "t1"), Page({}, "t1"), Page({"train"}, "end")>>}
TheLimits   == {0, 1}
AnyPublisher == Permutations(Publishers)

\* One publication or export by hand; and heartbeats meet further runs only,
\* since the log shares no state with what else may be disturbed.
Bounded ==
  /\ byHand < 2
  /\ Beats > 0 => byHand + sync.started + Changes + sources + (edits - 1) = 0
=============================================================================
