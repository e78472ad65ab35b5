------------------------------ MODULE Ordering ------------------------------
(***************************************************************************)
(* A finite set put in order, as Python's sorted does it.  (The sorts of   *)
(* the community modules rest on TLC's SortSeq, of which the prover has no  *)
(* definition.)                                                            *)
(***************************************************************************)
EXTENDS Integers, FiniteSets

\* Place i is of the item that i - 1 others precede; precedes is a set of pairs.
Ordered(S, precedes) ==
  [i \in 1..Cardinality(S) |->
     CHOOSE x \in S : Cardinality({y \in S : <<y, x>> \in precedes}) = i - 1]

Ascending(S) == Ordered(S, {p \in S \X S : p[1] < p[2]})
=============================================================================
