-------------------------- MODULE MCOracleResume --------------------------
(***************************************************************************)
(* Three jobs, so that an attempt is resumed and the resumed attempt is    *)
(* resumed again, over two questions; an interruption may hit anywhere.    *)
(***************************************************************************)
EXTENDS OracleResume, TLC

Symmetry == Permutations(Jobs) \cup Permutations(Generations)
=============================================================================
