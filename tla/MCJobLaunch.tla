---------------------------- MODULE MCJobLaunch ----------------------------
(***************************************************************************)
(* Two launchers at different commits and with different instance types,   *)
(* free to choose between two attempts, over and over.                     *)
(***************************************************************************)
EXTENDS JobLaunch, TLC

Symmetry == Permutations(Launchers) \cup Permutations(Sources) \cup Permutations(Instances)
=============================================================================
