---------------------------- MODULE MCSlotStore ----------------------------
(***************************************************************************)
(* Three processes that call read() and write() on one slot, over and      *)
(* over, with two values to disagree about.                                *)
(***************************************************************************)
EXTENDS SlotStore, TLC

Symmetry == Permutations(Procs) \cup Permutations(Values)
=============================================================================
