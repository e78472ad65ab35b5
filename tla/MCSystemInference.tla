------------------------- MODULE MCSystemInference -------------------------
(***************************************************************************)
(* Three runs compete for the answers of two questions; model calls can    *)
(* disagree, two preparations can disagree about the inputs, and one       *)
(* interruption may hit anywhere.  No symmetry: the run checks liveness.   *)
(***************************************************************************)
EXTENDS SystemInference
=============================================================================
