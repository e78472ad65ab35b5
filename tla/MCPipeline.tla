----------------------------- MODULE MCPipeline -----------------------------
(***************************************************************************)
(* One launcher, invoked over and over for two attempts and detaching      *)
(* anywhere, with containers that answer two questions.                    *)
(***************************************************************************)
EXTENDS Pipeline
=============================================================================
