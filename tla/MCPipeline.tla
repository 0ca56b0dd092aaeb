----------------------------- MODULE MCPipeline -----------------------------
(* The pipeline, small. *)
EXTENDS Pipeline
CONSTANTS btc
=============================================================================
