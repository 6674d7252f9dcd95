----------------------------- MODULE MCMcpRuns ------------------------------
(* Two runs, a reader, a crash. *)
EXTENDS McpRuns
=============================================================================
