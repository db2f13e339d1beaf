----------------------------- MODULE MCMcpCall -----------------------------
(* Small instances of McpCall: requests on the loop, nodes in a pool of two *)
(* threads, and a chain of three models.                                    *)
EXTENDS McpCall

CONSTANTS a, b, c, d, haiku, global, nova

MCFallbacks == <<global, nova>>
=============================================================================
