---------------------------- MODULE MCMcpQuery -----------------------------
(* McpQuery on one query, with the times of pollForAnswers in milliseconds. *)
EXTENDS McpQuery

CONSTANT q1

MCPollTimes == <<10, 20, 50, 100, 300, 700, 1000, 2000, 5000, 7000>>
=============================================================================
