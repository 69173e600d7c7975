---------------------------- MODULE MCMcpServer ----------------------------
(***************************************************************************)
(* Requests with ids of their own, as JSON-RPC asks of a client.           *)
(***************************************************************************)
EXTENDS McpServer

CONSTANTS q1, q2

OwnIds == [c \in Calls |-> c]
=============================================================================
