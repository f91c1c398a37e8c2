---------------------------- MODULE MCAgentTurn ----------------------------
(***************************************************************************)
(* A turn of one action, hence two model calls of two slices each, two     *)
(* tool calls at once, and one message typed into it.                      *)
(***************************************************************************)
EXTENDS AgentTurn

CONSTANTS browse, app, wait
=============================================================================
