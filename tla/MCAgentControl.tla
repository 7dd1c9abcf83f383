--------------------------- MODULE MCAgentControl ---------------------------
(* One Node with one Thread. *)
EXTENDS AgentControl
=============================================================================
