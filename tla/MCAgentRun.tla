----------------------------- MODULE MCAgentRun -----------------------------
(* AgentRun on small instances; the bounds are in the .cfg files. *)
EXTENDS AgentRun
=============================================================================
