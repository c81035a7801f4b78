---------------------------- MODULE MCAgentLifecycle ----------------------------
(* Model values for AgentLifecycle. *)
EXTENDS AgentLifecycle

CONSTANTS api, worker
==============================================================================
