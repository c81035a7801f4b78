----------------------------- MODULE MCPollChains -----------------------------
(***************************************************************************)
(* A small instance of PollChains.                                         *)
(***************************************************************************)
EXTENDS PollChains
==============================================================================
