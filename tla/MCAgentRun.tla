----------------------------- MODULE MCAgentRun -----------------------------
(* AgentRun on a small instance: every pair of tool calls, in one round or  *)
(* in two.                                                                 *)
EXTENDS AgentRun
=============================================================================
