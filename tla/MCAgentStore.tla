---------------------------- MODULE MCAgentStore ----------------------------
(* AgentStore on small instances: each handler is one request to the API,  *)
(* so their number bounds how much the operator does.                      *)
EXTENDS AgentStore, TLC

Symmetry ==
    Permutations(Handlers) \cup Permutations(Loops) \cup Permutations(Delegations)
=============================================================================
