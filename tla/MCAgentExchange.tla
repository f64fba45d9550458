-------------------------- MODULE MCAgentExchange ---------------------------
(* Instances of AgentExchange for TLC; clients are interchangeable.          *)
EXTENDS AgentExchange, TLC
Symmetry == Permutations(Clients)
=============================================================================
