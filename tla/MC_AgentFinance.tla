-------------------------- MODULE MC_AgentFinance --------------------------
(* Model-checking instance of AgentFinance: the symmetry of the accounts. *)
EXTENDS AgentFinance, TLC

UserSymmetry == Permutations(Users)
=============================================================================
