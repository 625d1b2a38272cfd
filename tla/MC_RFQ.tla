------------------------------- MODULE MC_RFQ -------------------------------
(* Model-checking instance of RFQ_Request: the symmetry of the accounts. *)
EXTENDS RFQ_Request, TLC

UserSymmetry == Permutations(Users)
=============================================================================
