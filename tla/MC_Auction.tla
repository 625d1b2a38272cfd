----------------------------- MODULE MC_Auction -----------------------------
(* Model-checking instance of Auction_Request: the symmetry of the accounts. *)
EXTENDS Auction_Request, TLC

UserSymmetry == Permutations(Users)
=============================================================================
