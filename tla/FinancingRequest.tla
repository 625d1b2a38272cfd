-------------------------- MODULE FinancingRequest --------------------------
(***************************************************************************)
(* What RFQ.sol and Auction.sol both promise a borrower, without their     *)
(* books, indices, flags and clocks: offers are collected for a request,   *)
(* one of them becomes the deal, and the deal, and nothing else, is funded *)
(* by a credit line, once.                                                 *)
(***************************************************************************)
CONSTANTS
    Requests,   \* request identifiers
    Parties,    \* borrowers and lenders
    Nobody,     \* the borrower of a request not made yet
    Offers,     \* what a lender may offer: records with a field lender
    NoDeal      \* no offer chosen

VARIABLES
    phase,      \* request -> "none", "open", "matched", "funded" or "cancelled"
    borrower,   \* request -> who made it
    offered,    \* request -> the offers made for it
    deal,       \* request -> the offer chosen
    funded      \* the fundings [request, borrower, offer] that happened

requestVars == <<phase, borrower, offered, deal, funded>>

RequestInit ==
    /\ phase = [r \in Requests |-> "none"]
    /\ borrower = [r \in Requests |-> Nobody]
    /\ offered = [r \in Requests |-> {}]
    /\ deal = [r \in Requests |-> NoDeal]
    /\ funded = {}

Make(r, p) ==
    /\ phase[r] = "none"
    /\ phase' = [phase EXCEPT ![r] = "open"]
    /\ borrower' = [borrower EXCEPT ![r] = p]
    /\ UNCHANGED <<offered, deal, funded>>

(* An offer may be made before the request. *)
Offer(r, offer) ==
    /\ phase[r] \in {"none", "open"}
    /\ offered' = [offered EXCEPT ![r] = @ \cup {offer}]
    /\ UNCHANGED <<phase, borrower, deal, funded>>

Match(r, offer) ==
    /\ phase[r] = "open"
    /\ offer \in offered[r]
    /\ phase' = [phase EXCEPT ![r] = "matched"]
    /\ deal' = [deal EXCEPT ![r] = offer]
    /\ UNCHANGED <<borrower, offered, funded>>

Fund(r) ==
    /\ phase[r] = "matched"
    /\ phase' = [phase EXCEPT ![r] = "funded"]
    /\ funded' = funded \cup {[request |-> r, borrower |-> borrower[r], offer |-> deal[r]]}
    /\ UNCHANGED <<borrower, offered, deal>>

Cancel(r) ==
    /\ phase[r] = "open"
    /\ phase' = [phase EXCEPT ![r] = "cancelled"]
    /\ UNCHANGED <<borrower, offered, deal, funded>>

RequestNext ==
    \E r \in Requests :
        \/ \E p \in Parties : Make(r, p)
        \/ \E offer \in Offers : Offer(r, offer) \/ Match(r, offer)
        \/ Fund(r)
        \/ Cancel(r)

RequestSpec == RequestInit /\ [][RequestNext]_requestVars

-----------------------------------------------------------------------------

(***************************************************************************)
(* The promise: whatever was funded was funded for its borrower with the   *)
(* offer chosen, which some lender made, and a request is funded at most   *)
(* once.                                                                   *)
(***************************************************************************)
FundedAsAgreed ==
    /\ \A f \in funded :
          /\ phase[f.request] = "funded"
          /\ f.borrower = borrower[f.request]
          /\ f.offer = deal[f.request]
          /\ f.offer \in offered[f.request]
    /\ \A f, g \in funded : f.request = g.request => f = g
=============================================================================
