---------------------------- MODULE RequestOffers ----------------------------
(***************************************************************************)
(* What the refinement mappings of RFQ and Auction share: a quote, a bid   *)
(* and a credit line all carry an offer of FinancingRequest.               *)
(***************************************************************************)
EXTENDS EVM

CONSTANT NoDeal

OfferOf(q) == [lender |-> q.lender, rateBps |-> q.rateBps, limit |-> q.limit]

OfferSet == [lender : Users, rateBps : Uint, limit : Uint]

ASSUME NoDealAssumption == NoDeal \notin OfferSet
=============================================================================
