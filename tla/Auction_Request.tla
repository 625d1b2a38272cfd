-------------------------- MODULE Auction_Request --------------------------
(***************************************************************************)
(* Auction implements FinancingRequest.  The deal combines the lender kept *)
(* in winningBid with the terms of the flagged bid, the funding is read    *)
(* from the credit lines that the AuctionSettled events name.              *)
(***************************************************************************)
EXTENDS Auction, RequestOffers

AuctionPhaseName == [Open |-> "open", Finalized |-> "matched", Settled |-> "funded",
                     Cancelled |-> "cancelled"]

AuctionPhaseOf(a) ==
    IF auctions[a].borrower = NoOne THEN "none" ELSE AuctionPhaseName[auctions[a].status]

AuctionOffersOf(a) == {OfferOf(bids[a][i]) : i \in DOMAIN bids[a]}

AuctionDealOf(a) ==
    IF winningBid[a] = NoOne THEN NoDeal
    ELSE [OfferOf(bids[a][CHOOSE i \in Winners(a) : TRUE])
             EXCEPT !.lender = winningBid[a]]

AuctionPhase == [a \in AuctionIds |-> AuctionPhaseOf(a)]
AuctionBorrower == [a \in AuctionIds |-> auctions[a].borrower]
AuctionOffered == [a \in AuctionIds |-> AuctionOffersOf(a)]
AuctionDeal == [a \in AuctionIds |-> AuctionDealOf(a)]

AuctionFunded ==
    {[request |-> e[1],
      borrower |-> creditLines[e[2]].borrower,
      offer |-> OfferOf(creditLines[e[2]])] : e \in auctionSettled}

AuctionRequest == INSTANCE FinancingRequest WITH
    Requests <- AuctionIds, Parties <- Users, Nobody <- NoOne,
    Offers <- OfferSet, NoDeal <- NoDeal,
    phase <- AuctionPhase, borrower <- AuctionBorrower, offered <- AuctionOffered,
    deal <- AuctionDeal, funded <- AuctionFunded

(***************************************************************************)
(* Every behaviour of the auction contract is one of FinancingRequest.     *)
(***************************************************************************)
AuctionKeepsPromise == AuctionRequest!RequestSpec
=============================================================================
