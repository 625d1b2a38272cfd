---------------------------- MODULE RFQ_Request ----------------------------
(***************************************************************************)
(* RFQ implements FinancingRequest.  The deal is read from the accepted    *)
(* flags, the funding from the credit lines that the RFQExecuted events    *)
(* name: the mapping goes through the flag, the stored index and the       *)
(* contract that keeps the lines, and they must agree.                     *)
(***************************************************************************)
EXTENDS RFQ, RequestOffers

RfqPhaseName == [Open |-> "open", Closed |-> "matched", Executed |-> "funded",
                 Cancelled |-> "cancelled"]

RfqPhaseOf(r) == IF rfqs[r].borrower = NoOne THEN "none" ELSE RfqPhaseName[rfqs[r].status]

RfqOffersOf(r) == {OfferOf(quotes[r][i]) : i \in DOMAIN quotes[r]}

RfqDealOf(r) ==
    IF Flagged(r) = {} THEN NoDeal
    ELSE OfferOf(quotes[r][CHOOSE i \in Flagged(r) : TRUE])

RfqPhase == [r \in RfqIds |-> RfqPhaseOf(r)]
RfqBorrower == [r \in RfqIds |-> rfqs[r].borrower]
RfqOffered == [r \in RfqIds |-> RfqOffersOf(r)]
RfqDeal == [r \in RfqIds |-> RfqDealOf(r)]

RfqFunded ==
    {[request |-> e[1],
      borrower |-> creditLines[e[2]].borrower,
      offer |-> OfferOf(creditLines[e[2]])] : e \in rfqExecuted}

RfqRequest == INSTANCE FinancingRequest WITH
    Requests <- RfqIds, Parties <- Users, Nobody <- NoOne,
    Offers <- OfferSet, NoDeal <- NoDeal,
    phase <- RfqPhase, borrower <- RfqBorrower, offered <- RfqOffered,
    deal <- RfqDeal, funded <- RfqFunded

(***************************************************************************)
(* Every behaviour of the RFQ contract is one of FinancingRequest.         *)
(***************************************************************************)
RfqKeepsPromise == RfqRequest!RequestSpec
=============================================================================
