---------------------------- MODULE AgentFinance ----------------------------
(***************************************************************************)
(* The whole on-chain system: the finance wrapper (AgentFinance.sol) over  *)
(* the RFQ, auction, liquidity and credit contracts.  Its two functions    *)
(* read an accepted quote or a winning bid, reserve the lender's liquidity *)
(* in Aqua and open the credit line, all in one transaction; the borrower  *)
(* may equally call RFQ.executeRFQ or Auction.settleAuction, which reserve *)
(* nothing, or the wrapper again: it does not write the status.            *)
(***************************************************************************)
EXTENDS RFQ, Auction, AquaIntegration

VARIABLES
    rfqToCreditLine,        \* rfqId -> creditLineId, 0 when there is none
    auctionToCreditLine,    \* auctionId -> creditLineId, 0 when there is none
    createdFromRFQ,         \* the CreditLineCreatedFromRFQ events
    createdFromAuction      \* the CreditLineCreatedFromAuction events

financeVars == <<rfqToCreditLine, auctionToCreditLine, createdFromRFQ, createdFromAuction>>

vars == <<now, creditVars, rfqVars, auctionVars, aquaVars, financeVars>>

FinanceTypeOK ==
    /\ rfqToCreditLine \in [RfqIds -> 0 .. MaxLines]
    /\ auctionToCreditLine \in [AuctionIds -> 0 .. MaxLines]
    /\ createdFromRFQ \subseteq RfqIds \X (1 .. MaxLines)
    /\ createdFromAuction \subseteq AuctionIds \X (1 .. MaxLines)

FinanceInit ==
    /\ rfqToCreditLine = [r \in RfqIds |-> 0]
    /\ auctionToCreditLine = [a \in AuctionIds |-> 0]
    /\ createdFromRFQ = {}
    /\ createdFromAuction = {}

(* Quote i is the first that carries the accepted flag. *)
FirstAccepted(rfqId, i) ==
    /\ i \in DOMAIN quotes[rfqId]
    /\ quotes[rfqId][i].accepted
    /\ \A j \in 1 .. i - 1 : ~quotes[rfqId][j].accepted

(* Mutant: the link names the line that will be opened next. *)
ExecuteRFQWithAquaNextId(sender, rfqId) ==
    /\ rfqs[rfqId].borrower = sender
    /\ rfqs[rfqId].status = "Closed"
    /\ now + rfqs[rfqId].duration \in Uint
    /\ \E i \in DOMAIN quotes[rfqId] :
          LET quote == quotes[rfqId][i]
          IN  /\ FirstAccepted(rfqId, i)
              /\ ReserveLiquidity(quote.lender, quote.limit)
              /\ OpenCreditLine(rfqs[rfqId].borrower, quote.lender, quote.limit,
                                quote.rateBps, now + rfqs[rfqId].duration)
    /\ rfqToCreditLine' = [rfqToCreditLine EXCEPT ![rfqId] = creditLineCounter + 1]
    /\ createdFromRFQ' = createdFromRFQ \cup {<<rfqId, creditLineCounter>>}
    /\ UNCHANGED <<now, rfqVars, auctionVars, auctionToCreditLine, createdFromAuction>>

ExecuteRFQWithAqua(sender, rfqId) ==
    /\ rfqs[rfqId].borrower = sender
    /\ rfqs[rfqId].status = "Closed"
    /\ now + rfqs[rfqId].duration \in Uint
    /\ \E i \in DOMAIN quotes[rfqId] :
          LET quote == quotes[rfqId][i]
          IN  /\ FirstAccepted(rfqId, i)
              /\ quote.lender # NoOne
              /\ ReserveLiquidity(quote.lender, quote.limit)
              /\ OpenCreditLine(rfqs[rfqId].borrower, quote.lender, quote.limit,
                                quote.rateBps, now + rfqs[rfqId].duration)
    /\ rfqToCreditLine' = [rfqToCreditLine EXCEPT ![rfqId] = creditLineCounter]
    /\ createdFromRFQ' = createdFromRFQ \cup {<<rfqId, creditLineCounter>>}
    /\ UNCHANGED <<now, rfqVars, auctionVars, auctionToCreditLine, createdFromAuction>>

(* Mutant: the amount asked for is reserved, not the limit of the bid. *)
SettleAuctionWithAquaAmount(sender, auctionId) ==
    /\ auctions[auctionId].borrower = sender
    /\ auctions[auctionId].status = "Finalized"
    /\ now + auctions[auctionId].duration \in Uint
    /\ \E i \in DOMAIN bids[auctionId] :
          LET bid == bids[auctionId][i]
          IN  /\ FirstWinning(auctionId, i)
              /\ ReserveLiquidity(winningBid[auctionId], auctions[auctionId].amount)
              /\ OpenCreditLine(auctions[auctionId].borrower, winningBid[auctionId],
                                bid.limit, bid.rateBps,
                                now + auctions[auctionId].duration)
    /\ auctionToCreditLine' = [auctionToCreditLine EXCEPT ![auctionId] = creditLineCounter]
    /\ createdFromAuction' = createdFromAuction \cup {<<auctionId, creditLineCounter>>}
    /\ UNCHANGED <<now, rfqVars, auctionVars, rfqToCreditLine, createdFromRFQ>>

SettleAuctionWithAqua(sender, auctionId) ==
    /\ auctions[auctionId].borrower = sender
    /\ auctions[auctionId].status = "Finalized"
    /\ winningBid[auctionId] # NoOne
    /\ now + auctions[auctionId].duration \in Uint
    /\ \E i \in DOMAIN bids[auctionId] :
          LET bid == bids[auctionId][i]
          IN  /\ FirstWinning(auctionId, i)
              /\ bid.lender # NoOne
              /\ ReserveLiquidity(winningBid[auctionId], bid.limit)
              /\ OpenCreditLine(auctions[auctionId].borrower, winningBid[auctionId],
                                bid.limit, bid.rateBps,
                                now + auctions[auctionId].duration)
    /\ auctionToCreditLine' = [auctionToCreditLine EXCEPT ![auctionId] = creditLineCounter]
    /\ createdFromAuction' = createdFromAuction \cup {<<auctionId, creditLineCounter>>}
    /\ UNCHANGED <<now, rfqVars, auctionVars, rfqToCreditLine, createdFromRFQ>>

Init == TimeInit /\ CreditInit /\ RFQInit /\ AuctionInit /\ AquaInit /\ FinanceInit

(* The transactions on one contract leave the others alone. *)
Next ==
    \/ \E sender \in Users :
          \/ \E rfqId \in RfqIds : ExecuteRFQWithAqua(sender, rfqId)
          \/ \E auctionId \in AuctionIds : SettleAuctionWithAqua(sender, auctionId)
    \/ RFQNext /\ UNCHANGED <<now, auctionVars, aquaVars, financeVars>>
    \/ AuctionNext /\ UNCHANGED <<now, rfqVars, aquaVars, financeVars>>
    \/ AquaNext /\ UNCHANGED <<now, creditVars, rfqVars, auctionVars, financeVars>>
    \/ CreditNext /\ UNCHANGED <<now, rfqVars, auctionVars, aquaVars, financeVars>>
    \/ Tick /\ UNCHANGED <<creditVars, rfqVars, auctionVars, aquaVars, financeVars>>

Spec == Init /\ [][Next]_vars

-----------------------------------------------------------------------------

TypeOK ==
    /\ TimeTypeOK
    /\ CreditTypeOK
    /\ RFQTypeOK
    /\ AuctionTypeOK
    /\ AquaTypeOK
    /\ FinanceTypeOK

(***************************************************************************)
(* The wrapper's links are right: an RFQ or an auction has a link exactly  *)
(* when the wrapper created a line for it, the link is to the latest such  *)
(* line, every such line is between the borrower and the lender of the     *)
(* accepted quote or the winning bid on its terms (the same that           *)
(* executeRFQ and settleAuction use), and no line is of two requests.      *)
(***************************************************************************)
IsLatest(id, events, request) ==
    IF \E e \in events : e[1] = request
    THEN /\ <<request, id>> \in events
         /\ \A e \in events : e[1] = request => e[2] <= id
    ELSE id = 0

LinksRight ==
    /\ \A r \in RfqIds : IsLatest(rfqToCreditLine[r], createdFromRFQ, r)
    /\ \A a \in AuctionIds : IsLatest(auctionToCreditLine[a], createdFromAuction, a)
    /\ \A e \in createdFromRFQ :
          /\ e[2] \in DOMAIN creditLines
          /\ MatchesQuote(creditLines[e[2]], e[1], StoredQuote(e[1]))
    /\ \A e \in createdFromAuction :
          /\ e[2] \in DOMAIN creditLines
          /\ PaysWinner(creditLines[e[2]], e[1])

RfqLines == rfqExecuted \cup createdFromRFQ
AuctionLines == auctionSettled \cup createdFromAuction

LinesDisjoint ==
    /\ \A e, f \in RfqLines : e[2] = f[2] => e = f
    /\ \A e, f \in AuctionLines : e[2] = f[2] => e = f
    /\ \A e \in RfqLines, f \in AuctionLines : e[2] # f[2]

(***************************************************************************)
(* The wrapper's reservation and its credit line stand or fall together:   *)
(* in every transaction but a direct reserveLiquidity or releaseLiquidity  *)
(* (which anyone may send, and which touches no line), each lender's       *)
(* reserved liquidity grows by exactly the sum of the limits of the lines  *)
(* the wrapper opened on that lender in it.  In particular the other ways  *)
(* to open a line, and drawing and repaying, reserve and release nothing.  *)
(***************************************************************************)
AquaLines(lender) ==
    {id \in DOMAIN creditLines :
        /\ creditLines[id].lender = lender
        /\ \E e \in createdFromRFQ \cup createdFromAuction : e[2] = id}

TotalLimit(ids) == MapThenSumSet(LAMBDA id : creditLines[id].limit, ids)

Opened(lender) == TotalLimit(AquaLines(lender))

ReserveWithLines ==
    \/ DirectReserveNext /\ UNCHANGED <<creditVars, financeVars>>
    \/ \A u \in Users :
          liquidityReserved'[u] - liquidityReserved[u] = Opened(u)' - Opened(u)

ReservedAsOpened == [][ReserveWithLines]_vars

(***************************************************************************)
(* AgentFinance.sol:67 says that its line is opened with the "same logic   *)
(* as RFQ.executeRFQ", which opens one line per RFQ: no RFQ and no auction *)
(* has two credit lines.                                                   *)
(***************************************************************************)
OneLinePerRequest ==
    /\ \A e, f \in RfqLines : e[1] = f[1] => e = f
    /\ \A e, f \in AuctionLines : e[1] = f[1] => e = f
=============================================================================
