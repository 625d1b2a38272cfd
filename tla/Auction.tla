------------------------------ MODULE Auction ------------------------------
(***************************************************************************)
(* The auction contract (Auction.sol) with the credit contract it calls.   *)
(* An id that was never written reads as ZeroAuction: Open, of nobody,     *)
(* with end time 0, so it takes no bids.                                   *)
(***************************************************************************)
EXTENDS X402Credit, BidOrder

CONSTANTS
    MaxAuctions,    \* bound: auctions created
    MaxBids         \* bound: bids placed in one auction

ASSUME AuctionBoundsAssumption == MaxAuctions \in Nat /\ MaxBids \in Nat

VARIABLES
    auctions,       \* auctionId -> AuctionData
    bids,           \* auctionId -> Bid[]
    winningBid,     \* auctionId -> the winning lender
    auctionCounter,
    auctionSettled  \* the AuctionSettled events <<auctionId, creditLineId>>

auctionVars == <<auctions, bids, winningBid, auctionCounter, auctionSettled>>

AuctionIds == 0 .. MaxAuctions - 1

AuctionStatus == {"Open", "Finalized", "Settled", "Cancelled"}

AuctionData == [borrower : Address, amount : Uint, duration : Uint, endTime : Uint,
                status : AuctionStatus, createdAt : Uint]

ZeroAuction == [borrower |-> NoOne, amount |-> 0, duration |-> 0, endTime |-> 0,
                status |-> "Open", createdAt |-> 0]

Bid == [lender : Users, rateBps : Uint, limit : Uint, timestamp : Uint,
        isWinning : BOOLEAN]

AuctionTypeOK ==
    /\ auctions \in [AuctionIds -> AuctionData]
    /\ bids \in [AuctionIds -> Seq(Bid)]
    /\ winningBid \in [AuctionIds -> Address]
    /\ auctionCounter \in 0 .. MaxAuctions
    /\ auctionSettled \subseteq AuctionIds \X (1 .. MaxLines)

AuctionInit ==
    /\ auctions = [a \in AuctionIds |-> ZeroAuction]
    /\ bids = [a \in AuctionIds |-> << >>]
    /\ winningBid = [a \in AuctionIds |-> NoOne]
    /\ auctionCounter = 0
    /\ auctionSettled = {}

CreateAuction(sender, amount, duration, biddingDuration) ==
    /\ auctionCounter < MaxAuctions
    /\ now + biddingDuration \in Uint
    /\ auctions' = [auctions EXCEPT ![auctionCounter] =
                       [borrower |-> sender, amount |-> amount,
                        duration |-> duration, endTime |-> now + biddingDuration,
                        status |-> "Open", createdAt |-> now]]
    /\ auctionCounter' = auctionCounter + 1
    /\ UNCHANGED <<bids, winningBid, auctionSettled, creditVars>>

(* Mutant: bids are taken at the end time too. *)
PlaceBidAtEnd(sender, auctionId, rateBps, limit) ==
    /\ auctions[auctionId].status = "Open"
    /\ now <= auctions[auctionId].endTime
    /\ auctions[auctionId].borrower # sender
    /\ Len(bids[auctionId]) < MaxBids
    /\ bids' = [bids EXCEPT ![auctionId] =
                   Append(@, [lender |-> sender, rateBps |-> rateBps, limit |-> limit,
                              timestamp |-> now, isWinning |-> FALSE])]
    /\ UNCHANGED <<auctions, winningBid, auctionCounter, auctionSettled, creditVars>>

PlaceBid(sender, auctionId, rateBps, limit) ==
    /\ auctions[auctionId].status = "Open"
    /\ now < auctions[auctionId].endTime
    /\ auctions[auctionId].borrower # sender
    /\ Len(bids[auctionId]) < MaxBids
    /\ bids' = [bids EXCEPT ![auctionId] =
                   Append(@, [lender |-> sender, rateBps |-> rateBps, limit |-> limit,
                              timestamp |-> now, isWinning |-> FALSE])]
    /\ UNCHANGED <<auctions, winningBid, auctionCounter, auctionSettled, creditVars>>

(* Mutant: among equal bids a later one may win. *)
FinalizeAuctionAnyTie(auctionId) ==
    /\ auctions[auctionId].status = "Open"
    /\ now >= auctions[auctionId].endTime
    /\ \E best \in DOMAIN bids[auctionId] :
          /\ \A j \in DOMAIN bids[auctionId] :
                ~Beats(bids[auctionId][j], bids[auctionId][best])
          /\ bids' = [bids EXCEPT ![auctionId][best].isWinning = TRUE]
          /\ winningBid' = [winningBid EXCEPT ![auctionId] = bids[auctionId][best].lender]
    /\ auctions' = [auctions EXCEPT ![auctionId].status = "Finalized"]
    /\ UNCHANGED <<auctionCounter, auctionSettled, creditVars>>

(* Anyone may finalize.  The loop that selects bid best is BestBidScan. *)
FinalizeAuction(auctionId) ==
    /\ auctions[auctionId].status = "Open"
    /\ now >= auctions[auctionId].endTime
    /\ bids[auctionId] # << >>
    /\ \E best \in DOMAIN bids[auctionId] :
          /\ IsBestBid(bids[auctionId], best)
          /\ bids' = [bids EXCEPT ![auctionId][best].isWinning = TRUE]
          /\ winningBid' = [winningBid EXCEPT ![auctionId] = bids[auctionId][best].lender]
    /\ auctions' = [auctions EXCEPT ![auctionId].status = "Finalized"]
    /\ UNCHANGED <<auctionCounter, auctionSettled, creditVars>>

(* Bid i is the first that carries the flag: the search loops of           *)
(* settleAuction and settleAuctionWithAqua stop at it.                     *)
FirstWinning(auctionId, i) ==
    /\ i \in DOMAIN bids[auctionId]
    /\ bids[auctionId][i].isWinning
    /\ \A j \in 1 .. i - 1 : ~bids[auctionId][j].isWinning

(* Mutants: the terms are those of the first bid; the status is not written. *)
SettleAuctionFirstBid(sender, auctionId) ==
    /\ auctions[auctionId].status = "Finalized"
    /\ auctions[auctionId].borrower = sender
    /\ now + auctions[auctionId].duration \in Uint
    /\ OpenCreditLine(auctions[auctionId].borrower, winningBid[auctionId],
                      bids[auctionId][1].limit, bids[auctionId][1].rateBps,
                      now + auctions[auctionId].duration)
    /\ auctions' = [auctions EXCEPT ![auctionId].status = "Settled"]
    /\ auctionSettled' = auctionSettled \cup {<<auctionId, creditLineCounter>>}
    /\ UNCHANGED <<bids, winningBid, auctionCounter>>

SettleAuctionRepeatable(sender, auctionId) ==
    /\ auctions[auctionId].status = "Finalized"
    /\ auctions[auctionId].borrower = sender
    /\ now + auctions[auctionId].duration \in Uint
    /\ \E i \in DOMAIN bids[auctionId] :
          /\ FirstWinning(auctionId, i)
          /\ OpenCreditLine(auctions[auctionId].borrower, winningBid[auctionId],
                            bids[auctionId][i].limit, bids[auctionId][i].rateBps,
                            now + auctions[auctionId].duration)
    /\ auctionSettled' = auctionSettled \cup {<<auctionId, creditLineCounter>>}
    /\ UNCHANGED <<auctions, bids, winningBid, auctionCounter>>

(* The lender comes from winningBid, limit and rate from the flagged bid.  *)
(* With no flagged bid the code would open a line on zero terms; here the  *)
(* step is then disabled, which BestBidWins shows to be no restriction: a  *)
(* Finalized auction has its flagged bid.                                  *)
SettleAuction(sender, auctionId) ==
    /\ auctions[auctionId].status = "Finalized"
    /\ auctions[auctionId].borrower = sender
    /\ now + auctions[auctionId].duration \in Uint
    /\ \E i \in DOMAIN bids[auctionId] :
          /\ FirstWinning(auctionId, i)
          /\ OpenCreditLine(auctions[auctionId].borrower, winningBid[auctionId],
                            bids[auctionId][i].limit, bids[auctionId][i].rateBps,
                            now + auctions[auctionId].duration)
    /\ auctions' = [auctions EXCEPT ![auctionId].status = "Settled"]
    /\ auctionSettled' = auctionSettled \cup {<<auctionId, creditLineCounter>>}
    /\ UNCHANGED <<bids, winningBid, auctionCounter>>

(* Mutant: an auction can be cancelled until it is settled. *)
CancelAuctionUntilSettled(sender, auctionId) ==
    /\ auctions[auctionId].borrower = sender
    /\ auctions[auctionId].status \in {"Open", "Finalized"}
    /\ auctions' = [auctions EXCEPT ![auctionId].status = "Cancelled"]
    /\ UNCHANGED <<bids, winningBid, auctionCounter, auctionSettled, creditVars>>

CancelAuction(sender, auctionId) ==
    /\ auctions[auctionId].borrower = sender
    /\ auctions[auctionId].status = "Open"
    /\ auctions' = [auctions EXCEPT ![auctionId].status = "Cancelled"]
    /\ UNCHANGED <<bids, winningBid, auctionCounter, auctionSettled, creditVars>>

(* Every transaction of the auction contract. *)
AuctionNext ==
    \/ \E sender \in Users :
          \/ \E amount \in Amounts, duration, biddingDuration \in Durations :
                CreateAuction(sender, amount, duration, biddingDuration)
          \/ \E auctionId \in AuctionIds :
                \/ \E rateBps \in Rates, limit \in Limits :
                      PlaceBid(sender, auctionId, rateBps, limit)
                \/ SettleAuction(sender, auctionId)
                \/ CancelAuction(sender, auctionId)
    \/ \E auctionId \in AuctionIds : FinalizeAuction(auctionId)

(* The auction contract on its chain, with the transactions others send to *)
(* the credit contract, and time.                                          *)
AuctionSystemInit == TimeInit /\ CreditInit /\ AuctionInit

AuctionSystemNext ==
    \/ AuctionNext /\ UNCHANGED now
    \/ CreditNext /\ UNCHANGED <<now, auctionVars>>
    \/ Tick /\ UNCHANGED <<creditVars, auctionVars>>

auctionSystemVars == <<now, creditVars, auctionVars>>

AuctionSpec == AuctionSystemInit /\ [][AuctionSystemNext]_auctionSystemVars

-----------------------------------------------------------------------------

AuctionSystemTypeOK == TimeTypeOK /\ CreditTypeOK /\ AuctionTypeOK

Winners(auctionId) == {i \in DOMAIN bids[auctionId] : bids[auctionId][i].isWinning}

(***************************************************************************)
(* The best bid wins, and the two records of the winner agree: after       *)
(* finalization exactly one bid is flagged, it is the best bid of the      *)
(* final book, and winningBid names its lender; before, none is flagged    *)
(* and winningBid is zero.  settleAuction combines the lender of the one   *)
(* record with the terms of the other.                                     *)
(***************************************************************************)
BestBidWins ==
    \A a \in AuctionIds :
        IF auctions[a].status \in {"Finalized", "Settled"}
        THEN \E i \in DOMAIN bids[a] :
                /\ Winners(a) = {i}
                /\ IsBestBid(bids[a], i)
                /\ winningBid[a] = bids[a][i].lender
        ELSE Winners(a) = {} /\ winningBid[a] = NoOne

(***************************************************************************)
(* Every bid was placed while its auction was running, after its creation  *)
(* and before its end time, and not by its borrower, although placeBid     *)
(* does not compare the id with auctionCounter; and no auction was decided *)
(* before its end time, while bids could still come.                       *)
(***************************************************************************)
BidsInWindow ==
    \A a \in AuctionIds :
        /\ \A i \in DOMAIN bids[a] :
              /\ a < auctionCounter
              /\ auctions[a].createdAt <= bids[a][i].timestamp
              /\ bids[a][i].timestamp < auctions[a].endTime
              /\ bids[a][i].lender # auctions[a].borrower
        /\ auctions[a].status \in {"Finalized", "Settled"} => auctions[a].endTime <= now

(***************************************************************************)
(* Settlement happens once and on the winner's terms: a settled auction    *)
(* has exactly one AuctionSettled event, no other auction has one, no two  *)
(* auctions share a line, and the line is between the borrower and the     *)
(* lender of the winning bid, at its limit and rate.                       *)
(***************************************************************************)
SettledLines(auctionId) == {id \in 1 .. MaxLines : <<auctionId, id>> \in auctionSettled}

PaysWinner(line, a) ==
    /\ line.borrower = auctions[a].borrower
    /\ \E i \in Winners(a) :
          /\ line.lender = bids[a][i].lender
          /\ line.limit = bids[a][i].limit
          /\ line.rateBps = bids[a][i].rateBps

SettledOnceAsWon ==
    /\ \A a \in AuctionIds : auctions[a].status = "Settled" <=> SettledLines(a) # {}
    /\ \A e \in auctionSettled :
          /\ e[2] \in DOMAIN creditLines
          /\ PaysWinner(creditLines[e[2]], e[1])
    /\ \A e, f \in auctionSettled : e[1] = f[1] \/ e[2] = f[2] => e = f

(***************************************************************************)
(* The winner is decided for good: once finalized, the book of bids, the   *)
(* winner and the end time of an auction never change, and it leaves       *)
(* Finalized only by settlement; while it is open, bids are only added.    *)
(***************************************************************************)
OutcomeKept ==
    \A a \in AuctionIds :
        /\ \A i \in DOMAIN bids[a] :
              [bids'[a][i] EXCEPT !.isWinning = FALSE] = [bids[a][i] EXCEPT !.isWinning = FALSE]
        /\ a < auctionCounter => auctions'[a].endTime = auctions[a].endTime
        /\ auctions[a].status # "Open" =>
              bids'[a] = bids[a] /\ winningBid'[a] = winningBid[a]
        /\ auctions[a].status = "Finalized" => auctions'[a].status \in {"Finalized", "Settled"}
        /\ auctions[a].status \in {"Settled", "Cancelled"} =>
              auctions'[a].status = auctions[a].status

OutcomeFixed == [][OutcomeKept]_auctionSystemVars
=============================================================================
