--------------------------- MODULE Auction_proofs ---------------------------
(***************************************************************************)
(* Safety of the auction contract for any number of auctions, bids and     *)
(* accounts, and any passage of time.                                      *)
(***************************************************************************)
EXTENDS Auction_Request, X402Credit_proofs

(* An id is taken exactly when it is below the counter; the others still   *)
(* read as the zero record; no auction was created in the future.          *)
AuctionCreatedBelowCounter ==
    \A a \in AuctionIds :
        /\ auctions[a].borrower # NoOne <=> a < auctionCounter
        /\ a >= auctionCounter => auctions[a] = ZeroAuction
        /\ auctions[a].createdAt <= now

(* The contract's own part of the inductive invariant, without the lines.  *)
BidInv ==
    /\ AuctionTypeOK
    /\ AuctionCreatedBelowCounter
    /\ BidsInWindow
    /\ BestBidWins

AuctionInv == CreditInv /\ BidInv /\ SettledOnceAsWon

LEMMA AuctionIdType == AuctionIds \subseteq Nat
  BY AuctionBoundsAssumption DEF AuctionIds

LEMMA AuctionInitInv ==
  AuctionInit /\ TimeInit =>
     BidInv /\ auctionSettled = {} /\ \A a \in AuctionIds : auctions[a].status = "Open"
<1> SUFFICES ASSUME AuctionInit, TimeInit
             PROVE  BidInv /\ auctionSettled = {}
                    /\ \A a \in AuctionIds : auctions[a].status = "Open"
  OBVIOUS
<1> USE EvmAssumption, AuctionBoundsAssumption DEF Uint, AuctionIds
<1>1. \A a \in AuctionIds : /\ auctions[a] = ZeroAuction /\ bids[a] = << >>
                            /\ winningBid[a] = NoOne
  BY DEF AuctionInit
<1>2. AuctionTypeOK
  <2>1. ZeroAuction \in AuctionData
    BY DEF AuctionData, AuctionStatus, ZeroAuction, Address
  <2>2. << >> \in Seq(Bid) /\ NoOne \in Address
    BY DEF Address
  <2>3. auctionCounter \in 0 .. MaxAuctions
    BY DEF AuctionInit
  <2> QED
    BY <2>1, <2>2, <2>3 DEF AuctionInit, AuctionTypeOK
<1>3. AuctionCreatedBelowCounter
  BY <1>1 DEF AuctionInit, TimeInit, AuctionCreatedBelowCounter, ZeroAuction
<1>4. BidsInWindow
  BY <1>1 DEF BidsInWindow, ZeroAuction
<1>5. BestBidWins
  <2>1. \A a \in AuctionIds : Winners(a) = {}
    BY <1>1 DEF Winners
  <2> QED
    BY <1>1, <2>1 DEF BestBidWins, ZeroAuction
<1> QED
  BY <1>1, <1>2, <1>3, <1>4, <1>5 DEF BidInv, ZeroAuction, AuctionInit

(* What the winner of a finalized auction looks like. *)
LEMMA WinnerFacts ==
  ASSUME BidInv, NEW a \in AuctionIds, auctions[a].status \in {"Finalized", "Settled"}
  PROVE  \E i \in DOMAIN bids[a] :
            /\ Winners(a) = {i}
            /\ IsBestBid(bids[a], i)
            /\ winningBid[a] = bids[a][i].lender
            /\ bids[a][i] \in Bid
            /\ \A j \in DOMAIN bids[a] : FirstWinning(a, j) <=> j = i
<1>1. PICK i \in DOMAIN bids[a] : /\ Winners(a) = {i}
                                  /\ IsBestBid(bids[a], i)
                                  /\ winningBid[a] = bids[a][i].lender
  BY DEF BidInv, BestBidWins
<1>2. bids[a] \in Seq(Bid) /\ bids[a][i] \in Bid
  BY DEF BidInv, AuctionTypeOK
<1>3. \A j \in DOMAIN bids[a] : bids[a][j].isWinning <=> j = i
  BY <1>1 DEF Winners
<1>4. \A j \in DOMAIN bids[a] : FirstWinning(a, j) <=> j = i
  BY <1>2, <1>3 DEF FirstWinning
<1> QED
  BY <1>1, <1>2, <1>4

-----------------------------------------------------------------------------
(* One lemma per transaction: bids and winners stay consistent. *)

LEMMA CreateBids ==
  ASSUME BidInv, TimeTypeOK, UNCHANGED now, NEW u \in Users, NEW amount \in Uint,
         NEW duration \in Uint, NEW biddingDuration \in Uint,
         CreateAuction(u, amount, duration, biddingDuration)
  PROVE  BidInv' /\ OutcomeKept
<1> USE EvmAssumption, AuctionBoundsAssumption, CreditAssumption DEF AuctionIds
<1> DEFINE new == [borrower |-> u, amount |-> amount, duration |-> duration,
                   endTime |-> now + biddingDuration, status |-> "Open",
                   createdAt |-> now]
<1>1. /\ new \in AuctionData /\ new.borrower # NoOne /\ new.status = "Open"
      /\ new.createdAt = now
  BY DEF AuctionData, AuctionStatus, Address, TimeTypeOK, CreateAuction, Uint
<1>2. /\ auctions' = [auctions EXCEPT ![auctionCounter] = new]
      /\ auctionCounter \in AuctionIds /\ auctionCounter' = auctionCounter + 1
      /\ UNCHANGED <<bids, winningBid, auctionSettled>>
  BY DEF CreateAuction, BidInv, AuctionTypeOK
<1> HIDE DEF new
<1>3. AuctionTypeOK'
  BY <1>1, <1>2 DEF BidInv, AuctionTypeOK
<1>4. AuctionCreatedBelowCounter'
  BY <1>1, <1>2 DEF BidInv, AuctionTypeOK, AuctionCreatedBelowCounter, TimeTypeOK
<1>5. \A a \in AuctionIds : /\ a # auctionCounter => auctions'[a] = auctions[a]
                            /\ auctions'[auctionCounter] = new
                            /\ auctions[auctionCounter].status = "Open"
  BY <1>1, <1>2 DEF BidInv, AuctionTypeOK, AuctionCreatedBelowCounter, ZeroAuction
<1>6. BidsInWindow'
  <2>1. \A a \in AuctionIds : \A i \in DOMAIN bids'[a] :
           /\ a < auctionCounter'
           /\ auctions'[a].createdAt <= bids'[a][i].timestamp
           /\ bids'[a][i].timestamp < auctions'[a].endTime
           /\ bids'[a][i].lender # auctions'[a].borrower
    <3>1. \A a \in AuctionIds : \A i \in DOMAIN bids[a] :
             /\ a < auctionCounter
             /\ auctions[a].createdAt <= bids[a][i].timestamp
             /\ bids[a][i].timestamp < auctions[a].endTime
             /\ bids[a][i].lender # auctions[a].borrower
      BY DEF BidInv, BidsInWindow
    <3>2. auctionCounter \in Nat /\ \A a \in AuctionIds : a \in Nat
      BY <1>2
    <3>3. \A a \in AuctionIds : a < auctionCounter =>
             a < auctionCounter' /\ auctions'[a] = auctions[a]
      BY <1>2, <1>5, <3>2
    <3> QED
      BY <1>2, <3>1, <3>3
  <2>2. \A a \in AuctionIds : auctions'[a].status \in {"Finalized", "Settled"} =>
           auctions'[a].endTime <= now'
    BY <1>1, <1>5 DEF BidInv, BidsInWindow
  <2> QED
    BY <2>1, <2>2 DEF BidsInWindow
<1>7. BestBidWins'
  <2>1. \A a \in AuctionIds : auctions'[a].status = auctions[a].status
    BY <1>1, <1>5
  <2> QED
    BY <1>2, <2>1 DEF BidInv, BestBidWins, Winners
<1>8. OutcomeKept
  BY <1>1, <1>2, <1>5 DEF OutcomeKept, BidInv, AuctionTypeOK
<1> QED
  BY <1>3, <1>4, <1>6, <1>7, <1>8 DEF BidInv

LEMMA PlaceBids ==
  ASSUME BidInv, TimeTypeOK, UNCHANGED now, NEW u \in Users, NEW a \in AuctionIds,
         NEW rateBps \in Uint, NEW limit \in Uint, PlaceBid(u, a, rateBps, limit)
  PROVE  BidInv' /\ OutcomeKept
<1> USE DEF BidInv
<1> DEFINE new == [lender |-> u, rateBps |-> rateBps, limit |-> limit,
                   timestamp |-> now, isWinning |-> FALSE]
           n == Len(bids[a]) + 1
<1>1. new \in Bid /\ ~new.isWinning /\ new.timestamp = now /\ new.lender = u
  BY CreditAssumption, EvmAssumption DEF Bid, TimeTypeOK, Uint
<1>2. /\ bids' = [bids EXCEPT ![a] = Append(bids[a], new)]
      /\ auctions[a].status = "Open" /\ now < auctions[a].endTime
      /\ auctions[a].borrower # u
      /\ UNCHANGED <<auctions, winningBid, auctionCounter, auctionSettled>>
      /\ bids \in [AuctionIds -> Seq(Bid)] /\ bids[a] \in Seq(Bid)
  BY DEF PlaceBid, AuctionTypeOK
<1> HIDE DEF new
<1>3. /\ bids'[a] \in Seq(Bid)
      /\ bids'[a][n] = new
      /\ \A i \in DOMAIN bids[a] : bids'[a][i] = bids[a][i]
      /\ DOMAIN bids'[a] = DOMAIN bids[a] \cup {n}
      /\ \A b \in AuctionIds : b # a => bids'[b] = bids[b]
  BY <1>1, <1>2
<1> HIDE DEF n
<1>4. AuctionTypeOK'
  BY <1>2, <1>3 DEF AuctionTypeOK
<1>5. AuctionCreatedBelowCounter'
  BY <1>2 DEF AuctionCreatedBelowCounter
<1>6. a < auctionCounter /\ auctions[a].createdAt <= now
  <2>1. a >= auctionCounter => auctions[a].endTime = 0
    BY DEF AuctionCreatedBelowCounter, ZeroAuction
  <2>2. now > 0 /\ now \in Nat
    BY CreditAssumption DEF TimeTypeOK
  <2>3. a >= auctionCounter \/ a < auctionCounter
    BY AuctionIdType, AuctionBoundsAssumption DEF AuctionTypeOK
  <2> QED
    BY <1>2, <2>1, <2>2, <2>3 DEF AuctionCreatedBelowCounter
<1>7. BidsInWindow'
  BY <1>1, <1>2, <1>3, <1>6 DEF BidsInWindow
<1>8. BestBidWins'
  <2>1. Winners(a)' = Winners(a)
    BY <1>1, <1>3 DEF Winners
  <2>2. \A b \in AuctionIds : b # a => Winners(b)' = Winners(b)
    BY <1>3 DEF Winners
  <2>3. Winners(a) = {} /\ winningBid[a] = NoOne
    BY <1>2 DEF BestBidWins
  <2> DEFINE Decided(b) ==
                IF auctions[b].status \in {"Finalized", "Settled"}
                THEN \E i \in DOMAIN bids[b] :
                        /\ Winners(b) = {i}
                        /\ IsBestBid(bids[b], i)
                        /\ winningBid[b] = bids[b][i].lender
                ELSE Winners(b) = {} /\ winningBid[b] = NoOne
  <2>4. \A b \in AuctionIds : Decided(b)
    BY DEF BestBidWins
  <2>5. ASSUME NEW b \in AuctionIds, b # a PROVE Decided(b)'
    <3>1. bids'[b] = bids[b] /\ Winners(b)' = Winners(b)
      BY <1>3, <2>2, <2>5
    <3>2. auctions' = auctions /\ winningBid' = winningBid
      BY <1>2
    <3> QED
      BY <2>4, <3>1, <3>2
  <2>6. Decided(a)'
    BY <1>2, <2>1, <2>3
  <2>7. \A b \in AuctionIds : Decided(b)'
    BY <2>5, <2>6
  <2> QED
    BY <2>7 DEF BestBidWins
<1>9. OutcomeKept
  BY <1>2, <1>3 DEF OutcomeKept
<1> QED
  BY <1>4, <1>5, <1>7, <1>8, <1>9

(* The flag of a bid does not matter to the order of the bids. *)
LEMMA OrderIgnoresFlag ==
  ASSUME NEW p, NEW q, Len(q) = Len(p), NEW i,
         \A j \in 1 .. Len(p) : q[j].rateBps = p[j].rateBps /\ q[j].limit = p[j].limit,
         IsBestBid(p, i)
  PROVE  IsBestBid(q, i)
<1>1. i \in 1 .. Len(p)
  BY DEF IsBestBid, IsBestOf
<1>2. \A j, k \in 1 .. Len(p) : Beats(q[j], q[k]) <=> Beats(p[j], p[k])
  BY DEF Beats
<1> QED
  BY <1>1, <1>2 DEF IsBestBid, IsBestOf

(* Three transactions change the status of one auction; what they do to    *)
(* the other auctions and to its terms is the same.                        *)
LEMMA StatusChange ==
  ASSUME BidInv, NEW a \in AuctionIds, NEW status \in AuctionStatus,
         auctions' = [auctions EXCEPT ![a].status = status],
         a < auctionCounter, UNCHANGED <<auctionCounter, now>>
  PROVE  /\ auctions' \in [AuctionIds -> AuctionData]
         /\ auctions'[a].status = status
         /\ \A b \in AuctionIds : /\ b # a => auctions'[b] = auctions[b]
                                  /\ auctions'[b].borrower = auctions[b].borrower
                                  /\ auctions'[b].createdAt = auctions[b].createdAt
                                  /\ auctions'[b].endTime = auctions[b].endTime
         /\ AuctionCreatedBelowCounter'
<1>1. /\ auctions' \in [AuctionIds -> AuctionData]
      /\ auctions'[a].status = status
      /\ \A b \in AuctionIds : /\ b # a => auctions'[b] = auctions[b]
                               /\ auctions'[b].borrower = auctions[b].borrower
                               /\ auctions'[b].createdAt = auctions[b].createdAt
                               /\ auctions'[b].endTime = auctions[b].endTime
  BY DEF BidInv, AuctionTypeOK, AuctionData, AuctionStatus
<1>2. AuctionCreatedBelowCounter'
  BY <1>1, AuctionIdType, AuctionBoundsAssumption
     DEF BidInv, AuctionTypeOK, AuctionCreatedBelowCounter
<1> QED
  BY <1>1, <1>2

LEMMA Existing ==
  ASSUME BidInv, NEW a \in AuctionIds,
         auctions[a].borrower # NoOne \/ auctions[a].status # "Open" \/ bids[a] # << >>
  PROVE  a < auctionCounter
<1>1. a >= auctionCounter \/ a < auctionCounter
  BY AuctionIdType, AuctionBoundsAssumption DEF BidInv, AuctionTypeOK
<1>2. CASE bids[a] # << >>
  <2>1. bids[a] \in Seq(Bid)
    BY DEF BidInv, AuctionTypeOK
  <2>2. 1 \in DOMAIN bids[a]
    BY <1>2, <2>1
  <2> QED
    BY <2>2 DEF BidInv, BidsInWindow
<1>3. CASE auctions[a].borrower # NoOne \/ auctions[a].status # "Open"
  BY <1>1, <1>3 DEF BidInv, AuctionCreatedBelowCounter, ZeroAuction
<1> QED
  BY <1>2, <1>3

LEMMA FinalizeBids ==
  ASSUME BidInv, TimeTypeOK, UNCHANGED now, NEW a \in AuctionIds, FinalizeAuction(a)
  PROVE  BidInv' /\ OutcomeKept
<1> USE DEF BidInv
<1>1. PICK best \in DOMAIN bids[a] :
         /\ IsBestBid(bids[a], best)
         /\ bids' = [bids EXCEPT ![a][best].isWinning = TRUE]
         /\ winningBid' = [winningBid EXCEPT ![a] = bids[a][best].lender]
  BY DEF FinalizeAuction
<1>2. /\ auctions[a].status = "Open" /\ bids[a] # << >>
      /\ auctions' = [auctions EXCEPT ![a].status = "Finalized"]
      /\ UNCHANGED <<auctionCounter, auctionSettled>>
  BY DEF FinalizeAuction
<1> DEFINE new == [bids[a][best] EXCEPT !.isWinning = TRUE]
<1>3. bids[a] \in Seq(Bid) /\ bids \in [AuctionIds -> Seq(Bid)] /\ bids[a][best] \in Bid
  BY DEF AuctionTypeOK
<1>4. /\ new \in Bid /\ new.isWinning
      /\ new.lender = bids[a][best].lender /\ new.rateBps = bids[a][best].rateBps
      /\ new.limit = bids[a][best].limit /\ new.timestamp = bids[a][best].timestamp
  BY <1>3 DEF Bid
<1>14. [new EXCEPT !.isWinning = FALSE] = [bids[a][best] EXCEPT !.isWinning = FALSE]
  BY <1>3 DEF Bid
<1>5. bids' = [bids EXCEPT ![a] = [bids[a] EXCEPT ![best] = new]]
  BY <1>1, <1>3
<1> HIDE DEF new
<1>6. /\ bids'[a] \in Seq(Bid) /\ DOMAIN bids'[a] = DOMAIN bids[a]
      /\ Len(bids'[a]) = Len(bids[a])
      /\ bids'[a][best] = new
      /\ \A i \in DOMAIN bids[a] : i # best => bids'[a][i] = bids[a][i]
      /\ \A b \in AuctionIds : b # a => bids'[b] = bids[b]
  BY <1>3, <1>4, <1>5
<1>7. a < auctionCounter
  BY <1>2, Existing
<1>8. /\ auctions' \in [AuctionIds -> AuctionData]
      /\ auctions'[a].status = "Finalized"
      /\ \A b \in AuctionIds : /\ b # a => auctions'[b] = auctions[b]
                               /\ auctions'[b].borrower = auctions[b].borrower
                               /\ auctions'[b].createdAt = auctions[b].createdAt
                               /\ auctions'[b].endTime = auctions[b].endTime
      /\ AuctionCreatedBelowCounter'
  BY <1>2, <1>7, StatusChange DEF AuctionStatus
<1>9. /\ winningBid' \in [AuctionIds -> Address]
      /\ winningBid'[a] = bids[a][best].lender
      /\ \A b \in AuctionIds : b # a => winningBid'[b] = winningBid[b]
  BY <1>1, <1>3 DEF AuctionTypeOK, Bid, Address
<1>10. AuctionTypeOK'
  <2>1. bids' \in [AuctionIds -> Seq(Bid)]
    BY <1>3, <1>5, <1>6
  <2> QED
    BY <1>2, <1>8, <1>9, <2>1 DEF AuctionTypeOK
<1>11. BidsInWindow'
  <2>1. \A b \in AuctionIds : \A i \in DOMAIN bids'[b] :
           /\ b < auctionCounter'
           /\ auctions'[b].createdAt <= bids'[b][i].timestamp
           /\ bids'[b][i].timestamp < auctions'[b].endTime
           /\ bids'[b][i].lender # auctions'[b].borrower
    BY <1>2, <1>4, <1>6, <1>8 DEF BidsInWindow
  <2>2. auctions[a].endTime <= now
    BY EvmAssumption, CreditAssumption DEF FinalizeAuction, TimeTypeOK, AuctionTypeOK,
       AuctionData, Uint
  <2>3. \A b \in AuctionIds : auctions'[b].status \in {"Finalized", "Settled"} =>
           auctions'[b].endTime <= now'
    BY <1>8, <2>2 DEF BidsInWindow
  <2> QED
    BY <2>1, <2>3 DEF BidsInWindow
<1>12. BestBidWins'
  <2>1. Winners(a) = {}
    BY <1>2 DEF BestBidWins
  <2>2. Winners(a)' = {best}
    BY <1>4, <1>6, <2>1 DEF Winners
  <2>3. IsBestBid(bids'[a], best)
    <3>1. \A j \in 1 .. Len(bids[a]) : /\ bids'[a][j].rateBps = bids[a][j].rateBps
                                       /\ bids'[a][j].limit = bids[a][j].limit
      BY <1>3, <1>4, <1>6
    <3> QED
      BY <1>1, <1>6, <3>1, OrderIgnoresFlag
  <2>4. \A b \in AuctionIds : b # a => Winners(b)' = Winners(b)
    BY <1>6 DEF Winners
  <2> QED
    BY <1>4, <1>6, <1>8, <1>9, <2>2, <2>3, <2>4 DEF BestBidWins
<1>13. OutcomeKept
  <2>1. ASSUME NEW b \in AuctionIds, NEW i \in DOMAIN bids[b]
        PROVE  [bids'[b][i] EXCEPT !.isWinning = FALSE]
                  = [bids[b][i] EXCEPT !.isWinning = FALSE]
    <3>1. CASE b = a /\ i = best
      BY <1>6, <1>14, <3>1
    <3>2. CASE b # a \/ i # best
      <4>1. bids'[b][i] = bids[b][i]
        BY <1>6, <3>2
      <4> QED
        BY <4>1
    <3> QED
      BY <3>1, <3>2
  <2>2. \A b \in AuctionIds :
           /\ b < auctionCounter => auctions'[b].endTime = auctions[b].endTime
           /\ auctions[b].status # "Open" =>
                 /\ bids'[b] = bids[b] /\ winningBid'[b] = winningBid[b]
                 /\ auctions'[b].status = auctions[b].status
    BY <1>2, <1>6, <1>8, <1>9
  <2> QED
    BY <2>1, <2>2 DEF OutcomeKept
<1> QED
  BY <1>8, <1>10, <1>11, <1>12, <1>13

(* Settling and cancelling change the status and nothing else. *)
LEMMA StatusBids ==
  ASSUME BidInv, TimeTypeOK, UNCHANGED now, NEW a \in AuctionIds, NEW status \in AuctionStatus,
         auctions[a].borrower # NoOne,
         auctions' = [auctions EXCEPT ![a].status = status],
         \/ auctions[a].status = "Finalized" /\ status = "Settled"
         \/ auctions[a].status = "Open" /\ status = "Cancelled",
         UNCHANGED <<bids, winningBid, auctionCounter>>,
         (auctionSettled \subseteq AuctionIds \X (1 .. MaxLines))'
  PROVE  BidInv' /\ OutcomeKept
<1> USE DEF BidInv
<1>1. /\ auctions' \in [AuctionIds -> AuctionData]
      /\ auctions'[a].status = status
      /\ \A b \in AuctionIds : /\ b # a => auctions'[b] = auctions[b]
                               /\ auctions'[b].borrower = auctions[b].borrower
                               /\ auctions'[b].createdAt = auctions[b].createdAt
                               /\ auctions'[b].endTime = auctions[b].endTime
      /\ AuctionCreatedBelowCounter'
  BY Existing, StatusChange
<1>2. AuctionTypeOK'
  BY <1>1 DEF AuctionTypeOK
<1>3. BidsInWindow'
  BY <1>1 DEF BidsInWindow
<1>4. BestBidWins'
  <2>1. \A b \in AuctionIds : /\ Winners(b)' = Winners(b)
                              /\ auctions'[b].status \in {"Finalized", "Settled"}
                                   <=> auctions[b].status \in {"Finalized", "Settled"}
    BY <1>1 DEF Winners
  <2> QED
    BY <2>1 DEF BestBidWins
<1>5. OutcomeKept
  BY <1>1 DEF OutcomeKept
<1> QED
  BY <1>1, <1>2, <1>3, <1>4, <1>5

-----------------------------------------------------------------------------
(* The whole invariant. *)

LEMMA AuctionSystemInitInv == AuctionSystemInit => AuctionInv
<1> SUFFICES ASSUME AuctionSystemInit PROVE AuctionInv
  OBVIOUS
<1>1. CreditInv
  BY CreditInitInv DEF AuctionSystemInit
<1>2. BidInv /\ auctionSettled = {} /\ \A a \in AuctionIds : auctions[a].status = "Open"
  BY AuctionInitInv DEF AuctionSystemInit
<1>3. SettledOnceAsWon
  BY <1>2 DEF SettledOnceAsWon, SettledLines
<1> QED
  BY <1>1, <1>2, <1>3 DEF AuctionInv

(* A settled auction has its events, an event its settled auction. *)
LEMMA EventFacts ==
  ASSUME AuctionInv, NEW e \in auctionSettled
  PROVE  /\ e[1] \in AuctionIds /\ e[2] \in 1 .. MaxLines /\ e = <<e[1], e[2]>>
         /\ e[2] \in DOMAIN creditLines
         /\ auctions[e[1]].status = "Settled"
         /\ PaysWinner(creditLines[e[2]], e[1])
<1>1. e[1] \in AuctionIds /\ e[2] \in 1 .. MaxLines /\ e = <<e[1], e[2]>>
  BY DEF AuctionInv, BidInv, AuctionTypeOK
<1>2. auctions[e[1]].status = "Settled"
  BY <1>1 DEF AuctionInv, SettledOnceAsWon, SettledLines
<1> QED
  BY <1>1, <1>2 DEF AuctionInv, SettledOnceAsWon

(* A step that settles nothing keeps SettledOnceAsWon. *)
LEMMA NotSettling ==
  ASSUME AuctionInv, OutcomeKept, LinesKept, auctionSettled' = auctionSettled,
         \A a \in AuctionIds :
            /\ auctions[a].status # "Open" => auctions'[a].borrower = auctions[a].borrower
            /\ auctions'[a].status = "Settled" <=> auctions[a].status = "Settled"
  PROVE  SettledOnceAsWon'
<1>1. \A a \in AuctionIds : SettledLines(a)' = SettledLines(a)
  BY DEF SettledLines
<1>2. ASSUME NEW e \in auctionSettled
      PROVE  e[2] \in DOMAIN creditLines' /\ PaysWinner(creditLines[e[2]], e[1])'
  <2>1. /\ e[1] \in AuctionIds /\ e[2] \in DOMAIN creditLines
        /\ auctions[e[1]].status = "Settled" /\ PaysWinner(creditLines[e[2]], e[1])
    BY EventFacts
  <2>2. bids'[e[1]] = bids[e[1]] /\ auctions'[e[1]].borrower = auctions[e[1]].borrower
    BY <2>1 DEF OutcomeKept
  <2>3. Winners(e[1])' = Winners(e[1])
    BY <2>2 DEF Winners
  <2> QED
    BY <2>1, <2>2, <2>3 DEF PaysWinner, LinesKept
<1> QED
  BY <1>1, <1>2 DEF AuctionInv, SettledOnceAsWon

LEMMA SettleInv ==
  ASSUME AuctionInv, NEW u \in Users, NEW a \in AuctionIds, SettleAuction(u, a), UNCHANGED now
  PROVE  AuctionInv' /\ OutcomeKept /\ LineTermsKept /\ LinesKept
<1> DEFINE id == creditLineCounter
<1>1. /\ auctions[a].status = "Finalized" /\ auctions[a].borrower = u /\ u # NoOne
      /\ auctions' = [auctions EXCEPT ![a].status = "Settled"]
      /\ auctionSettled' = auctionSettled \cup {<<a, id>>}
      /\ UNCHANGED <<bids, winningBid, auctionCounter>>
      /\ now + auctions[a].duration \in Uint
  BY EvmAssumption DEF SettleAuction
<1>2. PICK i \in DOMAIN bids[a] :
         /\ Winners(a) = {i} /\ winningBid[a] = bids[a][i].lender
         /\ bids[a][i] \in Bid
         /\ \A j \in DOMAIN bids[a] : FirstWinning(a, j) <=> j = i
  BY <1>1, WinnerFacts DEF AuctionInv
<1> DEFINE b == bids[a][i]
<1>3. OpenCreditLine(u, winningBid[a], b.limit, b.rateBps, now + auctions[a].duration)
  BY <1>1, <1>2 DEF SettleAuction
<1>4. /\ CreditInv' /\ LinesKept /\ LineTermsKept
      /\ id \in 1 .. MaxLines /\ id \notin DOMAIN creditLines /\ id \in DOMAIN creditLines'
      /\ creditLines'[id].borrower = u /\ creditLines'[id].lender = b.lender
      /\ creditLines'[id].limit = b.limit /\ creditLines'[id].rateBps = b.rateBps
  <2>1. u \in Address /\ winningBid[a] \in Address /\ b.limit \in Uint /\ b.rateBps \in Uint
        /\ winningBid[a] = b.lender
    BY <1>2 DEF Bid, Address
  <2> QED
    BY <1>1, <1>3, <2>1, OpenInv DEF AuctionInv
<1> HIDE DEF id
<1>5. BidInv' /\ OutcomeKept
  <2>1. (auctionSettled \subseteq AuctionIds \X (1 .. MaxLines))'
    BY <1>1, <1>4 DEF AuctionInv, BidInv, AuctionTypeOK
  <2> QED
    BY <1>1, <2>1, StatusBids DEF AuctionInv, CreditInv, AuctionStatus
<1>6. \A e \in auctionSettled : /\ e[1] \in AuctionIds /\ e[2] \in 1 .. MaxLines
                                /\ e = <<e[1], e[2]>> /\ e[1] # a /\ e[2] # id
                                /\ e[2] \in DOMAIN creditLines
                                /\ PaysWinner(creditLines[e[2]], e[1])
  BY <1>1, <1>4, EventFacts
<1>7. /\ \A c \in AuctionIds : c # a => auctions'[c] = auctions[c]
      /\ auctions'[a].status = "Settled" /\ auctions'[a].borrower = u
  BY <1>1 DEF AuctionInv, BidInv, AuctionTypeOK, AuctionData
<1>8. \A c \in AuctionIds : Winners(c)' = Winners(c)
  BY <1>1 DEF Winners
<1>9. \A c \in AuctionIds : auctions'[c].status = "Settled" <=> SettledLines(c)' # {}
  <2>1. id \in SettledLines(a)'
    BY <1>1, <1>4 DEF SettledLines
  <2>2. \A c \in AuctionIds : c # a => SettledLines(c)' = SettledLines(c)
    BY <1>1 DEF SettledLines
  <2> QED
    BY <1>7, <2>1, <2>2 DEF AuctionInv, SettledOnceAsWon
<1>10. ASSUME NEW e \in auctionSettled'
       PROVE  e[2] \in DOMAIN creditLines' /\ PaysWinner(creditLines[e[2]], e[1])'
  <2>1. CASE e = <<a, id>>
    <3>1. e[1] = a /\ e[2] = id /\ i \in Winners(a)'
      BY <1>2, <1>8, <2>1
    <3>2. bids'[a][i] = b
      BY <1>1
    <3> HIDE DEF b
    <3> QED
      BY <1>4, <1>7, <3>1, <3>2 DEF PaysWinner
  <2>2. CASE e \in auctionSettled
    <3>1. /\ e[1] \in AuctionIds /\ e[1] # a /\ e[2] \in DOMAIN creditLines
          /\ PaysWinner(creditLines[e[2]], e[1])
      BY <1>6, <2>2
    <3>2. auctions'[e[1]] = auctions[e[1]] /\ bids' = bids /\ Winners(e[1])' = Winners(e[1])
      BY <1>1, <1>7, <1>8, <3>1
    <3> QED
      BY <1>4, <3>1, <3>2 DEF PaysWinner, LinesKept
  <2> QED
    BY <1>1, <2>1, <2>2
<1>11. \A e, f \in auctionSettled' : e[1] = f[1] \/ e[2] = f[2] => e = f
  <2>1. \A e, f \in auctionSettled : e[1] = f[1] \/ e[2] = f[2] => e = f
    BY DEF AuctionInv, SettledOnceAsWon
  <2> QED
    BY <1>1, <1>6, <2>1
<1> QED
  BY <1>4, <1>5, <1>9, <1>10, <1>11 DEF AuctionInv, SettledOnceAsWon

LEMMA AuctionNextInv ==
  ASSUME AuctionInv, AuctionNext, UNCHANGED now
  PROVE  AuctionInv' /\ OutcomeKept /\ LineTermsKept /\ LinesKept
<1> USE EvmAssumption, CreditAssumption, AuctionBoundsAssumption
<1>1. ASSUME NEW u \in Users, NEW amount \in Amounts, NEW duration \in Durations,
             NEW biddingDuration \in Durations,
             CreateAuction(u, amount, duration, biddingDuration)
      PROVE  AuctionInv' /\ OutcomeKept /\ LineTermsKept /\ LinesKept
  <2>1. amount \in Uint /\ duration \in Uint /\ biddingDuration \in Uint
    BY DEF Uint
  <2>2. BidInv' /\ OutcomeKept
    BY <1>1, <2>1, CreateBids DEF AuctionInv, CreditInv
  <2>3. CreditInv' /\ LinesKept /\ LineTermsKept
    BY <1>1, CreditStutterInv DEF CreateAuction, AuctionInv
  <2>4. \A a \in AuctionIds :
            /\ auctions[a].status # "Open" => auctions'[a] = auctions[a]
            /\ auctions'[a].status = "Settled" <=> auctions[a].status = "Settled"
    <3>1. /\ auctions' = [auctions EXCEPT ![auctionCounter] =
                             [borrower |-> u, amount |-> amount, duration |-> duration,
                              endTime |-> now + biddingDuration, status |-> "Open",
                              createdAt |-> now]]
          /\ auctionCounter \in AuctionIds
      BY <1>1 DEF CreateAuction, AuctionInv, BidInv, AuctionTypeOK, AuctionIds
    <3>2. auctions[auctionCounter].status = "Open"
      BY <3>1, AuctionIdType DEF AuctionInv, BidInv, AuctionCreatedBelowCounter, ZeroAuction
    <3> QED
      BY <3>1, <3>2 DEF AuctionInv, BidInv, AuctionTypeOK
  <2>5. SettledOnceAsWon'
    BY <1>1, <2>2, <2>3, <2>4, NotSettling DEF CreateAuction
  <2> QED
    BY <2>2, <2>3, <2>5 DEF AuctionInv
<1>2. ASSUME NEW u \in Users, NEW a \in AuctionIds, NEW rateBps \in Rates,
             NEW limit \in Limits, PlaceBid(u, a, rateBps, limit)
      PROVE  AuctionInv' /\ OutcomeKept /\ LineTermsKept /\ LinesKept
  <2>1. BidInv' /\ OutcomeKept
    BY <1>2, PlaceBids DEF AuctionInv, CreditInv
  <2>2. CreditInv' /\ LinesKept /\ LineTermsKept
    BY <1>2, CreditStutterInv DEF PlaceBid, AuctionInv
  <2>3. UNCHANGED <<auctions, auctionSettled>>
    BY <1>2 DEF PlaceBid
  <2>4. SettledOnceAsWon'
    BY <2>1, <2>2, <2>3, NotSettling
  <2> QED
    BY <2>1, <2>2, <2>4 DEF AuctionInv
<1>3. ASSUME NEW a \in AuctionIds, FinalizeAuction(a)
      PROVE  AuctionInv' /\ OutcomeKept /\ LineTermsKept /\ LinesKept
  <2>1. BidInv' /\ OutcomeKept
    BY <1>3, FinalizeBids DEF AuctionInv, CreditInv
  <2>2. CreditInv' /\ LinesKept /\ LineTermsKept
    BY <1>3, CreditStutterInv DEF FinalizeAuction, AuctionInv
  <2>3. /\ auctions' = [auctions EXCEPT ![a].status = "Finalized"]
        /\ auctions[a].status = "Open" /\ auctionSettled' = auctionSettled
    BY <1>3 DEF FinalizeAuction
  <2>4. \A c \in AuctionIds :
            /\ auctions'[c].borrower = auctions[c].borrower
            /\ auctions'[c].status = "Settled" <=> auctions[c].status = "Settled"
    BY <2>3 DEF AuctionInv, BidInv, AuctionTypeOK, AuctionData
  <2>5. SettledOnceAsWon'
    BY <2>1, <2>2, <2>3, <2>4, NotSettling
  <2> QED
    BY <2>1, <2>2, <2>5 DEF AuctionInv
<1>4. ASSUME NEW u \in Users, NEW a \in AuctionIds, CancelAuction(u, a)
      PROVE  AuctionInv' /\ OutcomeKept /\ LineTermsKept /\ LinesKept
  <2>1. /\ auctions' = [auctions EXCEPT ![a].status = "Cancelled"]
        /\ auctions[a].status = "Open" /\ auctions[a].borrower # NoOne
        /\ UNCHANGED <<bids, winningBid, auctionCounter, auctionSettled>>
    BY <1>4 DEF CancelAuction
  <2>2. BidInv' /\ OutcomeKept
    <3>1. (auctionSettled \subseteq AuctionIds \X (1 .. MaxLines))'
      BY <2>1 DEF AuctionInv, BidInv, AuctionTypeOK
    <3> QED
      BY <2>1, <3>1, StatusBids DEF AuctionInv, CreditInv, AuctionStatus
  <2>3. CreditInv' /\ LinesKept /\ LineTermsKept
    BY <1>4, CreditStutterInv DEF CancelAuction, AuctionInv
  <2>4. \A c \in AuctionIds :
            /\ auctions'[c].borrower = auctions[c].borrower
            /\ auctions'[c].status = "Settled" <=> auctions[c].status = "Settled"
    BY <2>1 DEF AuctionInv, BidInv, AuctionTypeOK, AuctionData
  <2>5. SettledOnceAsWon'
    BY <2>1, <2>2, <2>3, <2>4, NotSettling
  <2> QED
    BY <2>2, <2>3, <2>5 DEF AuctionInv
<1> QED
  BY <1>1, <1>2, <1>3, <1>4, SettleInv DEF AuctionNext

(* Steps that leave the auction contract alone; time may pass. *)
LEMMA AuctionOthersInv ==
  ASSUME AuctionInv, UNCHANGED auctionVars, CreditInv', LinesKept, now' >= now
  PROVE  AuctionInv' /\ OutcomeKept
<1>1. \A a \in AuctionIds : Winners(a)' = Winners(a)
  BY DEF Winners, auctionVars
<1>2. AuctionTypeOK' /\ BidsInWindow'
  <2>1. \A a \in AuctionIds : auctions[a].endTime \in Int
    BY EvmAssumption DEF AuctionInv, BidInv, AuctionTypeOK, AuctionData, Uint
  <2>2. now \in Int /\ now' \in Int
    BY CreditAssumption DEF AuctionInv, CreditInv, TimeTypeOK
  <2> QED
    BY <2>1, <2>2 DEF AuctionInv, BidInv, AuctionTypeOK, BidsInWindow, auctionVars
<1>3. BestBidWins'
  BY <1>1 DEF AuctionInv, BidInv, BestBidWins, auctionVars
<1>4. AuctionCreatedBelowCounter'
  <2>1. \A a \in AuctionIds : auctions[a].createdAt \in Int
    BY EvmAssumption DEF AuctionInv, BidInv, AuctionTypeOK, AuctionData, Uint
  <2>2. now \in Int /\ now' \in Int
    BY CreditAssumption DEF AuctionInv, CreditInv, TimeTypeOK
  <2> QED
    BY <2>1, <2>2 DEF AuctionInv, BidInv, AuctionCreatedBelowCounter, auctionVars
<1>5. OutcomeKept
  BY DEF OutcomeKept, auctionVars
<1>6. SettledOnceAsWon'
  BY <1>5, NotSettling DEF auctionVars
<1> QED
  BY <1>2, <1>3, <1>4, <1>5, <1>6 DEF AuctionInv, BidInv

LEMMA AuctionSystemStep ==
  ASSUME AuctionInv, [AuctionSystemNext]_auctionSystemVars
  PROVE  AuctionInv' /\ OutcomeKept /\ LineTermsKept /\ LinesKept
<1>0. now \in Int
  BY CreditAssumption DEF AuctionInv, CreditInv, TimeTypeOK
<1>1. CASE AuctionNext /\ UNCHANGED now
  BY <1>1, AuctionNextInv
<1>2. CASE CreditNext /\ UNCHANGED <<now, auctionVars>>
  BY <1>0, <1>2, CreditNextInv, AuctionOthersInv DEF AuctionInv
<1>3. CASE Tick /\ UNCHANGED <<creditVars, auctionVars>>
  <2>1. now' >= now
    BY <1>0, <1>3 DEF Tick
  <2> QED
    BY <1>3, <2>1, TickInv, AuctionOthersInv DEF AuctionInv
<1>4. CASE UNCHANGED auctionSystemVars
  <2>1. UNCHANGED <<now, creditVars>> /\ UNCHANGED auctionVars /\ now' >= now
    BY <1>0, <1>4 DEF auctionSystemVars
  <2> QED
    BY <2>1, CreditStutterInv, AuctionOthersInv DEF AuctionInv
<1> QED
  BY <1>1, <1>2, <1>3, <1>4 DEF AuctionSystemNext

LEMMA AuctionAlwaysInv == AuctionSpec => []AuctionInv
<1>1. AuctionInv /\ [AuctionSystemNext]_auctionSystemVars => AuctionInv'
  BY AuctionSystemStep
<1> QED
  BY AuctionSystemInitInv, <1>1, PTL DEF AuctionSpec

(***************************************************************************)
(* The state of the auction contract and its credit lines is well formed.  *)
(***************************************************************************)
THEOREM AuctionTypeCorrect == AuctionSpec => []AuctionSystemTypeOK
<1>1. AuctionInv => AuctionSystemTypeOK
  BY DEF AuctionInv, CreditInv, BidInv, AuctionSystemTypeOK
<1> QED
  BY AuctionAlwaysInv, <1>1, PTL

(***************************************************************************)
(* The best bid of the final book wins, and flag and winningBid agree.     *)
(***************************************************************************)
THEOREM AuctionBestBidWins == AuctionSpec => []BestBidWins
<1>1. AuctionInv => BestBidWins
  BY DEF AuctionInv, BidInv
<1> QED
  BY AuctionAlwaysInv, <1>1, PTL

(***************************************************************************)
(* Every bid was placed in its auction's window, by another than its       *)
(* borrower, and no auction was decided before its end time.               *)
(***************************************************************************)
THEOREM AuctionBidsInWindow == AuctionSpec => []BidsInWindow
<1>1. AuctionInv => BidsInWindow
  BY DEF AuctionInv, BidInv
<1> QED
  BY AuctionAlwaysInv, <1>1, PTL

(***************************************************************************)
(* An auction is settled at most once and on the terms of its winner.      *)
(***************************************************************************)
THEOREM AuctionSettledOnce == AuctionSpec => []SettledOnceAsWon
<1>1. AuctionInv => SettledOnceAsWon
  BY DEF AuctionInv
<1> QED
  BY AuctionAlwaysInv, <1>1, PTL

(***************************************************************************)
(* A decided auction stays decided, bids are only added, and the terms of  *)
(* a credit line never change.                                             *)
(***************************************************************************)
THEOREM AuctionOutcomeFixed == AuctionSpec => OutcomeFixed /\ LineTermsFixed
<1>1. AuctionInv /\ [AuctionSystemNext]_auctionSystemVars
        => [OutcomeKept]_auctionSystemVars /\ [LineTermsKept]_creditVars
  BY AuctionSystemStep
<1> QED
  BY AuctionAlwaysInv, <1>1, PTL DEF AuctionSpec, OutcomeFixed, LineTermsFixed

-----------------------------------------------------------------------------
(* Auction implements FinancingRequest. *)

(* The deal of the mapping, without CHOOSE. *)
AuctionDealRight ==
    \A a \in AuctionIds :
        auctions[a].status \in {"Finalized", "Settled"} =>
            \E i \in DOMAIN bids[a] :
                Winners(a) = {i} /\ AuctionDealOf(a) = OfferOf(bids[a][i]) /\ bids[a][i] \in Bid

LEMMA AuctionDealValue == BidInv => AuctionDealRight
<1> SUFFICES ASSUME BidInv, NEW a \in AuctionIds,
                    auctions[a].status \in {"Finalized", "Settled"}
             PROVE  \E i \in DOMAIN bids[a] :
                       Winners(a) = {i} /\ AuctionDealOf(a) = OfferOf(bids[a][i]) /\ bids[a][i] \in Bid
  BY DEF AuctionDealRight
<1>1. PICK i \in DOMAIN bids[a] : /\ Winners(a) = {i}
                                  /\ winningBid[a] = bids[a][i].lender
                                  /\ bids[a][i] \in Bid
  BY WinnerFacts
<1>2. winningBid[a] # NoOne
  BY <1>1, EvmAssumption DEF Bid
<1>3. (CHOOSE k \in Winners(a) : TRUE) = i
  BY <1>1
<1>4. AuctionDealOf(a) = [OfferOf(bids[a][i]) EXCEPT !.lender = bids[a][i].lender]
  BY <1>1, <1>2, <1>3 DEF AuctionDealOf
<1>5. AuctionDealOf(a) = OfferOf(bids[a][i])
  BY <1>4 DEF OfferOf
<1> QED
  BY <1>1, <1>5

LEMMA AuctionFundedKept ==
  ASSUME AuctionInv, LinesKept, auctionSettled' = auctionSettled
  PROVE  AuctionFunded' = AuctionFunded
<1>1. \A e \in auctionSettled :
         /\ creditLines'[e[2]].borrower = creditLines[e[2]].borrower
         /\ OfferOf(creditLines'[e[2]]) = OfferOf(creditLines[e[2]])
  BY EventFacts DEF LinesKept, OfferOf
<1> QED
  BY <1>1 DEF AuctionFunded

LEMMA AuctionMappedInit == AuctionSystemInit => AuctionRequest!RequestInit
<1> SUFFICES ASSUME AuctionSystemInit PROVE AuctionRequest!RequestInit
  OBVIOUS
<1>1. \A a \in AuctionIds : /\ auctions[a].borrower = NoOne /\ bids[a] = << >>
                            /\ winningBid[a] = NoOne
  BY DEF AuctionSystemInit, AuctionInit, ZeroAuction
<1>2. AuctionPhase = [a \in AuctionIds |-> "none"]
  BY <1>1 DEF AuctionPhase, AuctionPhaseOf
<1>3. AuctionBorrower = [a \in AuctionIds |-> NoOne]
  BY <1>1 DEF AuctionBorrower
<1>4. AuctionOffered = [a \in AuctionIds |-> {}]
  BY <1>1 DEF AuctionOffered, AuctionOffersOf
<1>5. AuctionDeal = [a \in AuctionIds |-> NoDeal]
  BY <1>1 DEF AuctionDeal, AuctionDealOf
<1>6. AuctionFunded = {}
  BY DEF AuctionFunded, AuctionSystemInit, AuctionInit
<1> QED
  BY <1>2, <1>3, <1>4, <1>5, <1>6 DEF AuctionRequest!RequestInit

(* Every auction but a looks the same in the mapping. *)
LEMMA AuctionMappedOthers ==
  ASSUME NEW a \in AuctionIds,
         \A c \in AuctionIds : c # a => /\ auctions'[c] = auctions[c]
                                        /\ bids'[c] = bids[c]
                                        /\ winningBid'[c] = winningBid[c]
  PROVE  /\ AuctionPhase' = [AuctionPhase EXCEPT ![a] = AuctionPhaseOf(a)']
         /\ AuctionBorrower' = [AuctionBorrower EXCEPT ![a] = auctions'[a].borrower]
         /\ AuctionOffered' = [AuctionOffered EXCEPT ![a] = AuctionOffersOf(a)']
         /\ AuctionDeal' = [AuctionDeal EXCEPT ![a] = AuctionDealOf(a)']
<1>1. \A c \in AuctionIds : c # a => AuctionPhaseOf(c)' = AuctionPhaseOf(c) /\ AuctionOffersOf(c)' = AuctionOffersOf(c)
  BY DEF AuctionPhaseOf, AuctionOffersOf
<1>2. \A c \in AuctionIds : c # a => AuctionDealOf(c)' = AuctionDealOf(c)
  <2> TAKE c \in AuctionIds
  <2> HAVE c # a
  <2>1. bids'[c] = bids[c] /\ winningBid'[c] = winningBid[c]
    OBVIOUS
  <2>2. Winners(c)' = Winners(c)
    BY <2>1 DEF Winners
  <2> QED
    BY <2>1, <2>2 DEF AuctionDealOf
<1>3. AuctionPhase' = [AuctionPhase EXCEPT ![a] = AuctionPhaseOf(a)']
  BY <1>1 DEF AuctionPhase
<1>4. AuctionBorrower' = [AuctionBorrower EXCEPT ![a] = auctions'[a].borrower]
  BY DEF AuctionBorrower
<1>5. AuctionOffered' = [AuctionOffered EXCEPT ![a] = AuctionOffersOf(a)']
  BY <1>1 DEF AuctionOffered
<1>6. AuctionDeal' = [AuctionDeal EXCEPT ![a] = AuctionDealOf(a)']
  BY <1>2 DEF AuctionDeal
<1> QED
  BY <1>3, <1>4, <1>5, <1>6

(* What depends on the bids and the winners alone. *)
LEMMA SameBids ==
  ASSUME bids' = bids, winningBid' = winningBid
  PROVE  AuctionOffered' = AuctionOffered /\ AuctionDeal' = AuctionDeal
<1>1. \A c \in AuctionIds : Winners(c)' = Winners(c)
  BY DEF Winners
<1>2. \A c \in AuctionIds : AuctionDealOf(c)' = AuctionDealOf(c)
  <2> TAKE c \in AuctionIds
  <2>1. Winners(c)' = Winners(c)
    BY <1>1
  <2> QED
    BY <2>1 DEF AuctionDealOf
<1>3. \A c \in AuctionIds : AuctionOffersOf(c)' = AuctionOffersOf(c)
  BY DEF AuctionOffersOf
<1> QED
  BY <1>2, <1>3 DEF AuctionOffered, AuctionDeal

LEMMA SameAuctions ==
  ASSUME auctions' = auctions
  PROVE  AuctionPhase' = AuctionPhase /\ AuctionBorrower' = AuctionBorrower
  BY DEF AuctionPhase, AuctionBorrower, AuctionPhaseOf

LEMMA AuctionMappedStutter ==
  ASSUME AuctionInv, UNCHANGED auctionVars, LinesKept
  PROVE  UNCHANGED AuctionRequest!requestVars
  BY AuctionFundedKept, SameBids, SameAuctions DEF auctionVars, AuctionRequest!requestVars

(* The borrowers of the mapping after a change of status. *)
LEMMA SameBorrowers ==
  ASSUME \A c \in AuctionIds : auctions'[c].borrower = auctions[c].borrower
  PROVE  AuctionBorrower' = AuctionBorrower
  BY DEF AuctionBorrower

LEMMA AuctionMappedCreate ==
  ASSUME AuctionInv, NEW u \in Users, NEW amount, NEW duration, NEW biddingDuration,
         CreateAuction(u, amount, duration, biddingDuration)
  PROVE  AuctionRequest!RequestNext
<1> USE EvmAssumption DEF AuctionInv
<1> DEFINE a == auctionCounter
<1>1. /\ a \in AuctionIds /\ auctions[a].borrower = NoOne
      /\ auctions' = [auctions EXCEPT ![a] =
                         [borrower |-> u, amount |-> amount, duration |-> duration,
                          endTime |-> now + biddingDuration, status |-> "Open",
                          createdAt |-> now]]
      /\ UNCHANGED <<bids, winningBid, auctionSettled, creditLines>>
  BY AuctionBoundsAssumption
     DEF CreateAuction, BidInv, AuctionTypeOK, AuctionCreatedBelowCounter, AuctionIds, creditVars
<1> HIDE DEF a
<1>2. \A c \in AuctionIds : c # a => auctions'[c] = auctions[c]
  BY <1>1 DEF BidInv, AuctionTypeOK
<1>3. auctions'[a].status = "Open" /\ auctions'[a].borrower = u /\ u # NoOne
  BY <1>1 DEF BidInv, AuctionTypeOK
<1>4. AuctionPhaseOf(a) = "none"
  BY <1>1 DEF AuctionPhaseOf
<1>5. AuctionPhase' = [AuctionPhase EXCEPT ![a] = "open"]
  <2>1. \A c \in AuctionIds : c = a => AuctionPhaseOf(c)' = "open"
    BY <1>3 DEF AuctionPhaseOf, AuctionPhaseName
  <2>2. \A c \in AuctionIds : c # a => AuctionPhaseOf(c)' = AuctionPhaseOf(c)
    BY <1>2 DEF AuctionPhaseOf
  <2> QED
    BY <1>1, <2>1, <2>2 DEF AuctionPhase
<1>6. AuctionBorrower' = [AuctionBorrower EXCEPT ![a] = u]
  <2>1. \A c \in AuctionIds : auctions'[c].borrower = IF c = a THEN u ELSE auctions[c].borrower
    BY <1>2, <1>3
  <2>2. a \in AuctionIds
    BY <1>1
  <2> QED
    BY <2>1, <2>2 DEF AuctionBorrower
<1>7. AuctionFunded' = AuctionFunded
  BY <1>1 DEF AuctionFunded
<1>8. AuctionRequest!Make(a, u)
  BY <1>1, <1>4, <1>5, <1>6, <1>7, SameBids DEF AuctionRequest!Make, AuctionPhase
<1> QED
  BY <1>1, <1>8 DEF AuctionRequest!RequestNext

LEMMA MappedPlace ==
  ASSUME AuctionInv, NEW u \in Users, NEW a \in AuctionIds, NEW rateBps \in Uint,
         NEW limit \in Uint, PlaceBid(u, a, rateBps, limit)
  PROVE  AuctionRequest!RequestNext
<1> USE DEF AuctionInv
<1> DEFINE b == [lender |-> u, rateBps |-> rateBps, limit |-> limit,
                 timestamp |-> now, isWinning |-> FALSE]
<1>1. /\ bids' = [bids EXCEPT ![a] = Append(bids[a], b)]
      /\ bids \in [AuctionIds -> Seq(Bid)] /\ bids[a] \in Seq(Bid)
      /\ auctions[a].status = "Open"
      /\ UNCHANGED <<auctions, winningBid, auctionSettled, creditLines>>
  BY DEF PlaceBid, BidInv, AuctionTypeOK, creditVars
<1>2. b \in Bid
  BY CreditAssumption, EvmAssumption DEF Bid, CreditInv, TimeTypeOK, Uint
<1>3. OfferOf(b) \in OfferSet
  BY DEF OfferOf, OfferSet
<1> HIDE DEF b
<1>4. /\ bids'[a] = Append(bids[a], b)
      /\ \A c \in AuctionIds : c # a => bids'[c] = bids[c]
  BY <1>1
<1>5. AuctionOffersOf(a)' = AuctionOffersOf(a) \cup {OfferOf(b)}
  <2>1. /\ DOMAIN bids'[a] = DOMAIN bids[a] \cup {Len(bids[a]) + 1}
        /\ bids'[a][Len(bids[a]) + 1] = b
        /\ \A i \in DOMAIN bids[a] : bids'[a][i] = bids[a][i]
    BY <1>1, <1>2, <1>4
  <2> QED
    BY <2>1 DEF AuctionOffersOf
<1>6. AuctionDealOf(a)' = NoDeal /\ AuctionDealOf(a) = NoDeal
  BY <1>1 DEF AuctionDealOf, BidInv, BestBidWins
<1>7. /\ AuctionOffered' = [AuctionOffered EXCEPT ![a] = @ \cup {OfferOf(b)}]
      /\ AuctionDeal' = AuctionDeal
  <2>1. \A c \in AuctionIds : c # a => /\ auctions'[c] = auctions[c]
                                     /\ bids'[c] = bids[c]
                                     /\ winningBid'[c] = winningBid[c]
    BY <1>1, <1>4
  <2>2. AuctionOffered[a] = AuctionOffersOf(a) /\ AuctionDeal[a] = AuctionDealOf(a)
    BY DEF AuctionOffered, AuctionDeal
  <2>3. AuctionOffered' = [AuctionOffered EXCEPT ![a] = AuctionOffersOf(a)']
    BY <2>1, AuctionMappedOthers
  <2>4. AuctionDeal' = [AuctionDeal EXCEPT ![a] = AuctionDealOf(a)']
    BY <2>1, AuctionMappedOthers
  <2>5. AuctionDeal' = AuctionDeal
    BY <1>6, <2>2, <2>4 DEF AuctionDeal
  <2> QED
    BY <1>5, <2>2, <2>3, <2>5
<1>8. AuctionFunded' = AuctionFunded
  BY <1>1 DEF AuctionFunded
<1>9. AuctionPhase[a] \in {"none", "open"}
  BY <1>1 DEF AuctionPhase, AuctionPhaseOf, AuctionPhaseName
<1>10. AuctionRequest!Offer(a, OfferOf(b))
  BY <1>1, <1>7, <1>8, <1>9, SameAuctions DEF AuctionRequest!Offer
<1> QED
  BY <1>3, <1>10 DEF AuctionRequest!RequestNext

LEMMA MappedFinalize ==
  ASSUME AuctionInv, BidInv', UNCHANGED now, NEW a \in AuctionIds, FinalizeAuction(a)
  PROVE  AuctionRequest!RequestNext
<1> USE DEF AuctionInv
<1>1. PICK best \in DOMAIN bids[a] :
         /\ bids' = [bids EXCEPT ![a][best].isWinning = TRUE]
         /\ winningBid' = [winningBid EXCEPT ![a] = bids[a][best].lender]
  BY DEF FinalizeAuction
<1>2. /\ auctions[a].status = "Open" /\ bids[a] # << >>
      /\ auctions' = [auctions EXCEPT ![a].status = "Finalized"]
      /\ UNCHANGED <<auctionCounter, auctionSettled, creditLines>>
  BY DEF FinalizeAuction, creditVars
<1> DEFINE b == bids[a][best]
           new == [b EXCEPT !.isWinning = TRUE]
           offer == OfferOf(b)
<1>3. /\ bids[a] \in Seq(Bid) /\ bids \in [AuctionIds -> Seq(Bid)] /\ b \in Bid
      /\ best \in DOMAIN bids[a]
  BY DEF BidInv, AuctionTypeOK
<1>4. new \in Bid /\ new.isWinning /\ OfferOf(new) = offer /\ offer \in OfferSet
  BY <1>3 DEF Bid, OfferOf, OfferSet
<1>5. bids' = [bids EXCEPT ![a] = [bids[a] EXCEPT ![best] = new]]
  BY <1>1, <1>3
<1> HIDE DEF new
<1>6. /\ DOMAIN bids'[a] = DOMAIN bids[a] /\ bids'[a][best] = new
      /\ \A i \in DOMAIN bids[a] : i # best => bids'[a][i] = bids[a][i]
      /\ \A c \in AuctionIds : c # a => bids'[c] = bids[c]
  BY <1>3, <1>4, <1>5
<1>7. /\ auctions'[a].status = "Finalized"
      /\ \A c \in AuctionIds : c # a => auctions'[c] = auctions[c]
      /\ \A c \in AuctionIds : auctions'[c].borrower = auctions[c].borrower
  BY <1>2 DEF BidInv, AuctionTypeOK, AuctionData
<1>8. auctions[a].borrower # NoOne
  BY <1>2, Existing DEF BidInv, AuctionCreatedBelowCounter
<1>9. AuctionPhaseOf(a) = "open" /\ AuctionPhaseOf(a)' = "matched"
  BY <1>2, <1>7, <1>8 DEF AuctionPhaseOf, AuctionPhaseName
<1>10. AuctionOffersOf(a)' = AuctionOffersOf(a) /\ offer \in AuctionOffersOf(a)
  <2>1. \A i \in DOMAIN bids[a] : OfferOf(bids'[a][i]) = OfferOf(bids[a][i])
    BY <1>4, <1>6
  <2> QED
    BY <1>3, <1>6, <2>1 DEF AuctionOffersOf
<1>11. AuctionDealOf(a)' = offer
  <2>1. \E i \in DOMAIN bids'[a] : Winners(a)' = {i} /\ AuctionDealOf(a)' = OfferOf(bids'[a][i])
    <3>1. AuctionDealRight'
      BY AuctionDealValue, PTL
    <3> QED
      BY <1>7, <3>1 DEF AuctionDealRight
  <2>2. best \in Winners(a)'
    BY <1>3, <1>4, <1>6 DEF Winners
  <2> QED
    BY <1>4, <1>6, <2>1, <2>2
<1>12. AuctionFunded' = AuctionFunded
  BY <1>2 DEF AuctionFunded
<1>13. \A c \in AuctionIds : c # a => winningBid'[c] = winningBid[c]
  BY <1>1 DEF BidInv, AuctionTypeOK
<1> HIDE DEF offer, b
<1>14. /\ AuctionPhase' = [AuctionPhase EXCEPT ![a] = "matched"]
       /\ AuctionDeal' = [AuctionDeal EXCEPT ![a] = offer]
       /\ AuctionOffered' = AuctionOffered
  BY <1>6, <1>7, <1>9, <1>10, <1>11, <1>13, AuctionMappedOthers DEF AuctionOffered
<1>15. AuctionBorrower' = AuctionBorrower
  BY <1>7, SameBorrowers
<1>16. AuctionRequest!Match(a, offer)
  BY <1>9, <1>10, <1>12, <1>14, <1>15 DEF AuctionRequest!Match, AuctionPhase, AuctionOffered
<1> QED
  BY <1>4, <1>16 DEF AuctionRequest!RequestNext, offer

(* What the events say about their lines, unfolded. *)
EventRight ==
    \A e \in auctionSettled :
        /\ creditLines[e[2]].borrower = auctions[e[1]].borrower
        /\ \E k \in Winners(e[1]) : /\ creditLines[e[2]].lender = bids[e[1]][k].lender
                                    /\ creditLines[e[2]].limit = bids[e[1]][k].limit
                                    /\ creditLines[e[2]].rateBps = bids[e[1]][k].rateBps

LEMMA EventValue == SettledOnceAsWon => EventRight
  BY DEF SettledOnceAsWon, EventRight, PaysWinner

LEMMA MappedSettle ==
  ASSUME AuctionInv, LinesKept, SettledOnceAsWon',
         NEW u \in Users, NEW a \in AuctionIds, SettleAuction(u, a)
  PROVE  AuctionRequest!RequestNext
<1> USE DEF AuctionInv
<1> DEFINE id == creditLineCounter
<1>1. /\ auctions[a].status = "Finalized" /\ auctions[a].borrower = u /\ u # NoOne
      /\ auctions' = [auctions EXCEPT ![a].status = "Settled"]
      /\ auctionSettled' = auctionSettled \cup {<<a, id>>}
      /\ UNCHANGED <<bids, winningBid>>
  BY EvmAssumption DEF SettleAuction
<1> HIDE DEF id
<1>2. /\ auctions'[a].status = "Settled" /\ auctions'[a].borrower = u
      /\ \A c \in AuctionIds : c # a => auctions'[c] = auctions[c]
      /\ \A c \in AuctionIds : auctions'[c].borrower = auctions[c].borrower
  BY <1>1 DEF BidInv, AuctionTypeOK, AuctionData
<1>3. AuctionPhaseOf(a) = "matched" /\ AuctionPhaseOf(a)' = "funded"
  BY <1>1, <1>2 DEF AuctionPhaseOf, AuctionPhaseName
<1>4. AuctionPhase' = [AuctionPhase EXCEPT ![a] = "funded"]
  <2>1. \A c \in AuctionIds : c # a => AuctionPhaseOf(c)' = AuctionPhaseOf(c)
    BY <1>2 DEF AuctionPhaseOf
  <2> QED
    BY <1>3, <2>1 DEF AuctionPhase
<1>5. UNCHANGED <<AuctionBorrower, AuctionOffered, AuctionDeal>>
  BY <1>1, <1>2, SameBids, SameBorrowers
<1>6. PICK i \in DOMAIN bids[a] :
         Winners(a) = {i} /\ AuctionDealOf(a) = OfferOf(bids[a][i]) /\ bids[a][i] \in Bid
  <2>1. AuctionDealRight
    BY AuctionDealValue
  <2> QED
    BY <1>1, <2>1 DEF AuctionDealRight
<1>7. AuctionDeal[a] = OfferOf(bids[a][i]) /\ AuctionBorrower[a] = u
  BY <1>1, <1>6 DEF AuctionDeal, AuctionBorrower
<1>8. creditLines'[id].borrower = u /\ OfferOf(creditLines'[id]) = OfferOf(bids[a][i])
  <2>1. <<a, id>> \in auctionSettled' /\ <<a, id>>[1] = a /\ <<a, id>>[2] = id
    BY <1>1
  <2>2. EventRight'
    BY EventValue, PTL
  <2>3. Winners(a)' = {i} /\ bids'[a][i] = bids[a][i]
    BY <1>1, <1>6 DEF Winners
  <2>4. /\ creditLines'[id].borrower = auctions'[a].borrower
        /\ \E k \in Winners(a)' : /\ creditLines'[id].lender = bids'[a][k].lender
                                  /\ creditLines'[id].limit = bids'[a][k].limit
                                  /\ creditLines'[id].rateBps = bids'[a][k].rateBps
    BY <2>1, <2>2 DEF EventRight
  <2>5. /\ creditLines'[id].lender = bids[a][i].lender
        /\ creditLines'[id].limit = bids[a][i].limit
        /\ creditLines'[id].rateBps = bids[a][i].rateBps
    BY <2>3, <2>4
  <2> QED
    BY <1>2, <2>4, <2>5 DEF OfferOf
<1>9. AuctionFunded' = AuctionFunded \cup {[request |-> a, borrower |-> AuctionBorrower[a],
                                           offer |-> AuctionDeal[a]]}
  <2>1. \A e \in auctionSettled :
           /\ creditLines'[e[2]].borrower = creditLines[e[2]].borrower
           /\ OfferOf(creditLines'[e[2]]) = OfferOf(creditLines[e[2]])
    BY EventFacts DEF LinesKept, OfferOf
  <2>2. <<a, id>>[1] = a /\ <<a, id>>[2] = id
    OBVIOUS
  <2> QED
    BY <1>1, <1>7, <1>8, <2>1, <2>2 DEF AuctionFunded
<1>10. AuctionRequest!Fund(a)
  BY <1>3, <1>4, <1>5, <1>9 DEF AuctionRequest!Fund, AuctionPhase
<1> QED
  BY <1>10 DEF AuctionRequest!RequestNext

LEMMA AuctionMappedCancel ==
  ASSUME AuctionInv, NEW u \in Users, NEW a \in AuctionIds, CancelAuction(u, a)
  PROVE  AuctionRequest!RequestNext
<1> USE DEF AuctionInv
<1>1. /\ auctions[a].status = "Open" /\ auctions[a].borrower = u /\ u # NoOne
      /\ auctions' = [auctions EXCEPT ![a].status = "Cancelled"]
      /\ UNCHANGED <<bids, winningBid, auctionSettled, creditLines>>
  BY EvmAssumption DEF CancelAuction, creditVars
<1>2. /\ auctions'[a].status = "Cancelled" /\ auctions'[a].borrower = u
      /\ \A c \in AuctionIds : c # a => auctions'[c] = auctions[c]
      /\ \A c \in AuctionIds : auctions'[c].borrower = auctions[c].borrower
  BY <1>1 DEF BidInv, AuctionTypeOK, AuctionData
<1>3. AuctionPhaseOf(a) = "open" /\ AuctionPhaseOf(a)' = "cancelled"
  BY <1>1, <1>2 DEF AuctionPhaseOf, AuctionPhaseName
<1>4. AuctionPhase' = [AuctionPhase EXCEPT ![a] = "cancelled"]
  <2>1. \A c \in AuctionIds : c # a => AuctionPhaseOf(c)' = AuctionPhaseOf(c)
    BY <1>2 DEF AuctionPhaseOf
  <2> QED
    BY <1>3, <2>1 DEF AuctionPhase
<1>5. UNCHANGED <<AuctionBorrower, AuctionOffered, AuctionDeal, AuctionFunded>>
  BY <1>1, <1>2, SameBids, SameBorrowers DEF AuctionFunded
<1>6. AuctionRequest!Cancel(a)
  BY <1>3, <1>4, <1>5 DEF AuctionRequest!Cancel, AuctionPhase
<1> QED
  BY <1>6 DEF AuctionRequest!RequestNext

LEMMA AuctionMappedStep ==
  AuctionInv /\ AuctionInv' /\ [AuctionSystemNext]_auctionSystemVars
    => [AuctionRequest!RequestNext]_(AuctionRequest!requestVars)
<1> SUFFICES ASSUME AuctionInv, AuctionInv', [AuctionSystemNext]_auctionSystemVars
             PROVE  AuctionRequest!RequestNext \/ UNCHANGED AuctionRequest!requestVars
  OBVIOUS
<1>1. BidInv' /\ SettledOnceAsWon'
  BY DEF AuctionInv
<1>2. LinesKept
  BY AuctionSystemStep
<1>3. CASE AuctionNext /\ UNCHANGED now
  <2>1. ASSUME NEW u \in Users, NEW amount \in Amounts, NEW duration \in Durations,
               NEW biddingDuration \in Durations,
               CreateAuction(u, amount, duration, biddingDuration)
        PROVE  AuctionRequest!RequestNext
    BY <2>1, AuctionMappedCreate
  <2>2. ASSUME NEW u \in Users, NEW a \in AuctionIds, NEW rateBps \in Rates,
               NEW limit \in Limits, PlaceBid(u, a, rateBps, limit)
        PROVE  AuctionRequest!RequestNext
    BY <2>2, CreditAssumption, MappedPlace
  <2>3. ASSUME NEW a \in AuctionIds, FinalizeAuction(a)
        PROVE  AuctionRequest!RequestNext
    BY <1>1, <1>3, <2>3, MappedFinalize
  <2>4. ASSUME NEW u \in Users, NEW a \in AuctionIds, SettleAuction(u, a)
        PROVE  AuctionRequest!RequestNext
    BY <1>1, <1>2, <2>4, MappedSettle
  <2>5. ASSUME NEW u \in Users, NEW a \in AuctionIds, CancelAuction(u, a)
        PROVE  AuctionRequest!RequestNext
    BY <2>5, AuctionMappedCancel
  <2> QED
    BY <1>3, <2>1, <2>2, <2>3, <2>4, <2>5 DEF AuctionNext
<1>4. CASE UNCHANGED auctionVars
  BY <1>2, <1>4, AuctionMappedStutter
<1> QED
  BY <1>3, <1>4 DEF AuctionSystemNext, auctionSystemVars

(***************************************************************************)
(* Every behaviour of the auction contract is a behaviour of the abstract  *)
(* request: the winner kept twice, the terms read from the flagged bid and *)
(* the credit lines together do what FinancingRequest promises.            *)
(***************************************************************************)
THEOREM AuctionImplementsRequest == AuctionSpec => AuctionKeepsPromise
<1>1. AuctionSpec => AuctionRequest!RequestInit
  BY AuctionMappedInit DEF AuctionSpec
<1>2. AuctionSpec => [][AuctionRequest!RequestNext]_(AuctionRequest!requestVars)
  BY AuctionAlwaysInv, AuctionMappedStep, PTL DEF AuctionSpec
<1> QED
  BY <1>1, <1>2, PTL DEF AuctionKeepsPromise, AuctionRequest!RequestSpec
=============================================================================
