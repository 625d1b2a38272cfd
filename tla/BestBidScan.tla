---------------------------- MODULE BestBidScan ----------------------------
(***************************************************************************)
(* The loop of Auction.finalizeAuction, one iteration per step, over a     *)
(* book of bids that is fixed while the transaction runs.  Auction takes   *)
(* the whole loop as one step that selects the bid IsBestBid names; this   *)
(* module shows that the loop ends with exactly that bid.  Indices are the *)
(* code's plus one.                                                        *)
(***************************************************************************)
EXTENDS BidOrder

CONSTANTS
    Rates,      \* rates a bid may carry
    Limits,     \* limits a bid may carry
    MaxBids     \* bound: length of the book

ASSUME ScanAssumption == Rates \subseteq Int /\ Limits \subseteq Int /\ MaxBids \in Nat \ {0}

VARIABLES
    book,           \* bids[auctionId], as (rateBps, limit) pairs
    i,              \* the loop variable
    bestBidIndex,
    done            \* the loop has ended

scanVars == <<book, i, bestBidIndex, done>>

PricedBid == [rateBps : Rates, limit : Limits]

(* require(bids[auctionId].length > 0); the first bid is the best so far.  *)
ScanInit ==
    /\ book \in UNION {[1 .. n -> PricedBid] : n \in 1 .. MaxBids}
    /\ i = 2
    /\ bestBidIndex = 1
    /\ done = FALSE

(* Mutant: each bid is compared with the first one. *)
IterateAgainstFirst ==
    /\ i <= Len(book)
    /\ bestBidIndex' = IF Beats(book[i], book[1]) THEN i ELSE bestBidIndex
    /\ i' = i + 1
    /\ UNCHANGED <<book, done>>

Iterate ==
    /\ i <= Len(book)
    /\ bestBidIndex' = IF Beats(book[i], book[bestBidIndex]) THEN i ELSE bestBidIndex
    /\ i' = i + 1
    /\ UNCHANGED <<book, done>>

Leave ==
    /\ i > Len(book)
    /\ ~done
    /\ done' = TRUE
    /\ UNCHANGED <<book, i, bestBidIndex>>

ScanNext == Iterate \/ Leave

ScanSpec == ScanInit /\ [][ScanNext]_scanVars

-----------------------------------------------------------------------------

ScanTypeOK ==
    /\ book \in Seq(PricedBid)
    /\ Len(book) >= 1
    /\ i \in 2 .. Len(book) + 1
    /\ bestBidIndex \in 1 .. i - 1
    /\ done \in BOOLEAN

(***************************************************************************)
(* The loop invariant: before iteration i the chosen bid is the best of    *)
(* those already read.                                                     *)
(***************************************************************************)
BestSoFar == IsBestOf(book, i - 1, bestBidIndex)

(***************************************************************************)
(* What finalizeAuction promises ("Find best bid (lowest rate, then        *)
(* highest limit)"): when the loop has ended its bid is the best of the    *)
(* whole book, the earliest of equal ones.                                 *)
(***************************************************************************)
ScanSelectsBest == done => IsBestBid(book, bestBidIndex)
=============================================================================
