------------------------------ MODULE BidOrder ------------------------------
(***************************************************************************)
(* The order in which Auction.sol prefers bids: lowest rate, then highest  *)
(* limit, then earliest placed.                                            *)
(***************************************************************************)
EXTENDS Integers, Sequences

(* The condition on which the loop of finalizeAuction replaces its best    *)
(* bid.                                                                    *)
Beats(bid, best) ==
    \/ bid.rateBps < best.rateBps
    \/ bid.rateBps = best.rateBps /\ bid.limit > best.limit

(* Bid i is the best of the first n bids of the book: it beats the earlier *)
(* ones and no later one beats it.                                         *)
IsBestOf(book, n, i) ==
    /\ i \in 1 .. n
    /\ \A j \in 1 .. n :
          /\ ~Beats(book[j], book[i])
          /\ j < i => Beats(book[i], book[j])

IsBestBid(book, i) == IsBestOf(book, Len(book), i)
=============================================================================
