-------------------------- MODULE Reference_proofs --------------------------
(***************************************************************************)
(* Proofs about the two specifications that the contracts are held         *)
(* against: the loop of finalizeAuction, which Auction takes as one step,  *)
(* for a book of any length, and the abstract request, which RFQ and       *)
(* Auction implement.                                                      *)
(***************************************************************************)
EXTENDS BestBidScan, FinancingRequest, TLAPS

(* The loop selects the best bid. *)
ScanInv == ScanTypeOK /\ BestSoFar /\ (done => i = Len(book) + 1)

LEMMA ScanInitInv == ScanInit => ScanInv
<1> SUFFICES ASSUME ScanInit PROVE ScanInv
  OBVIOUS
<1>1. PICK n \in 1 .. MaxBids : book \in [1 .. n -> PricedBid]
  BY DEF ScanInit
<1>2. book \in Seq(PricedBid) /\ Len(book) = n /\ n \in Nat \ {0}
  BY <1>1, ScanAssumption
<1>3. Len(book) >= 1 /\ i \in 2 .. Len(book) + 1 /\ bestBidIndex \in 1 .. i - 1
  BY <1>2 DEF ScanInit
<1>6. done \in BOOLEAN /\ ~done
  BY Zenon DEF ScanInit
<1>7. ScanTypeOK
  BY <1>2, <1>3, <1>6 DEF ScanTypeOK
<1>4. book[1] \in PricedBid
  BY <1>1, <1>2
<1>5. BestSoFar
  <2>1. book[1].rateBps \in Int /\ book[1].limit \in Int
    BY <1>4, ScanAssumption DEF PricedBid
  <2>2. ~Beats(book[1], book[1])
    BY <2>1 DEF Beats
  <2>3. i - 1 = 1 /\ bestBidIndex = 1
    BY DEF ScanInit
  <2> QED
    BY <2>2, <2>3 DEF BestSoFar, IsBestOf
<1> QED
  BY <1>5, <1>6, <1>7 DEF ScanInv

LEMMA ScanNextInv == ScanInv /\ [ScanNext]_scanVars => ScanInv'
<1> SUFFICES ASSUME ScanInv, [ScanNext]_scanVars PROVE ScanInv'
  OBVIOUS
<1> USE DEF ScanInv
<1>1. ASSUME Iterate PROVE ScanInv'
  <2>1. \A k \in 1 .. Len(book) : book[k].rateBps \in Int /\ book[k].limit \in Int
    <3>1. book \in Seq(PricedBid)
      BY DEF ScanTypeOK
    <3>2. \A k \in 1 .. Len(book) : book[k] \in PricedBid
      BY <3>1
    <3> QED
      BY <3>2, ScanAssumption DEF PricedBid
  <2>2. /\ book' \in Seq(PricedBid) /\ Len(book') >= 1
        /\ i' \in 2 .. Len(book') + 1
        /\ bestBidIndex' \in 1 .. i' - 1
    BY <1>1 DEF Iterate, ScanTypeOK
  <2>4. done' = done /\ done \in BOOLEAN /\ ~done
    <3>1. i # Len(book) + 1
      BY <1>1 DEF Iterate, ScanTypeOK
    <3> QED
      BY <1>1, <3>1, Zenon DEF Iterate, ScanTypeOK
  <2>3. BestSoFar'
    <3> DEFINE b == bestBidIndex
    <3>1. /\ i' - 1 = i /\ i \in 1 .. Len(book) /\ b \in 1 .. i - 1 /\ book' = book
          /\ i \in Int /\ b \in Int
      BY <1>1 DEF Iterate, ScanTypeOK
    <3>2. \A j \in 1 .. i - 1 : ~Beats(book[j], book[b]) /\ (j < b => Beats(book[b], book[j]))
      BY DEF BestSoFar, IsBestOf
    <3>3. CASE Beats(book[i], book[b])
      <4>1. bestBidIndex' = i
        BY <1>1, <3>3 DEF Iterate
      <4>2. \A j \in 1 .. i - 1 : ~Beats(book[j], book[i]) /\ Beats(book[i], book[j])
        BY <2>1, <3>1, <3>2, <3>3 DEF Beats
      <4>3. ~Beats(book[i], book[i])
        BY <2>1, <3>1 DEF Beats
      <4> QED
        BY <3>1, <4>1, <4>2, <4>3 DEF BestSoFar, IsBestOf
    <3>4. CASE ~Beats(book[i], book[b])
      <4>1. bestBidIndex' = b
        BY <1>1, <3>4 DEF Iterate
      <4> QED
        BY <3>1, <3>2, <3>4, <4>1 DEF BestSoFar, IsBestOf
    <3> QED
      BY <3>3, <3>4
  <2> QED
    BY <2>2, <2>3, <2>4, Zenon DEF ScanTypeOK
<1>2. ASSUME Leave PROVE ScanInv'
  BY <1>2 DEF Leave, ScanTypeOK, BestSoFar, IsBestOf
<1>3. ASSUME UNCHANGED scanVars PROVE ScanInv'
  BY <1>3 DEF scanVars, ScanTypeOK, BestSoFar, IsBestOf
<1> QED
  BY <1>1, <1>2, <1>3 DEF ScanNext

LEMMA ScanAlwaysInv == ScanSpec => []ScanInv
  BY ScanInitInv, ScanNextInv, PTL DEF ScanSpec

(***************************************************************************)
(* The loop variables of finalizeAuction stay within the book.             *)
(***************************************************************************)
THEOREM ScanTypeCorrect == ScanSpec => []ScanTypeOK
<1>1. ScanInv => ScanTypeOK
  BY DEF ScanInv
<1> QED
  BY ScanAlwaysInv, <1>1, PTL

(***************************************************************************)
(* The bid chosen so far is the best of those read, the earliest of equal  *)
(* ones, at every iteration and for any book.                              *)
(***************************************************************************)
THEOREM ScanBestSoFar == ScanSpec => []BestSoFar
<1>1. ScanInv => BestSoFar
  BY DEF ScanInv
<1> QED
  BY ScanAlwaysInv, <1>1, PTL

(***************************************************************************)
(* At its end the loop has chosen the best bid of the book.                *)
(***************************************************************************)
THEOREM ScanCorrect == ScanSpec => []ScanSelectsBest
<1>1. ScanInv => ScanSelectsBest
  BY DEF ScanInv, ScanTypeOK, BestSoFar, ScanSelectsBest, IsBestBid, IsBestOf
<1> QED
  BY ScanAlwaysInv, <1>1, PTL

-----------------------------------------------------------------------------
(* The abstract request keeps its promise. *)

Phases == {"none", "open", "matched", "funded", "cancelled"}

(* The strengthening: a deal exists from the match on and comes from the   *)
(* offers made, and every funding belongs to a request that was funded.    *)
RequestInv ==
    /\ phase \in [Requests -> Phases]
    /\ borrower \in [Requests -> Parties \cup {Nobody}]
    /\ offered \in [Requests -> SUBSET Offers]
    /\ deal \in [Requests -> Offers \cup {NoDeal}]
    /\ \A r \in Requests : phase[r] \in {"matched", "funded"} => deal[r] \in offered[r]
    /\ \A f \in funded : f.request \in Requests
    /\ FundedAsAgreed

LEMMA RequestInitInv == RequestInit => RequestInv
  BY DEF RequestInit, RequestInv, Phases, FundedAsAgreed

LEMMA RequestNextInv == RequestInv /\ RequestNext => RequestInv'
<1> SUFFICES ASSUME RequestInv, RequestNext PROVE RequestInv'
  OBVIOUS
<1> PICK r \in Requests :
       \/ \E p \in Parties : Make(r, p)
       \/ \E offer \in Offers : Offer(r, offer) \/ Match(r, offer)
       \/ Fund(r)
       \/ Cancel(r)
  BY DEF RequestNext
<1> USE DEF RequestInv, Phases, FundedAsAgreed
<1>1. ASSUME NEW p \in Parties, Make(r, p) PROVE RequestInv'
  BY <1>1 DEF Make
<1>2. ASSUME NEW offer \in Offers, Offer(r, offer) PROVE RequestInv'
  BY <1>2 DEF Offer
<1>3. ASSUME NEW offer \in Offers, Match(r, offer) PROVE RequestInv'
  BY <1>3 DEF Match
<1>4. ASSUME Fund(r) PROVE RequestInv'
  <2> DEFINE new == [request |-> r, borrower |-> borrower[r], offer |-> deal[r]]
  <2>1. \A f \in funded : f.request # r
    BY <1>4 DEF Fund
  <2>2. funded' = funded \cup {new} /\ new.request = r
        /\ new.borrower = borrower[r] /\ new.offer = deal[r]
    BY <1>4 DEF Fund
  <2>3. /\ phase' = [phase EXCEPT ![r] = "funded"] /\ phase[r] = "matched"
        /\ UNCHANGED <<borrower, offered, deal>>
    BY <1>4 DEF Fund
  <2> HIDE DEF new
  <2> QED
    BY <2>1, <2>2, <2>3
<1>5. ASSUME Cancel(r) PROVE RequestInv'
  BY <1>5 DEF Cancel
<1> QED
  BY <1>1, <1>2, <1>3, <1>4, <1>5

(***************************************************************************)
(* A request is funded at most once, for its borrower, with the offer      *)
(* chosen, which a lender made.                                            *)
(***************************************************************************)
THEOREM FundedCorrect == RequestSpec => []FundedAsAgreed
<1>1. RequestInv /\ [RequestNext]_requestVars => RequestInv'
  BY RequestNextInv DEF RequestInv, requestVars, FundedAsAgreed
<1>2. RequestInv => FundedAsAgreed
  BY DEF RequestInv
<1> QED
  BY RequestInitInv, <1>1, <1>2, PTL DEF RequestSpec
=============================================================================
