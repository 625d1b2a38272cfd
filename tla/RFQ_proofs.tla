---------------------------- MODULE RFQ_proofs ----------------------------
(***************************************************************************)
(* Safety of the RFQ contract for any number of RFQs, quotes and accounts. *)
(***************************************************************************)
EXTENDS RFQ_Request, X402Credit_proofs

(* An id is taken exactly when it is below the counter; the others still   *)
(* read as Open RFQs of nobody.                                            *)
RfqCreatedBelowCounter ==
    \A r \in RfqIds :
        /\ rfqs[r].borrower # NoOne <=> r < rfqCounter
        /\ r >= rfqCounter => rfqs[r].status = "Open"

(* The contract's own part of the inductive invariant, without the lines.  *)
BookInv == RFQTypeOK /\ RfqCreatedBelowCounter /\ AcceptanceConsistent

RfqInv == CreditInv /\ BookInv /\ ExecutedOnceAsQuoted

LEMMA RfqIdType == RfqIds \subseteq Nat
  BY RfqBoundsAssumption DEF RfqIds

LEMMA RFQInitInv == RFQInit => BookInv /\ rfqExecuted = {} /\ \A r \in RfqIds : rfqs[r].status = "Open"
<1> SUFFICES ASSUME RFQInit
             PROVE  BookInv /\ rfqExecuted = {} /\ \A r \in RfqIds : rfqs[r].status = "Open"
  OBVIOUS
<1> USE EvmAssumption, RfqBoundsAssumption DEF Uint, RfqIds
<1>1. RFQTypeOK
  <2>1. ZeroRFQ \in RFQData
    BY DEF RFQData, RFQStatus, ZeroRFQ, Address
  <2>2. << >> \in Seq(Quote)
    OBVIOUS
  <2>3. rfqCounter \in 0 .. MaxRfqs
    BY DEF RFQInit
  <2> QED
    BY <2>1, <2>2, <2>3 DEF RFQInit, RFQTypeOK
<1>2. RfqCreatedBelowCounter /\ \A r \in RfqIds : rfqs[r].status = "Open"
  BY DEF RFQInit, RfqCreatedBelowCounter, ZeroRFQ
<1>3. AcceptanceConsistent
  <2>1. \A r \in RfqIds : quotes[r] = << >>
    BY DEF RFQInit
  <2>2. \A r \in RfqIds : Flagged(r) = {}
    BY <2>1 DEF Flagged
  <2> QED
    BY <1>2, <2>2 DEF AcceptanceConsistent
<1> QED
  BY <1>1, <1>2, <1>3 DEF BookInv, RFQInit

(* What a quote that was accepted looks like. *)
LEMMA AcceptedIndex ==
  ASSUME BookInv, NEW r \in RfqIds, rfqs[r].status \in {"Closed", "Executed"}
  PROVE  /\ acceptedQuote[r] + 1 \in DOMAIN quotes[r]
         /\ quotes[r][acceptedQuote[r] + 1].accepted
         /\ StoredQuote(r) \in Quote
         /\ Flagged(r) = {acceptedQuote[r] + 1}
<1>1. Flagged(r) = {acceptedQuote[r] + 1}
  BY DEF BookInv, AcceptanceConsistent
<1>2. acceptedQuote[r] + 1 \in DOMAIN quotes[r] /\ quotes[r][acceptedQuote[r] + 1].accepted
  BY <1>1 DEF Flagged
<1>3. quotes[r] \in Seq(Quote)
  BY DEF BookInv, RFQTypeOK
<1>4. StoredQuote(r) \in Quote
  BY <1>2, <1>3 DEF StoredQuote
<1> QED
  BY <1>1, <1>2, <1>4

-----------------------------------------------------------------------------
(* One lemma per transaction: the book stays consistent. *)

LEMMA CreateBook ==
  ASSUME BookInv, NEW u \in Users, NEW amount \in Uint, NEW duration \in Uint,
         CreateRFQ(u, amount, duration)
  PROVE  BookInv' /\ BookKept /\ RequestKept
<1> USE EvmAssumption, RfqBoundsAssumption DEF RfqIds
<1> DEFINE new == [borrower |-> u, amount |-> amount, duration |-> duration,
                   status |-> "Open"]
<1>1. new \in RFQData /\ new.borrower # NoOne /\ new.status = "Open"
  BY DEF RFQData, RFQStatus, Address
<1>2. /\ rfqs' = [rfqs EXCEPT ![rfqCounter] = new]
      /\ rfqCounter \in RfqIds /\ rfqCounter' = rfqCounter + 1
      /\ UNCHANGED <<quotes, acceptedQuote, rfqExecuted>>
  BY DEF CreateRFQ, BookInv, RFQTypeOK
<1> HIDE DEF new
<1>3. RFQTypeOK'
  BY <1>1, <1>2 DEF BookInv, RFQTypeOK
<1>4. RfqCreatedBelowCounter'
  BY <1>1, <1>2 DEF BookInv, RFQTypeOK, RfqCreatedBelowCounter
<1>5. \A r \in RfqIds : rfqs'[r].status = rfqs[r].status /\ Flagged(r)' = Flagged(r)
  BY <1>1, <1>2 DEF BookInv, RFQTypeOK, RfqCreatedBelowCounter, Flagged
<1>6. AcceptanceConsistent'
  BY <1>2, <1>5 DEF BookInv, AcceptanceConsistent
<1>7. BookKept
  BY <1>2, <1>5 DEF BookInv, RFQTypeOK, BookKept, SameOffer
<1>8. RequestKept
  BY <1>2, <1>5 DEF BookInv, RFQTypeOK, RequestKept
<1> QED
  BY <1>3, <1>4, <1>6, <1>7, <1>8 DEF BookInv

LEMMA SubmitBook ==
  ASSUME BookInv, NEW u \in Users, NEW rfqId \in RfqIds, NEW rateBps \in Uint,
         NEW limit \in Uint, SubmitQuote(u, rfqId, rateBps, limit)
  PROVE  BookInv' /\ BookKept /\ RequestKept
<1> DEFINE new == [lender |-> u, rateBps |-> rateBps, limit |-> limit, accepted |-> FALSE]
<1>1. new \in Quote /\ ~new.accepted
  BY DEF Quote
<1>2. /\ quotes' = [quotes EXCEPT ![rfqId] = Append(quotes[rfqId], new)]
      /\ rfqs[rfqId].status = "Open"
      /\ UNCHANGED <<rfqs, acceptedQuote, rfqCounter, rfqExecuted>>
      /\ \A r \in RfqIds : quotes[r] \in Seq(Quote)
      /\ quotes \in [RfqIds -> Seq(Quote)]
  BY DEF SubmitQuote, BookInv, RFQTypeOK
<1> HIDE DEF new
<1>3. /\ quotes'[rfqId] \in Seq(Quote)
      /\ Len(quotes'[rfqId]) = Len(quotes[rfqId]) + 1
      /\ quotes'[rfqId][Len(quotes[rfqId]) + 1] = new
      /\ \A i \in DOMAIN quotes[rfqId] : quotes'[rfqId][i] = quotes[rfqId][i]
      /\ DOMAIN quotes'[rfqId] = DOMAIN quotes[rfqId] \cup {Len(quotes[rfqId]) + 1}
  BY <1>1, <1>2
<1>4. \A r \in RfqIds : r # rfqId => quotes'[r] = quotes[r]
  BY <1>2
<1>5. RFQTypeOK'
  BY <1>2, <1>3, <1>4 DEF BookInv, RFQTypeOK
<1>6. RfqCreatedBelowCounter'
  BY <1>2 DEF BookInv, RfqCreatedBelowCounter
<1>7. \A r \in RfqIds : Flagged(r)' = Flagged(r)
  <2>1. Flagged(rfqId)' = Flagged(rfqId)
    BY <1>1, <1>3 DEF Flagged
  <2> QED
    BY <1>4, <2>1 DEF Flagged
<1>8. AcceptanceConsistent'
  BY <1>2, <1>7 DEF BookInv, AcceptanceConsistent
<1>9. BookKept
  BY <1>2, <1>3, <1>4 DEF BookKept, SameOffer
<1>10. RequestKept
  BY <1>2 DEF RequestKept
<1> QED
  BY <1>5, <1>6, <1>8, <1>9, <1>10 DEF BookInv

LEMMA AcceptBook ==
  ASSUME BookInv, NEW u \in Users, NEW rfqId \in RfqIds, NEW quoteIndex \in Nat,
         AcceptQuote(u, rfqId, quoteIndex)
  PROVE  BookInv' /\ BookKept /\ RequestKept
<1> USE DEF BookInv
<1> DEFINE n == quoteIndex + 1
           new == [quotes[rfqId][n] EXCEPT !.accepted = TRUE]
<1>1. /\ quotes[rfqId] \in Seq(Quote) /\ quotes \in [RfqIds -> Seq(Quote)]
      /\ n \in DOMAIN quotes[rfqId] /\ quotes[rfqId][n] \in Quote
  BY DEF AcceptQuote, RFQTypeOK
<1>2. new \in Quote /\ new.accepted /\ SameOffer(quotes[rfqId][n], new)
  BY <1>1 DEF Quote, SameOffer
<1>3. /\ quotes' = [quotes EXCEPT ![rfqId] = [quotes[rfqId] EXCEPT ![n] = new]]
      /\ acceptedQuote' = [acceptedQuote EXCEPT ![rfqId] = quoteIndex]
      /\ rfqs' = [rfqs EXCEPT ![rfqId].status = "Closed"]
      /\ rfqs[rfqId].status = "Open" /\ rfqs[rfqId].borrower = u
      /\ UNCHANGED <<rfqCounter, rfqExecuted>>
  BY <1>1 DEF AcceptQuote
<1> HIDE DEF new
<1>4. /\ quotes'[rfqId] \in Seq(Quote)
      /\ Len(quotes'[rfqId]) = Len(quotes[rfqId])
      /\ DOMAIN quotes'[rfqId] = DOMAIN quotes[rfqId]
      /\ quotes'[rfqId][n] = new
      /\ \A i \in DOMAIN quotes[rfqId] : i # n => quotes'[rfqId][i] = quotes[rfqId][i]
      /\ \A r \in RfqIds : r # rfqId => quotes'[r] = quotes[r]
  BY <1>1, <1>2, <1>3
<1>5. /\ rfqs' \in [RfqIds -> RFQData]
      /\ \A r \in RfqIds : /\ rfqs'[r].borrower = rfqs[r].borrower
                           /\ rfqs'[r].amount = rfqs[r].amount
                           /\ rfqs'[r].duration = rfqs[r].duration
                           /\ r # rfqId => rfqs'[r] = rfqs[r]
      /\ rfqs'[rfqId].status = "Closed"
  BY <1>3 DEF RFQTypeOK, RFQData, RFQStatus
<1>6. RFQTypeOK'
  BY <1>3, <1>4, <1>5 DEF RFQTypeOK
<1>7. RfqCreatedBelowCounter'
  <2>1. rfqId < rfqCounter
    BY <1>3, EvmAssumption DEF RfqCreatedBelowCounter
  <2> QED
    BY <1>3, <1>5, <2>1, RfqIdType DEF RfqCreatedBelowCounter, RFQTypeOK
<1>8. Flagged(rfqId)' = {n} /\ \A r \in RfqIds : r # rfqId => Flagged(r)' = Flagged(r)
  <2>1. Flagged(rfqId) = {}
    BY <1>3 DEF AcceptanceConsistent
  <2> QED
    BY <1>1, <1>2, <1>4, <2>1 DEF Flagged
<1>9. AcceptanceConsistent'
  <2>1. acceptedQuote'[rfqId] = quoteIndex
        /\ \A r \in RfqIds : r # rfqId => acceptedQuote'[r] = acceptedQuote[r]
    BY <1>3 DEF RFQTypeOK
  <2> QED
    BY <1>5, <1>8, <2>1 DEF AcceptanceConsistent
<1>10. BookKept
  BY <1>2, <1>3, <1>4 DEF BookKept, SameOffer
<1>11. RequestKept
  BY <1>3, <1>5, RfqBoundsAssumption DEF RequestKept, RFQTypeOK, RfqIds
<1> QED
  BY <1>6, <1>7, <1>9, <1>10, <1>11

(* Executing and cancelling change the status and nothing else of the book. *)
LEMMA StatusBook ==
  ASSUME BookInv, NEW rfqId \in RfqIds, NEW status \in RFQStatus,
         rfqs[rfqId].borrower # NoOne,
         rfqs' = [rfqs EXCEPT ![rfqId].status = status],
         status # "Open",
         rfqs[rfqId].status \in {"Closed", "Executed"} <=> status \in {"Closed", "Executed"},
         UNCHANGED <<quotes, acceptedQuote, rfqCounter>>,
         (rfqExecuted \subseteq RfqIds \X (1 .. MaxLines))'
  PROVE  BookInv' /\ BookKept /\ RequestKept
<1> USE DEF BookInv
<1>1. /\ rfqs' \in [RfqIds -> RFQData]
      /\ \A r \in RfqIds : /\ rfqs'[r].borrower = rfqs[r].borrower
                           /\ rfqs'[r].amount = rfqs[r].amount
                           /\ rfqs'[r].duration = rfqs[r].duration
                           /\ r # rfqId => rfqs'[r] = rfqs[r]
      /\ rfqs'[rfqId].status = status
  BY DEF RFQTypeOK, RFQData, RFQStatus
<1>2. RFQTypeOK'
  BY <1>1 DEF RFQTypeOK
<1>3. RfqCreatedBelowCounter'
  BY <1>1, RfqIdType DEF RfqCreatedBelowCounter, RFQTypeOK
<1>4. AcceptanceConsistent'
  BY <1>1 DEF AcceptanceConsistent, Flagged
<1>5. BookKept
  BY DEF BookKept, SameOffer
<1>6. RequestKept
  BY <1>1, RfqBoundsAssumption DEF RequestKept, RFQTypeOK, RfqIds
<1> QED
  BY <1>2, <1>3, <1>4, <1>5, <1>6

-----------------------------------------------------------------------------
(* The whole invariant. *)

LEMMA RFQSystemInitInv == RFQSystemInit => RfqInv
<1> SUFFICES ASSUME RFQSystemInit PROVE RfqInv
  OBVIOUS
<1>1. CreditInv
  BY CreditInitInv DEF RFQSystemInit
<1>2. BookInv /\ rfqExecuted = {} /\ \A r \in RfqIds : rfqs[r].status = "Open"
  BY RFQInitInv DEF RFQSystemInit
<1>3. ExecutedOnceAsQuoted
  BY <1>2 DEF ExecutedOnceAsQuoted, LinesOf
<1> QED
  BY <1>1, <1>2, <1>3 DEF RfqInv

(* A step that executes nothing, keeps the accepted quotes and the terms   *)
(* of the lines keeps ExecutedOnceAsQuoted.                                *)
LEMMA NotExecuting ==
  ASSUME RfqInv, BookInv', BookKept, LinesKept,
         rfqExecuted' = rfqExecuted,
         acceptedQuote' \in [RfqIds -> Nat],
         \A r \in RfqIds :
            /\ rfqs[r].status # "Open" =>
                  /\ acceptedQuote'[r] = acceptedQuote[r]
                  /\ rfqs'[r].borrower = rfqs[r].borrower
            /\ rfqs'[r].status = "Executed" <=> rfqs[r].status = "Executed"
  PROVE  ExecutedOnceAsQuoted'
<1>1. \A r \in RfqIds : LinesOf(r)' = LinesOf(r)
  BY DEF LinesOf
<1>2. ASSUME NEW e \in rfqExecuted
      PROVE  /\ e[2] \in DOMAIN creditLines'
             /\ MatchesQuote(creditLines[e[2]], e[1], StoredQuote(e[1]))'
  <2>1. e[1] \in RfqIds /\ e[2] \in 1 .. MaxLines /\ e = <<e[1], e[2]>>
    BY DEF RfqInv, BookInv, RFQTypeOK
  <2>2. rfqs[e[1]].status = "Executed"
    BY <2>1 DEF RfqInv, ExecutedOnceAsQuoted, LinesOf
  <2>3. /\ quotes'[e[1]] = quotes[e[1]]
        /\ acceptedQuote'[e[1]] = acceptedQuote[e[1]]
        /\ rfqs'[e[1]].borrower = rfqs[e[1]].borrower
    BY <2>1, <2>2 DEF BookKept
  <2>4. /\ e[2] \in DOMAIN creditLines
        /\ MatchesQuote(creditLines[e[2]], e[1], StoredQuote(e[1]))
    BY DEF RfqInv, ExecutedOnceAsQuoted
  <2> QED
    BY <2>3, <2>4 DEF MatchesQuote, StoredQuote, LinesKept
<1> QED
  BY <1>1, <1>2 DEF RfqInv, ExecutedOnceAsQuoted

LEMMA ExecuteInv ==
  ASSUME RfqInv, NEW u \in Users, NEW rfqId \in RfqIds, ExecuteRFQ(u, rfqId), UNCHANGED now
  PROVE  RfqInv' /\ BookKept /\ RequestKept /\ LineTermsKept
<1> DEFINE id == creditLineCounter
           q == StoredQuote(rfqId)
<1>1. /\ rfqs[rfqId].status = "Closed" /\ rfqs[rfqId].borrower = u
      /\ rfqs' = [rfqs EXCEPT ![rfqId].status = "Executed"]
      /\ rfqExecuted' = rfqExecuted \cup {<<rfqId, id>>}
      /\ UNCHANGED <<quotes, acceptedQuote, rfqCounter>>
  BY DEF ExecuteRFQ
<1>2. q \in Quote
  BY <1>1, AcceptedIndex DEF RfqInv
<1>3. /\ CreditInv' /\ LinesKept /\ LineTermsKept
      /\ id \in 1 .. MaxLines /\ id \notin DOMAIN creditLines /\ id \in DOMAIN creditLines'
      /\ creditLines'[id].borrower = u /\ creditLines'[id].lender = q.lender
      /\ creditLines'[id].limit = q.limit /\ creditLines'[id].rateBps = q.rateBps
  <2>1. OpenCreditLine(u, q.lender, q.limit, q.rateBps, now + rfqs[rfqId].duration)
    BY <1>1 DEF ExecuteRFQ
  <2>2. u \in Address /\ q.lender \in Address /\ q.limit \in Uint /\ q.rateBps \in Uint
        /\ now + rfqs[rfqId].duration \in Uint
    BY <1>2 DEF Quote, Address, ExecuteRFQ
  <2> QED
    BY <2>1, <2>2, OpenInv DEF RfqInv
<1> HIDE DEF id, q
<1>4. BookInv' /\ BookKept /\ RequestKept
  <2>1. rfqs[rfqId].borrower # NoOne
    BY <1>1, EvmAssumption
  <2>2. (rfqExecuted \subseteq RfqIds \X (1 .. MaxLines))'
    BY <1>1, <1>3 DEF RfqInv, BookInv, RFQTypeOK
  <2> QED
    BY <1>1, <2>1, <2>2, StatusBook DEF RfqInv, RFQStatus
<1>5. \A e \in rfqExecuted : /\ e[1] \in RfqIds /\ e[2] \in 1 .. MaxLines /\ e = <<e[1], e[2]>>
                             /\ e[2] \in DOMAIN creditLines /\ e[2] # id
                             /\ rfqs[e[1]].status = "Executed" /\ e[1] # rfqId
  <2> TAKE e \in rfqExecuted
  <2>1. e[1] \in RfqIds /\ e[2] \in 1 .. MaxLines /\ e = <<e[1], e[2]>>
    BY DEF RfqInv, BookInv, RFQTypeOK
  <2>2. e[2] \in DOMAIN creditLines
    BY DEF RfqInv, ExecutedOnceAsQuoted
  <2>3. rfqs[e[1]].status = "Executed"
    BY <2>1 DEF RfqInv, ExecutedOnceAsQuoted, LinesOf
  <2> QED
    BY <1>1, <1>3, <2>1, <2>2, <2>3
<1>6. /\ \A r \in RfqIds : r # rfqId => rfqs'[r] = rfqs[r]
      /\ rfqs'[rfqId].status = "Executed" /\ rfqs'[rfqId].borrower = u
  BY <1>1 DEF RfqInv, BookInv, RFQTypeOK, RFQData
<1>7. \A r \in RfqIds : rfqs'[r].status = "Executed" <=> LinesOf(r)' # {}
  <2>1. id \in LinesOf(rfqId)'
    BY <1>1, <1>3 DEF LinesOf
  <2>2. \A r \in RfqIds : r # rfqId => LinesOf(r)' = LinesOf(r)
    BY <1>1 DEF LinesOf
  <2> QED
    BY <1>6, <2>1, <2>2 DEF RfqInv, ExecutedOnceAsQuoted
<1>8. ASSUME NEW e \in rfqExecuted'
      PROVE  /\ e[2] \in DOMAIN creditLines'
             /\ MatchesQuote(creditLines[e[2]], e[1], StoredQuote(e[1]))'
  <2>1. CASE e = <<rfqId, id>>
    BY <1>1, <1>3, <1>6, <2>1 DEF MatchesQuote, StoredQuote, q
  <2>2. CASE e \in rfqExecuted
    <3>1. /\ e[2] \in DOMAIN creditLines
          /\ MatchesQuote(creditLines[e[2]], e[1], StoredQuote(e[1]))
      BY <2>2 DEF RfqInv, ExecutedOnceAsQuoted
    <3>2. rfqs'[e[1]] = rfqs[e[1]] /\ quotes' = quotes /\ acceptedQuote' = acceptedQuote
      BY <1>1, <1>5, <1>6, <2>2
    <3> QED
      BY <1>3, <3>1, <3>2 DEF MatchesQuote, StoredQuote, LinesKept
  <2> QED
    BY <1>1, <2>1, <2>2
<1>9. \A e, f \in rfqExecuted' : e[1] = f[1] \/ e[2] = f[2] => e = f
  <2>1. \A e, f \in rfqExecuted : e[1] = f[1] \/ e[2] = f[2] => e = f
    BY DEF RfqInv, ExecutedOnceAsQuoted
  <2> QED
    BY <1>1, <1>5, <2>1
<1> QED
  BY <1>3, <1>4, <1>7, <1>8, <1>9 DEF RfqInv, ExecutedOnceAsQuoted

LEMMA RFQNextInv ==
  ASSUME RfqInv, RFQNext, UNCHANGED now
  PROVE  RfqInv' /\ BookKept /\ RequestKept /\ LineTermsKept
<1> PICK u \in Users :
       \/ \E amount \in Amounts, duration \in Durations : CreateRFQ(u, amount, duration)
       \/ \E rfqId \in RfqIds :
             \/ \E rateBps \in Rates, limit \in Limits : SubmitQuote(u, rfqId, rateBps, limit)
             \/ \E quoteIndex \in 0 .. MaxQuotes - 1 : AcceptQuote(u, rfqId, quoteIndex)
             \/ ExecuteRFQ(u, rfqId)
             \/ CancelRFQ(u, rfqId)
  BY Zenon DEF RFQNext
<1> USE EvmAssumption, CreditAssumption, RfqBoundsAssumption
<1>1. ASSUME NEW amount \in Amounts, NEW duration \in Durations,
             CreateRFQ(u, amount, duration)
      PROVE  RfqInv' /\ BookKept /\ RequestKept /\ LineTermsKept
  <2>1. amount \in Uint /\ duration \in Uint
    BY DEF Uint
  <2>2. BookInv' /\ BookKept /\ RequestKept
    BY <1>1, <2>1, CreateBook DEF RfqInv
  <2>3. CreditInv' /\ LinesKept /\ LineTermsKept
    BY <1>1, CreditStutterInv DEF CreateRFQ, RfqInv
  <2>4. ExecutedOnceAsQuoted'
    <3>1. /\ rfqs' = [rfqs EXCEPT ![rfqCounter] =
                         [borrower |-> u, amount |-> amount,
                          duration |-> duration, status |-> "Open"]]
          /\ rfqs[rfqCounter].status = "Open" /\ rfqCounter \in RfqIds
      BY <1>1 DEF CreateRFQ, RfqInv, BookInv, RFQTypeOK, RfqCreatedBelowCounter, RfqIds
    <3>2. \A r \in RfqIds : /\ rfqs'[r].status = rfqs[r].status
                            /\ rfqs[r].status # "Open" => rfqs'[r] = rfqs[r]
      BY <3>1 DEF RfqInv, BookInv, RFQTypeOK
    <3>3. acceptedQuote' = acceptedQuote /\ rfqExecuted' = rfqExecuted
      BY <1>1 DEF CreateRFQ
    <3>4. acceptedQuote' \in [RfqIds -> Nat]
      BY <2>2 DEF BookInv, RFQTypeOK
    <3> QED
      BY <2>2, <2>3, <3>2, <3>3, <3>4, NotExecuting
  <2> QED
    BY <2>2, <2>3, <2>4 DEF RfqInv
<1>2. ASSUME NEW rfqId \in RfqIds, NEW rateBps \in Rates, NEW limit \in Limits,
             SubmitQuote(u, rfqId, rateBps, limit)
      PROVE  RfqInv' /\ BookKept /\ RequestKept /\ LineTermsKept
  <2>1. rateBps \in Uint /\ limit \in Uint
    OBVIOUS
  <2>2. BookInv' /\ BookKept /\ RequestKept
    BY <1>2, <2>1, SubmitBook DEF RfqInv
  <2>3. CreditInv' /\ LinesKept /\ LineTermsKept
    BY <1>2, CreditStutterInv DEF SubmitQuote, RfqInv
  <2>4. UNCHANGED <<rfqs, acceptedQuote, rfqExecuted>> /\ acceptedQuote' \in [RfqIds -> Nat]
    BY <1>2, <2>2 DEF SubmitQuote, BookInv, RFQTypeOK
  <2>5. ExecutedOnceAsQuoted'
    BY <2>2, <2>3, <2>4, NotExecuting
  <2> QED
    BY <2>2, <2>3, <2>5 DEF RfqInv
<1>3. ASSUME NEW rfqId \in RfqIds, NEW quoteIndex \in 0 .. MaxQuotes - 1,
             AcceptQuote(u, rfqId, quoteIndex)
      PROVE  RfqInv' /\ BookKept /\ RequestKept /\ LineTermsKept
  <2>1. quoteIndex \in Nat
    OBVIOUS
  <2>2. BookInv' /\ BookKept /\ RequestKept
    BY <1>3, <2>1, AcceptBook DEF RfqInv
  <2>3. CreditInv' /\ LinesKept /\ LineTermsKept
    BY <1>3, CreditStutterInv DEF AcceptQuote, RfqInv
  <2>4. /\ rfqs' = [rfqs EXCEPT ![rfqId].status = "Closed"]
        /\ acceptedQuote' = [acceptedQuote EXCEPT ![rfqId] = quoteIndex]
        /\ rfqs[rfqId].status = "Open" /\ rfqExecuted' = rfqExecuted
    BY <1>3 DEF AcceptQuote
  <2>5. \A r \in RfqIds :
            /\ rfqs[r].status # "Open" =>
                  acceptedQuote'[r] = acceptedQuote[r] /\ rfqs'[r].borrower = rfqs[r].borrower
            /\ rfqs'[r].status = "Executed" <=> rfqs[r].status = "Executed"
    BY <2>4 DEF RfqInv, BookInv, RFQTypeOK, RFQData
  <2>6. acceptedQuote' \in [RfqIds -> Nat]
    BY <2>2 DEF BookInv, RFQTypeOK
  <2>7. ExecutedOnceAsQuoted'
    BY <2>2, <2>3, <2>4, <2>5, <2>6, NotExecuting
  <2> QED
    BY <2>2, <2>3, <2>7 DEF RfqInv
<1>4. ASSUME NEW rfqId \in RfqIds, ExecuteRFQ(u, rfqId)
      PROVE  RfqInv' /\ BookKept /\ RequestKept /\ LineTermsKept
  BY <1>4, ExecuteInv
<1>5. ASSUME NEW rfqId \in RfqIds, CancelRFQ(u, rfqId)
      PROVE  RfqInv' /\ BookKept /\ RequestKept /\ LineTermsKept
  <2>1. /\ rfqs' = [rfqs EXCEPT ![rfqId].status = "Cancelled"]
        /\ rfqs[rfqId].status = "Open" /\ rfqs[rfqId].borrower # NoOne
        /\ UNCHANGED <<quotes, acceptedQuote, rfqCounter, rfqExecuted>>
    BY <1>5 DEF CancelRFQ
  <2>2. BookInv' /\ BookKept /\ RequestKept
    <3>1. (rfqExecuted \subseteq RfqIds \X (1 .. MaxLines))'
      BY <2>1 DEF RfqInv, BookInv, RFQTypeOK
    <3> QED
      BY <2>1, <3>1, StatusBook DEF RfqInv, RFQStatus
  <2>3. CreditInv' /\ LinesKept /\ LineTermsKept
    BY <1>5, CreditStutterInv DEF CancelRFQ, RfqInv
  <2>4. \A r \in RfqIds :
            /\ rfqs'[r].borrower = rfqs[r].borrower
            /\ rfqs'[r].status = "Executed" <=> rfqs[r].status = "Executed"
    BY <2>1 DEF RfqInv, BookInv, RFQTypeOK, RFQData
  <2>5. acceptedQuote' \in [RfqIds -> Nat]
    BY <2>2 DEF BookInv, RFQTypeOK
  <2>6. ExecutedOnceAsQuoted'
    BY <2>1, <2>2, <2>3, <2>4, <2>5, NotExecuting
  <2> QED
    BY <2>2, <2>3, <2>6 DEF RfqInv
<1> QED
  BY <1>1, <1>2, <1>3, <1>4, <1>5

(* Steps that leave the RFQ contract alone. *)
LEMMA RfqOthersInv ==
  ASSUME RfqInv, UNCHANGED rfqVars, CreditInv', LinesKept
  PROVE  RfqInv' /\ BookKept /\ RequestKept
<1>1. BookInv'
  BY DEF RfqInv, BookInv, RFQTypeOK, RfqCreatedBelowCounter, AcceptanceConsistent, Flagged, rfqVars
<1>2. BookKept /\ RequestKept
  BY DEF BookKept, RequestKept, SameOffer, rfqVars
<1>3. UNCHANGED <<rfqs, acceptedQuote, rfqExecuted>> /\ acceptedQuote' \in [RfqIds -> Nat]
  BY <1>1 DEF rfqVars, BookInv, RFQTypeOK
<1>4. ExecutedOnceAsQuoted'
  BY <1>1, <1>2, <1>3, NotExecuting
<1> QED
  BY <1>1, <1>2, <1>4 DEF RfqInv

LEMMA RFQSystemStep ==
  ASSUME RfqInv, [RFQSystemNext]_rfqSystemVars
  PROVE  RfqInv' /\ BookKept /\ RequestKept /\ LineTermsKept
<1>1. CASE RFQNext /\ UNCHANGED now
  BY <1>1, RFQNextInv
<1>2. CASE CreditNext /\ UNCHANGED <<now, rfqVars>>
  BY <1>2, CreditNextInv, RfqOthersInv DEF RfqInv
<1>3. CASE Tick /\ UNCHANGED <<creditVars, rfqVars>>
  BY <1>3, TickInv, RfqOthersInv DEF RfqInv
<1>4. CASE UNCHANGED rfqSystemVars
  <2>1. UNCHANGED <<now, creditVars>> /\ UNCHANGED rfqVars
    BY <1>4 DEF rfqSystemVars
  <2> QED
    BY <2>1, CreditStutterInv, RfqOthersInv DEF RfqInv
<1> QED
  BY <1>1, <1>2, <1>3, <1>4 DEF RFQSystemNext

LEMMA RFQAlwaysInv == RFQSpec => []RfqInv
<1>1. RfqInv /\ [RFQSystemNext]_rfqSystemVars => RfqInv'
  BY RFQSystemStep
<1> QED
  BY RFQSystemInitInv, <1>1, PTL DEF RFQSpec

(***************************************************************************)
(* The state of the RFQ contract and its credit lines is well formed.      *)
(***************************************************************************)
THEOREM RFQTypeCorrect == RFQSpec => []RFQSystemTypeOK
<1>1. RfqInv => RFQSystemTypeOK
  BY DEF RfqInv, CreditInv, BookInv, RFQSystemTypeOK
<1> QED
  BY RFQAlwaysInv, <1>1, PTL

(***************************************************************************)
(* Flag, index and status of an acceptance always agree.                   *)
(***************************************************************************)
THEOREM RFQAcceptance == RFQSpec => []AcceptanceConsistent
<1>1. RfqInv => AcceptanceConsistent
  BY DEF RfqInv, BookInv
<1> QED
  BY RFQAlwaysInv, <1>1, PTL

(***************************************************************************)
(* An RFQ is executed at most once and on the terms of the accepted quote. *)
(***************************************************************************)
THEOREM RFQExecutedOnce == RFQSpec => []ExecutedOnceAsQuoted
<1>1. RfqInv => ExecutedOnceAsQuoted
  BY DEF RfqInv
<1> QED
  BY RFQAlwaysInv, <1>1, PTL

(***************************************************************************)
(* No line opened for an RFQ is ever drawn beyond its limit.               *)
(***************************************************************************)
THEOREM RFQDrawnWithinLimit == RFQSpec => []DrawnWithinLimit
<1>1. RfqInv => DrawnWithinLimit
  BY DEF RfqInv, CreditInv
<1> QED
  BY RFQAlwaysInv, <1>1, PTL

(***************************************************************************)
(* No step rewrites what was agreed: the quotes of a book, what a created  *)
(* RFQ asks for, the terms of a credit line (RFQ.sol, MockX402Credit.sol). *)
(***************************************************************************)
THEOREM RFQNothingRewritten == RFQSpec => NothingRewritten
<1>1. RfqInv /\ [RFQSystemNext]_rfqSystemVars
        => [BookKept /\ RequestKept /\ LineTermsKept]_rfqSystemVars
  BY RFQSystemStep
<1> QED
  BY RFQAlwaysInv, <1>1, PTL DEF RFQSpec, NothingRewritten

-----------------------------------------------------------------------------
(* RFQ implements FinancingRequest. *)

(* The deal of the mapping, without CHOOSE. *)
RfqDealRight ==
    \A r \in RfqIds :
        RfqDealOf(r) = IF rfqs[r].status \in {"Closed", "Executed"}
                      THEN OfferOf(StoredQuote(r)) ELSE NoDeal

LEMMA RfqDealValue == BookInv => RfqDealRight
<1> SUFFICES ASSUME BookInv, NEW r \in RfqIds
             PROVE  RfqDealOf(r) = IF rfqs[r].status \in {"Closed", "Executed"}
                                  THEN OfferOf(StoredQuote(r)) ELSE NoDeal
  BY DEF RfqDealRight
<1>1. CASE rfqs[r].status \in {"Closed", "Executed"}
  BY <1>1, AcceptedIndex DEF RfqDealOf, StoredQuote
<1>2. CASE rfqs[r].status \notin {"Closed", "Executed"}
  BY <1>2 DEF BookInv, AcceptanceConsistent, RfqDealOf
<1> QED
  BY <1>1, <1>2

(* The fundings of the mapping, when no event is emitted. *)
LEMMA RfqFundedKept ==
  ASSUME RfqInv, LinesKept, rfqExecuted' = rfqExecuted
  PROVE  RfqFunded' = RfqFunded
<1>1. \A e \in rfqExecuted :
         /\ creditLines'[e[2]].borrower = creditLines[e[2]].borrower
         /\ OfferOf(creditLines'[e[2]]) = OfferOf(creditLines[e[2]])
  BY DEF RfqInv, ExecutedOnceAsQuoted, LinesKept, OfferOf
<1> QED
  BY <1>1 DEF RfqFunded

LEMMA RfqMappedInit == RFQSystemInit => RfqRequest!RequestInit
<1> SUFFICES ASSUME RFQSystemInit PROVE RfqRequest!RequestInit
  OBVIOUS
<1>1. BookInv /\ rfqExecuted = {} /\ \A r \in RfqIds : rfqs[r].status = "Open"
  BY RFQInitInv DEF RFQSystemInit
<1>2. \A r \in RfqIds : rfqs[r].borrower = NoOne /\ quotes[r] = << >>
  BY DEF RFQSystemInit, RFQInit, ZeroRFQ
<1>3. RfqPhase = [r \in RfqIds |-> "none"]
  BY <1>1, <1>2 DEF RfqPhase, RfqPhaseOf
<1>4. RfqBorrower = [r \in RfqIds |-> NoOne]
  BY <1>2 DEF RfqBorrower
<1>5. RfqOffered = [r \in RfqIds |-> {}]
  BY <1>2 DEF RfqOffered, RfqOffersOf
<1>6. RfqDeal = [r \in RfqIds |-> NoDeal]
  BY <1>1, RfqDealValue DEF RfqDeal, RfqDealRight
<1>7. RfqFunded = {}
  BY <1>1 DEF RfqFunded
<1> QED
  BY <1>3, <1>4, <1>5, <1>6, <1>7 DEF RfqRequest!RequestInit

(* Every request but rfqId looks the same in the mapping. *)
LEMMA RfqMappedOthers ==
  ASSUME NEW rfqId \in RfqIds,
         \A r \in RfqIds : r # rfqId => rfqs'[r] = rfqs[r] /\ quotes'[r] = quotes[r]
  PROVE  /\ RfqPhase' = [RfqPhase EXCEPT ![rfqId] = RfqPhaseOf(rfqId)']
         /\ RfqBorrower' = [RfqBorrower EXCEPT ![rfqId] = rfqs'[rfqId].borrower]
         /\ RfqOffered' = [RfqOffered EXCEPT ![rfqId] = RfqOffersOf(rfqId)']
         /\ RfqDeal' = [RfqDeal EXCEPT ![rfqId] = RfqDealOf(rfqId)']
<1>1. \A r \in RfqIds : r # rfqId => RfqPhaseOf(r)' = RfqPhaseOf(r)
  BY DEF RfqPhaseOf
<1>2. \A r \in RfqIds : r # rfqId => RfqOffersOf(r)' = RfqOffersOf(r)
  BY DEF RfqOffersOf
<1>3. \A r \in RfqIds : r # rfqId => RfqDealOf(r)' = RfqDealOf(r)
  <2> TAKE r \in RfqIds
  <2> HAVE r # rfqId
  <2>1. quotes'[r] = quotes[r]
    OBVIOUS
  <2>2. Flagged(r)' = Flagged(r)
    BY <2>1 DEF Flagged
  <2> QED
    BY <2>1, <2>2 DEF RfqDealOf
<1>4. RfqPhase' = [RfqPhase EXCEPT ![rfqId] = RfqPhaseOf(rfqId)']
  BY <1>1 DEF RfqPhase
<1>5. RfqBorrower' = [RfqBorrower EXCEPT ![rfqId] = rfqs'[rfqId].borrower]
  BY DEF RfqBorrower
<1>6. RfqOffered' = [RfqOffered EXCEPT ![rfqId] = RfqOffersOf(rfqId)']
  BY <1>2 DEF RfqOffered
<1>7. RfqDeal' = [RfqDeal EXCEPT ![rfqId] = RfqDealOf(rfqId)']
  BY <1>3 DEF RfqDeal
<1> QED
  BY <1>4, <1>5, <1>6, <1>7

(* What depends on the book of quotes alone. *)
LEMMA SameBook ==
  ASSUME quotes' = quotes
  PROVE  RfqOffered' = RfqOffered /\ RfqDeal' = RfqDeal
<1>1. \A r \in RfqIds : Flagged(r)' = Flagged(r)
  BY DEF Flagged
<1>2. \A r \in RfqIds : RfqDealOf(r)' = RfqDealOf(r) /\ RfqOffersOf(r)' = RfqOffersOf(r)
  <2> TAKE r \in RfqIds
  <2>1. Flagged(r)' = Flagged(r)
    BY <1>1
  <2>2. RfqDealOf(r)' = RfqDealOf(r)
    BY <2>1 DEF RfqDealOf
  <2>3. RfqOffersOf(r)' = RfqOffersOf(r)
    BY DEF RfqOffersOf
  <2> QED
    BY <2>2, <2>3
<1> QED
  BY <1>2 DEF RfqOffered, RfqDeal

LEMMA SameRequests ==
  ASSUME rfqs' = rfqs
  PROVE  RfqPhase' = RfqPhase /\ RfqBorrower' = RfqBorrower
  BY DEF RfqPhase, RfqBorrower, RfqPhaseOf

LEMMA RfqMappedStutter ==
  ASSUME RfqInv, UNCHANGED rfqVars, LinesKept
  PROVE  UNCHANGED RfqRequest!requestVars
  BY RfqFundedKept, SameBook, SameRequests DEF rfqVars, RfqRequest!requestVars

LEMMA RfqMappedCreate ==
  ASSUME RfqInv, NEW u \in Users, NEW amount, NEW duration,
         CreateRFQ(u, amount, duration)
  PROVE  RfqRequest!RequestNext
<1> USE EvmAssumption DEF RfqInv
<1> DEFINE r == rfqCounter
<1>1. /\ r \in RfqIds /\ rfqs[r].status = "Open" /\ rfqs[r].borrower = NoOne
      /\ rfqs' = [rfqs EXCEPT ![r] = [borrower |-> u, amount |-> amount,
                                      duration |-> duration, status |-> "Open"]]
      /\ UNCHANGED <<quotes, rfqExecuted, creditLines>>
  BY RfqBoundsAssumption
     DEF CreateRFQ, BookInv, RFQTypeOK, RfqCreatedBelowCounter, RfqIds, creditVars
<1> HIDE DEF r
<1>2. \A s \in RfqIds : s # r => rfqs'[s] = rfqs[s] /\ quotes'[s] = quotes[s]
  BY <1>1 DEF BookInv, RFQTypeOK
<1>3. rfqs'[r].status = "Open" /\ rfqs'[r].borrower = u /\ u # NoOne
  BY <1>1 DEF BookInv, RFQTypeOK
<1>4. RfqPhaseOf(r) = "none"
  BY <1>1 DEF RfqPhaseOf
<1>5. RfqPhase' = [RfqPhase EXCEPT ![r] = "open"]
  <2>1. \A s \in RfqIds : s = r => RfqPhaseOf(s)' = "open"
    BY <1>3 DEF RfqPhaseOf, RfqPhaseName
  <2>2. \A s \in RfqIds : s # r => RfqPhaseOf(s)' = RfqPhaseOf(s)
    BY <1>2 DEF RfqPhaseOf
  <2> QED
    BY <1>1, <2>1, <2>2 DEF RfqPhase
<1>6. RfqBorrower' = [RfqBorrower EXCEPT ![r] = u]
  <2>1. \A s \in RfqIds : rfqs'[s].borrower = IF s = r THEN u ELSE rfqs[s].borrower
    BY <1>2, <1>3
  <2>2. r \in RfqIds
    BY <1>1
  <2> QED
    BY <2>1, <2>2 DEF RfqBorrower
<1>7. RfqFunded' = RfqFunded
  BY <1>1 DEF RfqFunded
<1>8. RfqRequest!Make(r, u)
  BY <1>1, <1>4, <1>5, <1>6, <1>7, SameBook DEF RfqRequest!Make, RfqPhase
<1> QED
  BY <1>1, <1>8 DEF RfqRequest!RequestNext

LEMMA MappedSubmit ==
  ASSUME RfqInv, BookInv', NEW u \in Users, NEW r \in RfqIds, NEW rateBps \in Uint,
         NEW limit \in Uint, SubmitQuote(u, r, rateBps, limit)
  PROVE  RfqRequest!RequestNext
<1> USE DEF RfqInv
<1> DEFINE q == [lender |-> u, rateBps |-> rateBps, limit |-> limit, accepted |-> FALSE]
<1>1. /\ quotes' = [quotes EXCEPT ![r] = Append(quotes[r], q)]
      /\ quotes \in [RfqIds -> Seq(Quote)] /\ quotes[r] \in Seq(Quote)
      /\ rfqs[r].status = "Open"
      /\ UNCHANGED <<rfqs, acceptedQuote, rfqExecuted, creditLines>>
  BY DEF SubmitQuote, BookInv, RFQTypeOK, creditVars
<1>2. q \in Quote
  BY DEF Quote
<1>3. OfferOf(q) \in OfferSet
  BY DEF OfferOf, OfferSet
<1> HIDE DEF q
<1>4. /\ quotes'[r] = Append(quotes[r], q)
      /\ \A s \in RfqIds : s # r => rfqs'[s] = rfqs[s] /\ quotes'[s] = quotes[s]
  BY <1>1
<1>5. RfqOffersOf(r)' = RfqOffersOf(r) \cup {OfferOf(q)}
  <2>1. /\ DOMAIN quotes'[r] = DOMAIN quotes[r] \cup {Len(quotes[r]) + 1}
        /\ quotes'[r][Len(quotes[r]) + 1] = q
        /\ \A i \in DOMAIN quotes[r] : quotes'[r][i] = quotes[r][i]
    BY <1>1, <1>2, <1>4
  <2> QED
    BY <2>1 DEF RfqOffersOf
<1>6. RfqDealOf(r)' = RfqDealOf(r)
  <2>1. RfqDealRight' /\ RfqDealRight
    BY RfqDealValue, PTL
  <2>2. RfqDealOf(r) = NoDeal
    BY <1>1, <2>1 DEF RfqDealRight
  <2>3. RfqDealOf(r)' = NoDeal
    BY <1>1, <2>1 DEF RfqDealRight
  <2> QED
    BY <2>2, <2>3
<1>7. /\ RfqOffered' = [RfqOffered EXCEPT ![r] = @ \cup {OfferOf(q)}]
      /\ RfqDeal' = RfqDeal
  BY <1>4, <1>5, <1>6, RfqMappedOthers DEF RfqOffered, RfqDeal
<1>8. RfqFunded' = RfqFunded
  BY <1>1 DEF RfqFunded
<1>9. RfqPhase[r] \in {"none", "open"}
  BY <1>1 DEF RfqPhase, RfqPhaseOf, RfqPhaseName
<1>10. RfqRequest!Offer(r, OfferOf(q))
  BY <1>1, <1>7, <1>8, <1>9, SameRequests DEF RfqRequest!Offer
<1> QED
  BY <1>3, <1>10 DEF RfqRequest!RequestNext

LEMMA MappedAccept ==
  ASSUME RfqInv, BookInv', NEW u \in Users, NEW r \in RfqIds, NEW quoteIndex \in Nat,
         AcceptQuote(u, r, quoteIndex)
  PROVE  RfqRequest!RequestNext
<1> USE DEF RfqInv
<1> DEFINE n == quoteIndex + 1
           q == quotes[r][n]
           new == [q EXCEPT !.accepted = TRUE]
           offer == OfferOf(q)
<1>1. /\ quotes[r] \in Seq(Quote) /\ quotes \in [RfqIds -> Seq(Quote)]
      /\ n \in DOMAIN quotes[r] /\ q \in Quote
  BY DEF AcceptQuote, BookInv, RFQTypeOK
<1>2. new \in Quote /\ OfferOf(new) = offer /\ offer \in OfferSet
  BY <1>1 DEF Quote, OfferOf, OfferSet
<1>3. /\ quotes' = [quotes EXCEPT ![r] = [quotes[r] EXCEPT ![n] = new]]
      /\ acceptedQuote' = [acceptedQuote EXCEPT ![r] = quoteIndex]
      /\ rfqs' = [rfqs EXCEPT ![r].status = "Closed"]
      /\ rfqs[r].status = "Open" /\ rfqs[r].borrower = u /\ u # NoOne
      /\ UNCHANGED <<rfqExecuted, creditLines>>
  BY <1>1, EvmAssumption DEF AcceptQuote, creditVars
<1> HIDE DEF new
<1>4. /\ DOMAIN quotes'[r] = DOMAIN quotes[r] /\ quotes'[r][n] = new
      /\ \A i \in DOMAIN quotes[r] : i # n => quotes'[r][i] = quotes[r][i]
      /\ rfqs'[r].status = "Closed" /\ rfqs'[r].borrower = u
      /\ acceptedQuote'[r] = quoteIndex
  BY <1>1, <1>3 DEF BookInv, RFQTypeOK, RFQData
<1>5. \A s \in RfqIds : s # r => rfqs'[s] = rfqs[s] /\ quotes'[s] = quotes[s]
  BY <1>3 DEF BookInv, RFQTypeOK
<1>6. RfqPhaseOf(r) = "open" /\ RfqPhaseOf(r)' = "matched"
  BY <1>3, <1>4 DEF RfqPhaseOf, RfqPhaseName
<1>7. RfqOffersOf(r)' = RfqOffersOf(r) /\ offer \in RfqOffersOf(r)
  <2>1. \A i \in DOMAIN quotes[r] : OfferOf(quotes'[r][i]) = OfferOf(quotes[r][i])
    BY <1>2, <1>4
  <2> QED
    BY <1>1, <1>4, <2>1 DEF RfqOffersOf
<1>8. RfqDealOf(r)' = OfferOf(new)
  <2>1. RfqDealRight'
    BY RfqDealValue, PTL
  <2>2. StoredQuote(r)' = new
    BY <1>4 DEF StoredQuote
  <2> QED
    BY <1>4, <2>1, <2>2 DEF RfqDealRight
<1>9. RfqFunded' = RfqFunded
  BY <1>3 DEF RfqFunded
<1> HIDE DEF offer, q, n
<1>10. /\ RfqPhase' = [RfqPhase EXCEPT ![r] = "matched"]
       /\ RfqDeal' = [RfqDeal EXCEPT ![r] = offer]
       /\ RfqBorrower' = RfqBorrower /\ RfqOffered' = RfqOffered
  <2>1. RfqPhase' = [RfqPhase EXCEPT ![r] = "matched"]
    BY <1>5, <1>6, RfqMappedOthers
  <2>2. RfqDeal' = [RfqDeal EXCEPT ![r] = offer]
    BY <1>2, <1>5, <1>8, RfqMappedOthers
  <2>3. RfqOffered' = RfqOffered
    BY <1>5, <1>7, RfqMappedOthers DEF RfqOffered
  <2>4. \A s \in RfqIds : rfqs'[s].borrower = rfqs[s].borrower
    BY <1>3, <1>4, <1>5
  <2> QED
    BY <2>1, <2>2, <2>3, <2>4 DEF RfqBorrower
<1>11. RfqRequest!Match(r, offer)
  BY <1>6, <1>7, <1>9, <1>10 DEF RfqRequest!Match, RfqPhase, RfqOffered
<1> QED
  BY <1>2, <1>11 DEF RfqRequest!RequestNext

LEMMA MappedExecute ==
  ASSUME RfqInv, LinesKept, ExecutedOnceAsQuoted',
         NEW u \in Users, NEW r \in RfqIds, ExecuteRFQ(u, r)
  PROVE  RfqRequest!RequestNext
<1> USE DEF RfqInv
<1> DEFINE id == creditLineCounter
<1>1. /\ rfqs[r].status = "Closed" /\ rfqs[r].borrower = u /\ u # NoOne
      /\ rfqs' = [rfqs EXCEPT ![r].status = "Executed"]
      /\ rfqExecuted' = rfqExecuted \cup {<<r, id>>}
      /\ UNCHANGED <<quotes, acceptedQuote>>
  BY EvmAssumption DEF ExecuteRFQ
<1> HIDE DEF id
<1>2. /\ rfqs'[r].status = "Executed" /\ rfqs'[r].borrower = u
      /\ \A s \in RfqIds : s # r => rfqs'[s] = rfqs[s]
      /\ \A s \in RfqIds : rfqs'[s].borrower = rfqs[s].borrower
  BY <1>1 DEF BookInv, RFQTypeOK, RFQData
<1>3. RfqPhaseOf(r) = "matched" /\ RfqPhaseOf(r)' = "funded"
  BY <1>1, <1>2 DEF RfqPhaseOf, RfqPhaseName
<1>4. /\ RfqPhase' = [RfqPhase EXCEPT ![r] = "funded"]
      /\ UNCHANGED <<RfqBorrower, RfqOffered, RfqDeal>>
  <2>1. RfqPhase' = [RfqPhase EXCEPT ![r] = "funded"]
    BY <1>1, <1>2, <1>3, RfqMappedOthers
  <2>2. RfqBorrower' = RfqBorrower
    BY <1>2 DEF RfqBorrower
  <2>3. RfqOffered' = RfqOffered /\ RfqDeal' = RfqDeal
    BY <1>1, SameBook
  <2> QED
    BY <2>1, <2>2, <2>3
<1>5. RfqDeal[r] = OfferOf(StoredQuote(r)) /\ RfqBorrower[r] = u
  <2>1. RfqDealRight
    BY RfqDealValue
  <2> QED
    BY <1>1, <2>1 DEF RfqDealRight, RfqDeal, RfqBorrower
<1>6. creditLines'[id].borrower = u /\ OfferOf(creditLines'[id]) = OfferOf(StoredQuote(r))
  <2>1. <<r, id>> \in rfqExecuted' /\ <<r, id>>[1] = r /\ <<r, id>>[2] = id
    BY <1>1
  <2>2. StoredQuote(r)' = StoredQuote(r)
    BY <1>1 DEF StoredQuote
  <2>3. /\ creditLines'[id].borrower = rfqs'[r].borrower
        /\ creditLines'[id].lender = StoredQuote(r)'.lender
        /\ creditLines'[id].limit = StoredQuote(r)'.limit
        /\ creditLines'[id].rateBps = StoredQuote(r)'.rateBps
    BY <2>1 DEF ExecutedOnceAsQuoted, MatchesQuote
  <2> QED
    BY <1>2, <2>2, <2>3 DEF OfferOf
<1>7. RfqFunded' = RfqFunded \cup {[request |-> r, borrower |-> RfqBorrower[r],
                                    offer |-> RfqDeal[r]]}
  <2>1. \A e \in rfqExecuted :
           /\ creditLines'[e[2]].borrower = creditLines[e[2]].borrower
           /\ OfferOf(creditLines'[e[2]]) = OfferOf(creditLines[e[2]])
    BY DEF ExecutedOnceAsQuoted, LinesKept, OfferOf
  <2>2. <<r, id>>[1] = r /\ <<r, id>>[2] = id
    OBVIOUS
  <2> QED
    BY <1>1, <1>5, <1>6, <2>1, <2>2 DEF RfqFunded
<1>8. RfqRequest!Fund(r)
  BY <1>3, <1>4, <1>7 DEF RfqRequest!Fund, RfqPhase
<1> QED
  BY <1>8 DEF RfqRequest!RequestNext

LEMMA RfqMappedCancel ==
  ASSUME RfqInv, NEW u \in Users, NEW r \in RfqIds, CancelRFQ(u, r)
  PROVE  RfqRequest!RequestNext
<1> USE DEF RfqInv
<1>1. /\ rfqs[r].status = "Open" /\ rfqs[r].borrower = u /\ u # NoOne
      /\ rfqs' = [rfqs EXCEPT ![r].status = "Cancelled"]
      /\ UNCHANGED <<quotes, acceptedQuote, rfqExecuted, creditLines>>
  BY EvmAssumption DEF CancelRFQ, creditVars
<1>2. /\ rfqs'[r].status = "Cancelled" /\ rfqs'[r].borrower = u
      /\ \A s \in RfqIds : s # r => rfqs'[s] = rfqs[s]
      /\ \A s \in RfqIds : rfqs'[s].borrower = rfqs[s].borrower
  BY <1>1 DEF BookInv, RFQTypeOK, RFQData
<1>3. RfqPhaseOf(r) = "open" /\ RfqPhaseOf(r)' = "cancelled"
  BY <1>1, <1>2 DEF RfqPhaseOf, RfqPhaseName
<1>4. RfqPhase' = [RfqPhase EXCEPT ![r] = "cancelled"]
  BY <1>1, <1>2, <1>3, RfqMappedOthers
<1>5. UNCHANGED <<RfqBorrower, RfqOffered, RfqDeal, RfqFunded>>
  BY <1>1, <1>2, SameBook DEF RfqBorrower, RfqFunded
<1>6. RfqRequest!Cancel(r)
  BY <1>3, <1>4, <1>5 DEF RfqRequest!Cancel, RfqPhase
<1> QED
  BY <1>6 DEF RfqRequest!RequestNext

LEMMA RfqMappedStep ==
  RfqInv /\ RfqInv' /\ [RFQSystemNext]_rfqSystemVars
    => [RfqRequest!RequestNext]_(RfqRequest!requestVars)
<1> SUFFICES ASSUME RfqInv, RfqInv', [RFQSystemNext]_rfqSystemVars
             PROVE  RfqRequest!RequestNext \/ UNCHANGED RfqRequest!requestVars
  OBVIOUS
<1>1. BookInv' /\ ExecutedOnceAsQuoted'
  BY DEF RfqInv
<1>2. CASE RFQNext /\ UNCHANGED now
  <2> PICK u \in Users :
         \/ \E amount \in Amounts, duration \in Durations : CreateRFQ(u, amount, duration)
         \/ \E rfqId \in RfqIds :
               \/ \E rateBps \in Rates, limit \in Limits : SubmitQuote(u, rfqId, rateBps, limit)
               \/ \E quoteIndex \in 0 .. MaxQuotes - 1 : AcceptQuote(u, rfqId, quoteIndex)
               \/ ExecuteRFQ(u, rfqId)
               \/ CancelRFQ(u, rfqId)
    BY <1>2, Zenon DEF RFQNext
  <2>1. CASE \E amount \in Amounts, duration \in Durations : CreateRFQ(u, amount, duration)
    BY <2>1, RfqMappedCreate
  <2>2. ASSUME NEW r \in RfqIds, NEW rateBps \in Rates, NEW limit \in Limits,
               SubmitQuote(u, r, rateBps, limit)
        PROVE  RfqRequest!RequestNext
    BY <1>1, <2>2, CreditAssumption, MappedSubmit
  <2>3. ASSUME NEW r \in RfqIds, NEW quoteIndex \in 0 .. MaxQuotes - 1,
               AcceptQuote(u, r, quoteIndex)
        PROVE  RfqRequest!RequestNext
    <3>1. quoteIndex \in Nat
      BY RfqBoundsAssumption
    <3> QED
      BY <1>1, <2>3, <3>1, MappedAccept
  <2>4. ASSUME NEW r \in RfqIds, ExecuteRFQ(u, r)
        PROVE  RfqRequest!RequestNext
    <3>1. LinesKept
      <4>1. rfqs[r].status = "Closed" /\ rfqs[r].borrower = u
        BY <2>4 DEF ExecuteRFQ
      <4>2. StoredQuote(r) \in Quote
        BY <4>1, AcceptedIndex DEF RfqInv
      <4>3. u \in Address /\ StoredQuote(r).lender \in Address
            /\ StoredQuote(r).limit \in Uint /\ StoredQuote(r).rateBps \in Uint
            /\ now + rfqs[r].duration \in Uint
        BY <2>4, <4>2 DEF Quote, Address, ExecuteRFQ
      <4>4. OpenCreditLine(u, StoredQuote(r).lender, StoredQuote(r).limit,
                           StoredQuote(r).rateBps, now + rfqs[r].duration)
        BY <2>4, <4>1 DEF ExecuteRFQ
      <4> QED
        BY <1>2, <4>3, <4>4, OpenInv DEF RfqInv
    <3> QED
      BY <1>1, <2>4, <3>1, MappedExecute
  <2>5. ASSUME NEW r \in RfqIds, CancelRFQ(u, r)
        PROVE  RfqRequest!RequestNext
    BY <2>5, RfqMappedCancel
  <2> QED
    BY <2>1, <2>2, <2>3, <2>4, <2>5
<1>3. CASE CreditNext /\ UNCHANGED <<now, rfqVars>>
  <2>1. LinesKept
    BY <1>3, CreditNextInv DEF RfqInv
  <2> QED
    BY <1>3, <2>1, RfqMappedStutter
<1>4. CASE Tick /\ UNCHANGED <<creditVars, rfqVars>>
  <2>1. LinesKept
    BY <1>4, TickInv DEF RfqInv
  <2> QED
    BY <1>4, <2>1, RfqMappedStutter
<1>5. CASE UNCHANGED rfqSystemVars
  <2>1. UNCHANGED <<now, creditVars>> /\ UNCHANGED rfqVars
    BY <1>5 DEF rfqSystemVars
  <2>2. LinesKept
    BY <2>1, CreditStutterInv DEF RfqInv
  <2> QED
    BY <2>1, <2>2, RfqMappedStutter
<1> QED
  BY <1>2, <1>3, <1>4, <1>5 DEF RFQSystemNext

(***************************************************************************)
(* Every behaviour of the RFQ contract is a behaviour of the abstract      *)
(* request: the flag, the index, the status and the credit lines together  *)
(* do what FinancingRequest promises.                                      *)
(***************************************************************************)
THEOREM RFQImplementsRequest == RFQSpec => RfqKeepsPromise
<1>1. RFQSpec => RfqRequest!RequestInit
  BY RfqMappedInit DEF RFQSpec
<1>2. RFQSpec => [][RfqRequest!RequestNext]_(RfqRequest!requestVars)
  BY RFQAlwaysInv, RfqMappedStep, PTL DEF RFQSpec
<1> QED
  BY <1>1, <1>2, PTL DEF RfqKeepsPromise, RfqRequest!RequestSpec
=============================================================================
