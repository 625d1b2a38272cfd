-------------------------------- MODULE RFQ --------------------------------
(***************************************************************************)
(* The request-for-quote contract (RFQ.sol) with the credit contract it    *)
(* calls.  rfqs is a Solidity mapping: an id that was never written reads  *)
(* as ZeroRFQ, whose status is the first member of the enum, Open.         *)
(* collateralType, flowDescription, collateralRequired and the two         *)
(* timestamps that no function reads are left out.                         *)
(***************************************************************************)
EXTENDS X402Credit

CONSTANTS
    MaxRfqs,    \* bound: RFQs created
    MaxQuotes   \* bound: quotes submitted for one RFQ

ASSUME RfqBoundsAssumption == MaxRfqs \in Nat /\ MaxQuotes \in Nat

VARIABLES
    rfqs,           \* rfqId -> RFQData
    quotes,         \* rfqId -> Quote[]
    acceptedQuote,  \* rfqId -> index into Quote[], counted from 0
    rfqCounter,
    rfqExecuted     \* the RFQExecuted events <<rfqId, creditLineId>> emitted

rfqVars == <<rfqs, quotes, acceptedQuote, rfqCounter, rfqExecuted>>

RfqIds == 0 .. MaxRfqs - 1

RFQStatus == {"Open", "Closed", "Executed", "Cancelled"}

RFQData == [borrower : Address, amount : Uint, duration : Uint, status : RFQStatus]

ZeroRFQ == [borrower |-> NoOne, amount |-> 0, duration |-> 0, status |-> "Open"]

Quote == [lender : Users, rateBps : Uint, limit : Uint, accepted : BOOLEAN]

RFQTypeOK ==
    /\ rfqs \in [RfqIds -> RFQData]
    /\ quotes \in [RfqIds -> Seq(Quote)]
    /\ acceptedQuote \in [RfqIds -> Nat]
    /\ rfqCounter \in 0 .. MaxRfqs
    /\ rfqExecuted \subseteq RfqIds \X (1 .. MaxLines)

RFQInit ==
    /\ rfqs = [r \in RfqIds |-> ZeroRFQ]
    /\ quotes = [r \in RfqIds |-> << >>]
    /\ acceptedQuote = [r \in RfqIds |-> 0]
    /\ rfqCounter = 0
    /\ rfqExecuted = {}

CreateRFQ(sender, amount, duration) ==
    /\ rfqCounter < MaxRfqs
    /\ rfqs' = [rfqs EXCEPT ![rfqCounter] =
                   [borrower |-> sender, amount |-> amount,
                    duration |-> duration, status |-> "Open"]]
    /\ rfqCounter' = rfqCounter + 1
    /\ UNCHANGED <<quotes, acceptedQuote, rfqExecuted, creditVars>>

(* Mutant: a lender's new quote takes the place of its earlier one. *)
SubmitQuoteReplacing(sender, rfqId, rateBps, limit) ==
    /\ rfqs[rfqId].status = "Open"
    /\ rfqs[rfqId].borrower # sender
    /\ Len(quotes[rfqId]) < MaxQuotes
    /\ quotes' = [quotes EXCEPT ![rfqId] =
                     Append(SelectSeq(@, LAMBDA q : q.lender # sender),
                            [lender |-> sender, rateBps |-> rateBps,
                             limit |-> limit, accepted |-> FALSE])]
    /\ UNCHANGED <<rfqs, acceptedQuote, rfqCounter, rfqExecuted, creditVars>>

(* The id is not compared with rfqCounter: an id still to be created reads *)
(* as an Open RFQ of nobody and takes quotes.                              *)
SubmitQuote(sender, rfqId, rateBps, limit) ==
    /\ rfqs[rfqId].status = "Open"
    /\ rfqs[rfqId].borrower # sender
    /\ Len(quotes[rfqId]) < MaxQuotes
    /\ quotes' = [quotes EXCEPT ![rfqId] =
                     Append(@, [lender |-> sender, rateBps |-> rateBps,
                                limit |-> limit, accepted |-> FALSE])]
    /\ UNCHANGED <<rfqs, acceptedQuote, rfqCounter, rfqExecuted, creditVars>>

(* Mutant: accepting leaves the RFQ open. *)
AcceptQuoteStayingOpen(sender, rfqId, quoteIndex) ==
    /\ rfqs[rfqId].status = "Open"
    /\ rfqs[rfqId].borrower = sender
    /\ quoteIndex < Len(quotes[rfqId])
    /\ ~quotes[rfqId][quoteIndex + 1].accepted
    /\ quotes' = [quotes EXCEPT ![rfqId][quoteIndex + 1].accepted = TRUE]
    /\ acceptedQuote' = [acceptedQuote EXCEPT ![rfqId] = quoteIndex]
    /\ UNCHANGED <<rfqs, rfqCounter, rfqExecuted, creditVars>>

AcceptQuote(sender, rfqId, quoteIndex) ==
    /\ rfqs[rfqId].status = "Open"
    /\ rfqs[rfqId].borrower = sender
    /\ quoteIndex < Len(quotes[rfqId])
    /\ ~quotes[rfqId][quoteIndex + 1].accepted
    /\ quotes' = [quotes EXCEPT ![rfqId][quoteIndex + 1].accepted = TRUE]
    /\ acceptedQuote' = [acceptedQuote EXCEPT ![rfqId] = quoteIndex]
    /\ rfqs' = [rfqs EXCEPT ![rfqId].status = "Closed"]
    /\ UNCHANGED <<rfqCounter, rfqExecuted, creditVars>>

(* The quote that executeRFQ reads through the stored index. *)
StoredQuote(rfqId) == quotes[rfqId][acceptedQuote[rfqId] + 1]

(* Mutant: the status is not written. *)
ExecuteRFQRepeatable(sender, rfqId) ==
    /\ rfqs[rfqId].status = "Closed"
    /\ rfqs[rfqId].borrower = sender
    /\ now + rfqs[rfqId].duration \in Uint
    /\ OpenCreditLine(rfqs[rfqId].borrower, StoredQuote(rfqId).lender,
                      StoredQuote(rfqId).limit, StoredQuote(rfqId).rateBps,
                      now + rfqs[rfqId].duration)
    /\ rfqExecuted' = rfqExecuted \cup {<<rfqId, creditLineCounter>>}
    /\ UNCHANGED <<rfqs, quotes, acceptedQuote, rfqCounter>>

(* The credit line is opened before the status is written; nonReentrant    *)
(* and a credit contract that does not call back make it one step.         *)
ExecuteRFQ(sender, rfqId) ==
    /\ rfqs[rfqId].status = "Closed"
    /\ rfqs[rfqId].borrower = sender
    /\ now + rfqs[rfqId].duration \in Uint
    /\ OpenCreditLine(rfqs[rfqId].borrower, StoredQuote(rfqId).lender,
                      StoredQuote(rfqId).limit, StoredQuote(rfqId).rateBps,
                      now + rfqs[rfqId].duration)
    /\ rfqs' = [rfqs EXCEPT ![rfqId].status = "Executed"]
    /\ rfqExecuted' = rfqExecuted \cup {<<rfqId, creditLineCounter>>}
    /\ UNCHANGED <<quotes, acceptedQuote, rfqCounter>>

(* Mutant: a closed RFQ can still be cancelled. *)
CancelRFQUntilExecuted(sender, rfqId) ==
    /\ rfqs[rfqId].borrower = sender
    /\ rfqs[rfqId].status \in {"Open", "Closed"}
    /\ rfqs' = [rfqs EXCEPT ![rfqId].status = "Cancelled"]
    /\ UNCHANGED <<quotes, acceptedQuote, rfqCounter, rfqExecuted, creditVars>>

CancelRFQ(sender, rfqId) ==
    /\ rfqs[rfqId].borrower = sender
    /\ rfqs[rfqId].status = "Open"
    /\ rfqs' = [rfqs EXCEPT ![rfqId].status = "Cancelled"]
    /\ UNCHANGED <<quotes, acceptedQuote, rfqCounter, rfqExecuted, creditVars>>

(* Every transaction of the RFQ contract. *)
RFQNext ==
    \E sender \in Users :
        \/ \E amount \in Amounts, duration \in Durations :
              CreateRFQ(sender, amount, duration)
        \/ \E rfqId \in RfqIds :
              \/ \E rateBps \in Rates, limit \in Limits :
                    SubmitQuote(sender, rfqId, rateBps, limit)
              \/ \E quoteIndex \in 0 .. MaxQuotes - 1 :
                    AcceptQuote(sender, rfqId, quoteIndex)
              \/ ExecuteRFQ(sender, rfqId)
              \/ CancelRFQ(sender, rfqId)

(* The RFQ contract on its chain, with the transactions others send to the *)
(* credit contract, and time.                                              *)
RFQSystemInit == TimeInit /\ CreditInit /\ RFQInit

RFQSystemNext ==
    \/ RFQNext /\ UNCHANGED now
    \/ CreditNext /\ UNCHANGED <<now, rfqVars>>
    \/ Tick /\ UNCHANGED <<creditVars, rfqVars>>

rfqSystemVars == <<now, creditVars, rfqVars>>

RFQSpec == RFQSystemInit /\ [][RFQSystemNext]_rfqSystemVars

-----------------------------------------------------------------------------

RFQSystemTypeOK == TimeTypeOK /\ CreditTypeOK /\ RFQTypeOK

Flagged(rfqId) == {i \in DOMAIN quotes[rfqId] : quotes[rfqId][i].accepted}

(***************************************************************************)
(* The three records of an acceptance agree: the accepted flag of the      *)
(* quote, the index in acceptedQuote and the status.  executeRFQ reads the *)
(* index and AgentFinance searches for the flag, so they open the same     *)
(* line only if both name one quote.                                       *)
(***************************************************************************)
AcceptanceConsistent ==
    \A r \in RfqIds :
        Flagged(r) = IF rfqs[r].status \in {"Closed", "Executed"}
                       THEN {acceptedQuote[r] + 1}
                       ELSE {}

(***************************************************************************)
(* Execution happens once and on the accepted terms: an executed RFQ has   *)
(* exactly one RFQExecuted event, no other RFQ has one, no two RFQs share  *)
(* a line, and the line's parties, limit and rate are those of the quote   *)
(* that carries the accepted flag.                                         *)
(***************************************************************************)
LinesOf(rfqId) == {id \in 1 .. MaxLines : <<rfqId, id>> \in rfqExecuted}

MatchesQuote(line, r, q) ==
    /\ line.borrower = rfqs[r].borrower
    /\ line.lender = q.lender
    /\ line.limit = q.limit
    /\ line.rateBps = q.rateBps

ExecutedOnceAsQuoted ==
    /\ \A r \in RfqIds : rfqs[r].status = "Executed" <=> LinesOf(r) # {}
    /\ \A e \in rfqExecuted :
          /\ e[2] \in DOMAIN creditLines
          /\ MatchesQuote(creditLines[e[2]], e[1], StoredQuote(e[1]))
    /\ \A e, f \in rfqExecuted : e[1] = f[1] \/ e[2] = f[2] => e = f

(***************************************************************************)
(* The book of quotes is append-only: no call rewrites or drops a quote,   *)
(* an accepted flag is never cleared, and once the RFQ has left Open the   *)
(* book does not change at all.  The index the borrower passes to          *)
(* acceptQuote therefore names the quote it named when the book was read.  *)
(***************************************************************************)
SameOffer(p, q) == p.lender = q.lender /\ p.rateBps = q.rateBps /\ p.limit = q.limit

BookKept ==
    \A r \in RfqIds :
        /\ Len(quotes[r]) <= Len(quotes'[r])
        /\ \A i \in DOMAIN quotes[r] :
              /\ SameOffer(quotes[r][i], quotes'[r][i])
              /\ quotes[r][i].accepted => quotes'[r][i].accepted
        /\ rfqs[r].status # "Open" => quotes'[r] = quotes[r]

(***************************************************************************)
(* The borrower, amount and duration of a created RFQ never change, so no  *)
(* two creations share an id, and an RFQ that left Open never returns.     *)
(***************************************************************************)
RequestKept ==
    \A r \in 0 .. rfqCounter - 1 :
        /\ rfqs'[r].borrower = rfqs[r].borrower
        /\ rfqs'[r].amount = rfqs[r].amount
        /\ rfqs'[r].duration = rfqs[r].duration
        /\ rfqs[r].status # "Open" => rfqs'[r].status # "Open"

(***************************************************************************)
(* What was agreed is never rewritten: the quotes of a book, what an RFQ   *)
(* asks for, and the terms of the lines, those of other requests included. *)
(***************************************************************************)
NothingRewritten == [][BookKept /\ RequestKept /\ LineTermsKept]_rfqSystemVars

(***************************************************************************)
(* RFQ.sol:99 rejects a quote with "Cannot quote own RFQ": no RFQ carries  *)
(* a quote of its own borrower.                                            *)
(***************************************************************************)
NoSelfQuote ==
    \A r \in RfqIds :
        \A i \in DOMAIN quotes[r] : quotes[r][i].lender # rfqs[r].borrower
=============================================================================
