----------------------------- MODULE X402Credit -----------------------------
(***************************************************************************)
(* The x402 credit contract (MockX402Credit.sol).  Line identifiers start  *)
(* at 1, so creditLines is a sequence and creditLineCounter the next free  *)
(* index; an index outside it is the zero record, whose active flag is     *)
(* false.  No function checks its caller or the expiry, and no function    *)
(* ever clears the active flag.                                            *)
(***************************************************************************)
EXTENDS EVM

CONSTANTS
    MaxTime,        \* bound: the last block timestamp explored
    Limits,         \* bound: credit limits that callers pass
    Rates,          \* bound: interest rates (basis points) that callers pass
    Durations,      \* bound: durations that callers pass
    MaxLines,       \* bound: credit lines opened
    DirectParties   \* bound: parties named by those who call openCreditLine
                    \* themselves instead of through RFQ, Auction or AgentFinance

ASSUME CreditAssumption ==
    /\ MaxTime \in 1 .. MaxUint
    /\ Limits \subseteq Uint
    /\ Rates \subseteq Uint
    /\ Durations \subseteq Uint
    /\ MaxLines \in Nat
    /\ DirectParties \subseteq Users

VARIABLES
    now,            \* block.timestamp
    creditLines     \* creditLineId -> CreditLine

TimeTypeOK == now \in 1 .. MaxTime

TimeInit == now = 1

(* A later block: its timestamp is larger.  Any number of transactions     *)
(* share one timestamp.                                                    *)
Tick ==
    /\ now < MaxTime
    /\ now' = now + 1

creditVars == creditLines

CreditLine == [borrower : Address, lender : Address, limit : Uint,
               drawn : Uint, rateBps : Uint, expiresAt : Uint, active : BOOLEAN]

CreditTypeOK == creditLines \in Seq(CreditLine)

CreditInit == creditLines = << >>

(* Mutant: the counter is never advanced. *)
CounterStuck == 1

creditLineCounter == Len(creditLines) + 1

OpenCreditLine(borrower, lender, limit, rateBps, expiresAt) ==
    /\ Len(creditLines) < MaxLines
    /\ creditLines' =
          Append(creditLines,
                 [borrower |-> borrower, lender |-> lender, limit |-> limit,
                  drawn |-> 0, rateBps |-> rateBps, expiresAt |-> expiresAt,
                  active |-> TRUE])

(* Mutant: the amount alone is compared with the limit. *)
DrawIgnoringDrawn(id, amount) ==
    /\ id \in DOMAIN creditLines
    /\ creditLines[id].active
    /\ amount <= creditLines[id].limit
    /\ creditLines' = [creditLines EXCEPT ![id].drawn = @ + amount]

Draw(id, amount) ==
    /\ id \in DOMAIN creditLines
    /\ creditLines[id].active
    /\ creditLines[id].drawn + amount \in Uint
    /\ creditLines[id].drawn + amount <= creditLines[id].limit
    /\ creditLines' = [creditLines EXCEPT ![id].drawn = @ + amount]

Repay(id, amount) ==
    /\ id \in DOMAIN creditLines
    /\ creditLines[id].active
    /\ creditLines[id].drawn >= amount
    /\ creditLines' = [creditLines EXCEPT ![id].drawn = @ - amount]

(* Every transaction sent to the credit contract itself, by anyone. *)
CreditNext ==
    \/ \E borrower, lender \in DirectParties, limit \in Limits, rateBps \in Rates :
          OpenCreditLine(borrower, lender, limit, rateBps, now)
    \/ \E id \in DOMAIN creditLines, amount \in Amounts :
          Draw(id, amount) \/ Repay(id, amount)

(***************************************************************************)
(* A line is never drawn beyond its limit, however draws and repayments of *)
(* many callers interleave (MockX402Credit.draw, repay).                   *)
(***************************************************************************)
DrawnWithinLimit ==
    \A id \in DOMAIN creditLines : creditLines[id].drawn <= creditLines[id].limit

(***************************************************************************)
(* What a lender agreed to is never rewritten and never disappears: the    *)
(* lines only grow in number and a line's terms are those it was opened    *)
(* with, only the drawn amount moves.                                      *)
(***************************************************************************)
Terms(line) == [line EXCEPT !.drawn = 0]

LineTermsKept ==
    /\ DOMAIN creditLines \subseteq DOMAIN creditLines'
    /\ \A id \in DOMAIN creditLines : Terms(creditLines'[id]) = Terms(creditLines[id])

LineTermsFixed == [][LineTermsKept]_creditVars
=============================================================================
