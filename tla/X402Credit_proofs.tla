------------------------- MODULE X402Credit_proofs -------------------------
(***************************************************************************)
(* Lemmas about the credit contract, one per kind of transaction, for the  *)
(* proofs of the contracts that open credit lines.                         *)
(***************************************************************************)
EXTENDS X402Credit, TLAPS

CreditInv == CreditTypeOK /\ TimeTypeOK /\ DrawnWithinLimit /\ Len(creditLines) <= MaxLines

(* Every line there is stays, with the terms it had. *)
LinesKept ==
    /\ DOMAIN creditLines \subseteq DOMAIN creditLines'
    /\ \A id \in DOMAIN creditLines :
          /\ creditLines'[id].borrower = creditLines[id].borrower
          /\ creditLines'[id].lender = creditLines[id].lender
          /\ creditLines'[id].limit = creditLines[id].limit
          /\ creditLines'[id].rateBps = creditLines[id].rateBps

LEMMA CreditInitInv == CreditInit /\ TimeInit => CreditInv
  BY CreditAssumption, EvmAssumption
     DEF CreditInit, TimeInit, CreditInv, CreditTypeOK, TimeTypeOK, DrawnWithinLimit

(* Opening a line adds it under the next id and touches no other. *)
LEMMA OpenInv ==
  ASSUME CreditInv, UNCHANGED now,
         NEW borrower \in Address, NEW lender \in Address, NEW limit \in Uint,
         NEW rateBps \in Uint, NEW expiresAt \in Uint,
         OpenCreditLine(borrower, lender, limit, rateBps, expiresAt)
  PROVE  /\ CreditInv'
         /\ LinesKept
         /\ LineTermsKept
         /\ creditLineCounter \in 1 .. MaxLines
         /\ creditLineCounter \notin DOMAIN creditLines
         /\ creditLineCounter \in DOMAIN creditLines'
         /\ creditLines'[creditLineCounter].borrower = borrower
         /\ creditLines'[creditLineCounter].lender = lender
         /\ creditLines'[creditLineCounter].limit = limit
         /\ creditLines'[creditLineCounter].rateBps = rateBps
<1> DEFINE line == [borrower |-> borrower, lender |-> lender, limit |-> limit,
                    drawn |-> 0, rateBps |-> rateBps, expiresAt |-> expiresAt,
                    active |-> TRUE]
<1>1. line \in CreditLine
  BY EvmAssumption DEF CreditLine, Uint
<1>2. /\ creditLines \in Seq(CreditLine) /\ creditLines' = Append(creditLines, line)
      /\ Len(creditLines) < MaxLines /\ MaxLines \in Nat
  BY CreditAssumption DEF OpenCreditLine, CreditInv, CreditTypeOK
<1>3. line.drawn = 0 /\ line.borrower = borrower /\ line.lender = lender
      /\ line.limit = limit /\ line.rateBps = rateBps /\ 0 <= limit
  BY EvmAssumption DEF Uint
<1> HIDE DEF line
<1>4. /\ creditLines' \in Seq(CreditLine)
      /\ Len(creditLines') = Len(creditLines) + 1
      /\ creditLines'[creditLineCounter] = line
      /\ \A id \in DOMAIN creditLines : creditLines'[id] = creditLines[id]
      /\ DOMAIN creditLines' = DOMAIN creditLines \cup {creditLineCounter}
      /\ creditLineCounter \in 1 .. MaxLines
      /\ creditLineCounter \notin DOMAIN creditLines
  BY <1>1, <1>2 DEF creditLineCounter
<1>5. DrawnWithinLimit'
  BY <1>3, <1>4 DEF DrawnWithinLimit, CreditInv
<1>6. CreditInv'
  BY <1>2, <1>4, <1>5 DEF CreditInv, CreditTypeOK, TimeTypeOK
<1>7. LinesKept /\ LineTermsKept
  BY <1>4 DEF LinesKept, LineTermsKept, Terms
<1> QED
  BY <1>3, <1>4, <1>6, <1>7

(* Drawing and repaying move only the drawn amount. *)
LEMMA UseInv ==
  ASSUME CreditInv, UNCHANGED now, NEW id \in DOMAIN creditLines, NEW amount \in Amounts,
         Draw(id, amount) \/ Repay(id, amount)
  PROVE  CreditInv' /\ LinesKept /\ LineTermsKept
<1> USE EvmAssumption DEF Uint
<1>1. creditLines \in Seq(CreditLine) /\ creditLines[id] \in CreditLine
  BY DEF CreditInv, CreditTypeOK
<1>2. PICK d \in Uint : /\ creditLines' = [creditLines EXCEPT ![id].drawn = d]
                        /\ d <= creditLines[id].limit
  <2>1. CASE Draw(id, amount)
    <3>1. /\ creditLines[id].drawn + amount \in 0 .. MaxUint
          /\ creditLines[id].drawn + amount <= creditLines[id].limit
          /\ creditLines' = [creditLines EXCEPT ![id].drawn = creditLines[id].drawn + amount]
      BY <2>1 DEF Draw
    <3> QED
      BY <3>1
  <2>2. CASE Repay(id, amount)
    <3>1. creditLines[id].drawn <= creditLines[id].limit
      BY DEF CreditInv, DrawnWithinLimit
    <3>2. /\ creditLines[id].drawn \in 0 .. MaxUint /\ creditLines[id].limit \in 0 .. MaxUint
          /\ amount \in 0 .. MaxUint
      BY <1>1 DEF CreditLine
    <3>3. /\ creditLines[id].drawn - amount \in 0 .. MaxUint
          /\ creditLines[id].drawn - amount <= creditLines[id].limit
          /\ creditLines' = [creditLines EXCEPT ![id].drawn = creditLines[id].drawn - amount]
      BY <2>2, <3>1, <3>2 DEF Repay
    <3> QED
      BY <3>3
  <2> QED
    BY <2>1, <2>2
<1> DEFINE line == [creditLines[id] EXCEPT !.drawn = d]
<1>3. line \in CreditLine /\ line.drawn = d /\ line.limit = creditLines[id].limit
      /\ line.borrower = creditLines[id].borrower /\ line.lender = creditLines[id].lender
      /\ line.rateBps = creditLines[id].rateBps /\ Terms(line) = Terms(creditLines[id])
  BY <1>1 DEF CreditLine, Terms
<1>4. creditLines' = [creditLines EXCEPT ![id] = line]
  BY <1>2
<1> HIDE DEF line
<1>5. /\ creditLines' \in Seq(CreditLine) /\ Len(creditLines') = Len(creditLines)
      /\ DOMAIN creditLines' = DOMAIN creditLines
      /\ creditLines'[id] = line
      /\ \A j \in DOMAIN creditLines : j # id => creditLines'[j] = creditLines[j]
  BY <1>1, <1>3, <1>4
<1>6. DrawnWithinLimit'
  BY <1>2, <1>3, <1>5 DEF CreditInv, DrawnWithinLimit
<1>7. CreditInv'
  BY <1>5, <1>6 DEF CreditInv, CreditTypeOK, TimeTypeOK
<1> QED
  BY <1>3, <1>5, <1>7 DEF LinesKept, LineTermsKept

LEMMA CreditNextInv ==
  ASSUME CreditInv, CreditNext, UNCHANGED now
  PROVE  CreditInv' /\ LinesKept /\ LineTermsKept
<1> USE EvmAssumption, CreditAssumption DEF Uint
<1>1. CASE \E borrower, lender \in DirectParties, limit \in Limits, rateBps \in Rates :
              OpenCreditLine(borrower, lender, limit, rateBps, now)
  <2>1. PICK borrower \in DirectParties, lender \in DirectParties, limit \in Limits,
             rateBps \in Rates : OpenCreditLine(borrower, lender, limit, rateBps, now)
    BY <1>1
  <2>2. borrower \in Address /\ lender \in Address /\ now \in Uint
    BY DEF Address, CreditInv, TimeTypeOK
  <2> QED
    BY <2>1, <2>2, OpenInv
<1>2. CASE \E id \in DOMAIN creditLines, amount \in Amounts :
              Draw(id, amount) \/ Repay(id, amount)
  BY <1>2, UseInv
<1> QED
  BY <1>1, <1>2 DEF CreditNext

LEMMA CreditStutterInv ==
  ASSUME CreditInv, UNCHANGED <<now, creditVars>>
  PROVE  CreditInv' /\ LinesKept /\ LineTermsKept
  BY DEF CreditInv, CreditTypeOK, TimeTypeOK, DrawnWithinLimit, LinesKept,
         LineTermsKept, creditVars

LEMMA TickInv ==
  ASSUME CreditInv, Tick, UNCHANGED creditVars
  PROVE  CreditInv' /\ LinesKept /\ LineTermsKept
<1>1. TimeTypeOK'
  BY CreditAssumption, EvmAssumption DEF CreditInv, TimeTypeOK, Tick
<1> QED
  BY <1>1 DEF CreditInv, CreditTypeOK, DrawnWithinLimit, LinesKept, LineTermsKept, creditVars
=============================================================================
