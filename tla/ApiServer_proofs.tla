--------------------------- MODULE ApiServer_proofs ---------------------------
(***************************************************************************)
(* Proofs about the process of the HTTP API, for any finite set of         *)
(* requests, any gas prices, page size, clients and buffer size: the       *)
(* faucet, alone and among the other requests; the requests that post and  *)
(* list; and the hub.                                                      *)
(***************************************************************************)
EXTENDS ApiServer, Hub, FiniteSetTheorems, SequenceTheorems, TLAPS

-----------------------------------------------------------------------------
(***************************************************************************)
(* The faucet.  NoNonceGap speaks of the pool only and is not inductive: a *)
(* gap would enter with a nonce that some request has read and not yet     *)
(* sent.  So the invariant says of those requests, too, that every nonce   *)
(* below theirs is mined or in the pool; it stays so because the pool      *)
(* loses a nonce only to the chain.  It is stated for the steps of all     *)
(* handlers, for the faucet is served among them.                          *)
(***************************************************************************)

ApiSteps == FaucetSteps \cup {"save", "publish", "page"}

Unanswered == ApiSteps \ {"ok", "error"}

Typed == FaucetTypeOK /\ at \in [Requests -> ApiSteps]

(* Only a request that was answered can be in the pool or on the chain. *)
SentAnswered == \A r \in Sent : r \in Requests /\ at[r] \in {"ok", "error"}

Holds(r) == at[r] \in {"price", "send"} \/ r \in pool

NoGapBelow == \A r \in Requests : Holds(r) => \A n \in Mined .. nonce[r] - 1 : Held(n)

OneEach ==
    /\ \A r \in pool : nonce[r] >= Mined
    /\ \A q, r \in pool : nonce[q] = nonce[r] => q = r

(* A request without a gas price was not sent to the node, so what the     *)
(* other handlers answer is no promise of the faucet.                      *)
Unpriced == \A r \in Requests : at[r] \in Unanswered \ {"send"} => price[r] = 0

FaucetInv == Typed /\ SentAnswered /\ NoGapBelow /\ OneEach /\ Unpriced

LEMMA FaucetInitInv == FaucetInit => FaucetInv /\ SuccessAccounted
<1> SUFFICES ASSUME FaucetInit PROVE FaucetInv /\ SuccessAccounted
  OBVIOUS
<1> USE DEF FaucetInit
<1>1. Typed
  BY DEF Typed, FaucetTypeOK, ApiSteps, FaucetSteps
<1>2. Sent = {}
  BY DEF Sent, Range
<1>3. NoGapBelow /\ SuccessAccounted /\ Unpriced
  BY DEF NoGapBelow, Holds, SuccessAccounted, Unpriced
<1> QED
  BY <1>1, <1>2, <1>3 DEF FaucetInv, SentAnswered, OneEach

LEMMA PendingIsNat ==
  ASSUME FaucetTypeOK, NEW n \in 0 .. Mined + Cardinality(pool)
  PROVE  n \in Nat
<1>1. Cardinality(pool) \in Nat
  BY FaucetAssumption, FS_Subset, FS_CardinalityType DEF FaucetAssumption, FaucetTypeOK
<1> QED
  BY <1>1 DEF FaucetTypeOK, Mined

(* The node takes the transfer of r, which was not sent before. *)
LEMMA AcceptedStep ==
  ASSUME FaucetInv, NEW r \in Requests, at[r] = "send", Accepts(r),
         NEW answer \in {"ok", "error"}, at' = [at EXCEPT ![r] = answer],
         pool' = (pool \ Rivals(r)) \cup {r}, UNCHANGED <<nonce, price, chain>>
  PROVE  FaucetInv'
<1> USE DEF FaucetInv
<1>1. Typed'
  BY DEF Typed, FaucetTypeOK, ApiSteps, FaucetSteps
<1>2. SentAnswered'
  BY DEF SentAnswered, Sent, Typed
<1>3. \A n : Held(n) => Held(n)'
  BY DEF Held, Rivals
<1>4. NoGapBelow'
  <2>1. Mined' = Mined
    BY DEF Mined
  <2>2. \A q \in Requests : Holds(q)' => Holds(q)
    BY DEF Holds, Typed
  <2> QED
    BY <1>3, <2>1, <2>2 DEF NoGapBelow
<1>5. OneEach'
  BY DEF OneEach, Accepts, Rivals, Mined, Typed, FaucetTypeOK
<1>6. Unpriced'
  BY DEF Unpriced, Unanswered, Typed
<1> QED
  BY <1>1, <1>2, <1>4, <1>5, <1>6

(* Steps of one request that leave the node alone. *)
LEMMA NodeUnchanged ==
  ASSUME FaucetInv, NEW r \in Requests, at[r] \in Unanswered,
         NEW s \in ApiSteps, at' = [at EXCEPT ![r] = s],
         nonce' \in [Requests -> Nat], price' \in [Requests -> Prices \cup {0}],
         \A q \in Requests \ {r} : nonce'[q] = nonce[q] /\ price'[q] = price[q],
         s \in Unanswered \ {"send"} => price'[r] = 0,
         s \in {"price", "send"} => \A n \in Mined .. nonce'[r] - 1 : Held(n),
         UNCHANGED nodeVars
  PROVE  FaucetInv'
<1> USE DEF FaucetInv, nodeVars
<1>1. Typed'
  BY DEF Typed, FaucetTypeOK
<1>2. r \notin Sent /\ r \notin pool
  BY DEF SentAnswered, Sent, Unanswered
<1>3. SentAnswered'
  BY <1>2 DEF SentAnswered, Sent, Typed
<1>4. /\ Mined' = Mined
      /\ \A q \in pool : q \in Requests \ {r} /\ nonce'[q] = nonce[q]
  BY <1>2 DEF Mined, Typed, FaucetTypeOK
<1>5. \A n : Held(n) => Held(n)'
  BY <1>4 DEF Held
<1>6. NoGapBelow'
  <2>1. ASSUME NEW q \in Requests, Holds(q)' PROVE \A n \in Mined .. nonce'[q] - 1 : Held(n)
    <3>1. CASE q = r
      BY <1>2, <2>1, <3>1 DEF Holds, Typed
    <3>2. CASE q # r
      <4>1. Holds(q) /\ nonce'[q] = nonce[q]
        BY <2>1, <3>2 DEF Holds, Typed
      <4> QED
        BY <4>1 DEF NoGapBelow
    <3> QED
      BY <3>1, <3>2
  <2> QED
    BY <1>4, <1>5, <2>1 DEF NoGapBelow
<1>7. OneEach'
  BY <1>4 DEF OneEach
<1>8. Unpriced'
  BY DEF Unpriced, Typed
<1> QED
  BY <1>1, <1>3, <1>6, <1>7, <1>8

(* Mining moves the transfer with the next nonce from the pool to the chain. *)
LEMMA MineStep ==
  ASSUME FaucetInv, Mine
  PROVE  FaucetInv' /\ Sent' = Sent
<1> USE DEF FaucetInv
<1>1. PICK r \in pool : /\ nonce[r] = Mined
                       /\ pool' = pool \ {r}
                       /\ chain' = Append(chain, r)
                       /\ UNCHANGED <<at, nonce, price>>
  BY DEF Mine
<1>2. r \in Requests /\ chain \in Seq(Requests)
  BY DEF Typed, FaucetTypeOK
<1>3. Mined' = Mined + 1 /\ Mined \in Nat
  BY <1>1, <1>2 DEF Mined
<1>4. Sent' = Sent
  <2>1. Range(chain') = Range(chain) \cup {r}
    <3>1. DOMAIN chain = 1 .. Len(chain) /\ DOMAIN chain' = 1 .. Len(chain) + 1
      BY <1>1, <1>2
    <3>2. /\ \A i \in 1 .. Len(chain) : chain'[i] = chain[i]
          /\ chain'[Len(chain) + 1] = r
          /\ Len(chain) \in Nat
      BY <1>1, <1>2
    <3> QED
      BY <3>1, <3>2 DEF Range
  <2> QED
    BY <1>1, <2>1 DEF Sent
<1>5. Typed'
  BY <1>1, <1>2 DEF Typed, FaucetTypeOK
<1>6. SentAnswered'
  BY <1>1, <1>4 DEF SentAnswered
<1>7. NoGapBelow'
  <2>1. \A n : Held(n) /\ n # Mined => Held(n)'
    BY <1>1 DEF Held
  <2>2. \A q \in Requests : Holds(q)' => Holds(q)
    BY <1>1 DEF Holds
  <2>3. \A q \in Requests : nonce'[q] = nonce[q] /\ nonce[q] \in Nat
    BY <1>1 DEF Typed, FaucetTypeOK
  <2> QED
    BY <1>3, <2>1, <2>2, <2>3 DEF NoGapBelow
<1>8. OneEach'
  <2>1. \A q \in pool' : q \in Requests /\ nonce[q] \in Nat /\ nonce[q] >= Mined /\ q # r
    BY <1>1 DEF OneEach, Typed, FaucetTypeOK
  <2>2. \A q \in pool' : nonce[q] # Mined
    BY <1>1, <2>1 DEF OneEach
  <2> QED
    BY <1>1, <1>3, <2>1, <2>2 DEF OneEach
<1>9. Unpriced'
  BY <1>1 DEF Unpriced
<1> QED
  BY <1>4, <1>5, <1>6, <1>7, <1>8, <1>9

LEMMA FaucetStepInv == FaucetInv /\ [FaucetNext]_faucetVars => FaucetInv'
<1> SUFFICES ASSUME FaucetInv, [FaucetNext]_faucetVars PROVE FaucetInv'
  OBVIOUS
<1>1. Typed
  BY DEF FaucetInv
<1>2. CASE Mine
  BY <1>2, MineStep
<1>3. ASSUME NEW r \in Requests, RequestTokens(r) PROVE FaucetInv'
  <2>1. PICK s \in {"nonce", "error"} : at' = [at EXCEPT ![r] = s] /\ at[r] = "idle"
    BY <1>3 DEF RequestTokens, Become
  <2>2. UNCHANGED <<nonce, price, nodeVars>>
    BY <1>3 DEF RequestTokens
  <2>3. price[r] = 0
    BY <2>1 DEF FaucetInv, Unpriced, Unanswered, ApiSteps, FaucetSteps
  <2> QED
    BY <1>1, <2>1, <2>2, <2>3, NodeUnchanged
       DEF Unanswered, ApiSteps, FaucetSteps, Typed, FaucetTypeOK
<1>4. ASSUME NEW r \in Requests, ReadNonce(r) PROVE FaucetInv'
  <2>1. PICK n \in 0 .. Mined + Cardinality(pool) :
             IsPending(n) /\ nonce' = [nonce EXCEPT ![r] = n]
    BY <1>4 DEF ReadNonce
  <2>2. n \in Nat
    BY <1>1, PendingIsNat DEF Typed
  <2>3. nonce' \in [Requests -> Nat] /\ nonce'[r] = n
    BY <1>1, <2>1, <2>2 DEF Typed, FaucetTypeOK
  <2>4. \A q \in Requests \ {r} : nonce'[q] = nonce[q]
    BY <1>1, <2>1 DEF Typed, FaucetTypeOK
  <2>5. \A m \in Mined .. nonce'[r] - 1 : Held(m)
    BY <2>1, <2>3 DEF IsPending
  <2>6. /\ at[r] = "nonce" /\ at' = [at EXCEPT ![r] = "price"]
        /\ UNCHANGED <<price, nodeVars>>
    BY <1>4 DEF ReadNonce, Become
  <2>7. price' \in [Requests -> Prices \cup {0}] /\ price'[r] = 0
    BY <1>1, <2>6 DEF Typed, FaucetTypeOK, FaucetInv, Unpriced, Unanswered, ApiSteps, FaucetSteps
  <2> QED
    BY <2>3, <2>4, <2>5, <2>6, <2>7, NodeUnchanged DEF Unanswered, ApiSteps, FaucetSteps
<1>5. ASSUME NEW r \in Requests, ReadPrice(r) PROVE FaucetInv'
  <2>1. /\ at[r] = "price" /\ at' = [at EXCEPT ![r] = "send"]
        /\ UNCHANGED <<nonce, nodeVars>>
    BY <1>5 DEF ReadPrice, Become
  <2>2. /\ price' \in [Requests -> Prices \cup {0}]
        /\ \A q \in Requests \ {r} : price'[q] = price[q]
    BY <1>1, <1>5 DEF ReadPrice, Typed, FaucetTypeOK
  <2>3. nonce' \in [Requests -> Nat] /\ \A q \in Requests \ {r} : nonce'[q] = nonce[q]
    BY <1>1, <2>1 DEF Typed, FaucetTypeOK
  <2>4. \A m \in Mined .. nonce'[r] - 1 : Held(m)
    BY <2>1 DEF FaucetInv, NoGapBelow, Holds
  <2> QED
    BY <2>1, <2>2, <2>3, <2>4, NodeUnchanged DEF Unanswered, ApiSteps, FaucetSteps
<1>6. ASSUME NEW r \in Requests, SendTransaction(r) PROVE FaucetInv'
  BY <1>6, AcceptedStep DEF SendTransaction, Become
<1>7. ASSUME NEW r \in Requests, CallFails(r) PROVE FaucetInv'
  <2>1. CASE UNCHANGED pool
    BY <1>1, <1>7, <2>1, NodeUnchanged
       DEF CallFails, Unanswered, ApiSteps, FaucetSteps, Typed, FaucetTypeOK, nodeVars
  <2>2. CASE at[r] = "send" /\ Accepts(r) /\ pool' = (pool \ Rivals(r)) \cup {r}
    BY <1>7, <2>2, AcceptedStep DEF CallFails
  <2> QED
    BY <1>7, <2>1, <2>2 DEF CallFails
<1>8. CASE UNCHANGED faucetVars
  BY <1>8 DEF faucetVars, nodeVars, FaucetInv, Typed, FaucetTypeOK, SentAnswered,
     Sent, NoGapBelow, Holds, Held, Mined, OneEach, Unpriced
<1> QED
  BY <1>2, <1>3, <1>4, <1>5, <1>6, <1>7, <1>8 DEF FaucetNext

LEMMA FaucetAlwaysInv == FaucetSpec => []FaucetInv
<1>1. FaucetInit => FaucetInv
  BY FaucetInitInv
<1> QED
  BY <1>1, FaucetStepInv, PTL DEF FaucetSpec

LEMMA NonceGapExcluded == FaucetInv => NoNonceGap
<1> SUFFICES ASSUME FaucetInv, NEW r \in pool
             PROVE  /\ nonce[r] >= Mined
                    /\ \A n \in Mined .. nonce[r] - 1 : Held(n)
                    /\ Rivals(r) = {r}
  BY DEF NoNonceGap
<1> QED
  BY DEF FaucetInv, Typed, FaucetTypeOK, NoGapBelow, Holds, OneEach, Rivals

(* For any number of requests, however their calls interleave: the pool    *)
(* never waits for a nonce that nobody sends, and holds each nonce once    *)
(* (services/faucet/service.go, RequestTokens).                            *)
THEOREM FaucetNoNonceGap == FaucetSpec => []NoNonceGap
  BY FaucetAlwaysInv, NonceGapExcluded, PTL

(* A transfer outlives the one it replaces, and so what became of that one. *)
LEMMA AcceptedAccounted ==
  ASSUME FaucetInv, SuccessAccounted, NEW r \in Requests, at[r] = "send", Accepts(r),
         NEW answer \in {"ok", "error"}, at' = [at EXCEPT ![r] = answer],
         pool' = (pool \ Rivals(r)) \cup {r}, UNCHANGED <<nonce, price, chain>>
  PROVE  SuccessAccounted'
<1>1. Typed /\ Sent \subseteq Requests
  BY DEF FaucetInv, SentAnswered
<1>2. \A q \in Requests : price[q] \in Nat
  <2>1. Prices \cup {0} \subseteq Nat
    BY FaucetAssumption DEF FaucetAssumption
  <2>2. price \in [Requests -> Prices \cup {0}]
    BY <1>1 DEF Typed, FaucetTypeOK
  <2> QED
    BY <2>1, <2>2
<1>3. r \in Sent'
  BY DEF Sent
<1>4. \A w \in Sent : w \in Sent' \/ (nonce[r] = nonce[w] /\ price[r] > price[w])
  <2>1. \A w \in Sent : w \notin Sent' => w \in Rivals(r)
    BY DEF Sent
  <2> QED
    BY <1>1, <1>2, <2>1 DEF Rivals, Accepts
<1>5. ASSUME NEW q \in Requests, at'[q] = "ok", price'[q] # 0
      PROVE  q \in Sent' \/ \E w \in Sent' : nonce'[w] = nonce'[q] /\ price'[w] > price'[q]
  <2>1. CASE q = r
    BY <1>3, <2>1
  <2>2. CASE q # r
    <3>1. at[q] = "ok" /\ price[q] # 0
      BY <1>1, <1>5, <2>2 DEF Typed
    <3>2. CASE q \in Sent
      BY <1>3, <1>4, <3>2
    <3>3. CASE \E w \in Sent : nonce[w] = nonce[q] /\ price[w] > price[q]
      <4>1. PICK w \in Sent : nonce[w] = nonce[q] /\ price[w] > price[q]
        BY <3>3
      <4>2. CASE w \in Sent'
        BY <4>1, <4>2
      <4>3. CASE nonce[r] = nonce[w] /\ price[r] > price[w]
        <5>1. nonce[r] = nonce[q] /\ price[r] > price[q]
          BY <1>1, <1>2, <4>1, <4>3
        <5> QED
          BY <1>3, <5>1
      <4> QED
        BY <1>4, <4>2, <4>3
    <3> QED
      BY <3>1, <3>2, <3>3 DEF SuccessAccounted
  <2> QED
    BY <2>1, <2>2
<1> QED
  BY <1>5 DEF SuccessAccounted

(* Steps that the node does not see change nothing of those it answered,   *)
(* and answer with success only requests that asked for no transfer.       *)
LEMMA UnansweredAccounted ==
  ASSUME FaucetInv, SuccessAccounted, NEW r \in Requests, at[r] \in Unanswered,
         NEW s \in ApiSteps, at' = [at EXCEPT ![r] = s], s = "ok" => price'[r] = 0,
         \A q \in Requests \ {r} : nonce'[q] = nonce[q] /\ price'[q] = price[q],
         UNCHANGED nodeVars
  PROVE  SuccessAccounted'
<1>1. /\ at \in [Requests -> ApiSteps]
      /\ Sent' = Sent /\ Sent \subseteq Requests \ {r}
  BY DEF FaucetInv, Typed, SentAnswered, Sent, nodeVars, Unanswered
<1>2. \A q \in Requests : at'[q] = "ok" /\ price'[q] # 0 => q # r /\ at[q] = "ok"
  BY <1>1
<1> QED
  BY <1>1, <1>2 DEF SuccessAccounted

LEMMA AccountedStep ==
  FaucetInv /\ SuccessAccounted /\ [FaucetNext]_faucetVars => SuccessAccounted'
<1> SUFFICES ASSUME FaucetInv, SuccessAccounted, [FaucetNext]_faucetVars
             PROVE  SuccessAccounted'
  OBVIOUS
<1>1. Typed
  BY DEF FaucetInv
<1>2. CASE Mine
  <2>1. Sent' = Sent /\ UNCHANGED <<at, nonce, price>>
    BY <1>2, MineStep DEF Mine
  <2> QED
    BY <2>1 DEF SuccessAccounted
<1>3. ASSUME NEW r \in Requests, RequestTokens(r) PROVE SuccessAccounted'
  BY <1>3, UnansweredAccounted
     DEF RequestTokens, Become, Unanswered, ApiSteps, FaucetSteps
<1>4. ASSUME NEW r \in Requests, ReadNonce(r) PROVE SuccessAccounted'
  <2>1. \A q \in Requests \ {r} : nonce'[q] = nonce[q]
    BY <1>1, <1>4 DEF ReadNonce, Typed, FaucetTypeOK
  <2> QED
    BY <1>4, <2>1, UnansweredAccounted
       DEF ReadNonce, Become, Unanswered, ApiSteps, FaucetSteps
<1>5. ASSUME NEW r \in Requests, ReadPrice(r) PROVE SuccessAccounted'
  <2>1. \A q \in Requests \ {r} : price'[q] = price[q]
    BY <1>1, <1>5 DEF ReadPrice, Typed, FaucetTypeOK
  <2> QED
    BY <1>5, <2>1, UnansweredAccounted
       DEF ReadPrice, Become, Unanswered, ApiSteps, FaucetSteps
<1>6. ASSUME NEW r \in Requests, SendTransaction(r) PROVE SuccessAccounted'
  BY <1>6, AcceptedAccounted DEF SendTransaction, Become
<1>7. ASSUME NEW r \in Requests, CallFails(r) PROVE SuccessAccounted'
  <2>1. CASE UNCHANGED pool
    BY <1>7, <2>1, UnansweredAccounted
       DEF CallFails, Unanswered, ApiSteps, FaucetSteps, nodeVars
  <2>2. CASE at[r] = "send" /\ Accepts(r) /\ pool' = (pool \ Rivals(r)) \cup {r}
    BY <1>7, <2>2, AcceptedAccounted DEF CallFails
  <2> QED
    BY <1>7, <2>1, <2>2 DEF CallFails
<1>8. CASE UNCHANGED faucetVars
  BY <1>8 DEF faucetVars, nodeVars, SuccessAccounted, Sent
<1> QED
  BY <1>2, <1>3, <1>4, <1>5, <1>6, <1>7, <1>8 DEF FaucetNext

(* A request that was answered with success is paid, waits in the pool, or *)
(* lost its nonce to a request that pays more.                             *)
THEOREM FaucetSuccessAccounted == FaucetSpec => []SuccessAccounted
<1>1. FaucetInit => SuccessAccounted
  BY FaucetInitInv
<1> QED
  BY <1>1, AccountedStep, FaucetAlwaysInv, PTL DEF FaucetSpec

-----------------------------------------------------------------------------
(***************************************************************************)
(* The faucet among the other requests.  A step of another handler leaves  *)
(* the node, the nonces and the prices alone.                              *)
(***************************************************************************)

OtherStep(r) ==
    /\ at[r] \in {"idle", "save", "publish", "page"}
    /\ \E s \in {"save", "publish", "page", "ok", "error"} : at' = [at EXCEPT ![r] = s]
    /\ UNCHANGED <<nonce, price, nodeVars>>

LEMMA BeginIsOther ==
  ASSUME NEW r \in Requests, NEW name, NEW step \in {"save", "publish", "page"},
         Begin(r, name, step)
  PROVE  OtherStep(r)
  BY DEF Begin, Become, OtherStep

LEMMA PublishIsOther ==
  ASSUME NEW r \in Requests, NEW ifFails \in {"ok", "error"}, Publish(r, ifFails)
  PROVE  OtherStep(r)
  BY DEF Publish, Become, ServiceUnchanged, OtherStep

LEMMA EveryApiStep ==
  ASSUME Typed, [Next]_vars
  PROVE  [FaucetNext]_faucetVars \/ \E r \in Requests : OtherStep(r)
<1> DEFINE Goal == [FaucetNext]_faucetVars \/ \E r \in Requests : OtherStep(r)
<1>1. ASSUME NEW r \in Requests,
             \/ CreateRFQ(r) \/ SubmitQuote(r) \/ CreateAuction(r) \/ PlaceBid(r)
             \/ FinalizeAuction(r) \/ ConnectLiquidity(r) \/ WithdrawLiquidity(r)
             \/ BeginListing(r)
      PROVE  Goal
  BY <1>1, BeginIsOther
     DEF CreateRFQ, SubmitQuote, CreateAuction, PlaceBid, FinalizeAuction, ConnectLiquidity,
         WithdrawLiquidity, BeginListing
<1>2. ASSUME NEW r \in Requests, FaucetRequest(r) PROVE Goal
  BY <1>2 DEF FaucetRequest, FaucetNext
<1>3. ASSUME NEW r \in Requests, SaveRFQ(r) PROVE Goal
  <2>1. OtherStep(r)
    BY <1>3 DEF SaveRFQ, Become, ServiceUnchanged, OtherStep
  <2> QED
    BY <2>1
<1>4. ASSUME NEW r \in Requests,
             PublishRFQ(r) \/ PublishQuote(r) \/ PublishAuction(r) \/ PublishLiquidity(r)
      PROVE  Goal
  BY <1>4, PublishIsOther DEF PublishRFQ, PublishQuote, PublishAuction, PublishLiquidity
<1>5. ASSUME NEW r \in Requests, ListRFQs(r) PROVE Goal
  <2>1. at[r] = "page" /\ UNCHANGED <<nonce, price, nodeVars>>
        /\ (at' = [at EXCEPT ![r] = "ok"] \/ at' = at)
    BY <1>5 DEF ListRFQs, ServiceUnchanged
  <2>2. at' = [at EXCEPT ![r] = "ok"] \/ at' = [at EXCEPT ![r] = "page"]
    BY <2>1 DEF Typed
  <2>3. OtherStep(r)
    BY <2>1, <2>2 DEF OtherStep
  <2> QED
    BY <2>3
<1>6. ASSUME NEW r \in Requests,
             ReadNonce(r) \/ ReadPrice(r) \/ SendTransaction(r) \/ CallFails(r)
      PROVE  Goal
  BY <1>6 DEF FaucetNext
<1>7. CASE Mine \/ LoseChannel \/ Tick \/ UNCHANGED vars
  BY <1>7 DEF FaucetNext, LoseChannel, Tick, vars
<1> QED
  BY <1>1, <1>2, <1>3, <1>4, <1>5, <1>6, <1>7, Zenon DEF Next, Serve

LEMMA OtherStepKeeps ==
  ASSUME FaucetInv, SuccessAccounted, NEW r \in Requests, OtherStep(r)
  PROVE  FaucetInv' /\ SuccessAccounted'
<1>1. PICK s \in {"save", "publish", "page", "ok", "error"} : at' = [at EXCEPT ![r] = s]
  BY DEF OtherStep
<1>2. /\ at[r] \in Unanswered \ {"send"}
      /\ UNCHANGED <<nonce, price, nodeVars>>
  BY DEF OtherStep, Unanswered, ApiSteps, FaucetSteps
<1>3. price[r] = 0
  BY <1>2 DEF FaucetInv, Unpriced
<1>4. FaucetInv'
  BY <1>1, <1>2, <1>3, NodeUnchanged
     DEF FaucetInv, Typed, FaucetTypeOK, ApiSteps, FaucetSteps
<1>5. SuccessAccounted'
  BY <1>1, <1>2, <1>3, UnansweredAccounted DEF ApiSteps, FaucetSteps
<1> QED
  BY <1>4, <1>5

LEMMA ServerFaucetInv == Spec => [](FaucetInv /\ SuccessAccounted)
<1>1. ApiInit => FaucetInv /\ SuccessAccounted
  BY FaucetInitInv DEF ApiInit
<1>2. FaucetInv /\ SuccessAccounted /\ [Next]_vars => FaucetInv' /\ SuccessAccounted'
  <2> SUFFICES ASSUME FaucetInv, SuccessAccounted, [Next]_vars
               PROVE  FaucetInv' /\ SuccessAccounted'
    OBVIOUS
  <2>1. [FaucetNext]_faucetVars \/ \E r \in Requests : OtherStep(r)
    BY EveryApiStep DEF FaucetInv
  <2> QED
    BY <2>1, FaucetStepInv, AccountedStep, OtherStepKeeps
<1> QED
  BY <1>1, <1>2, PTL DEF Spec

(***************************************************************************)
(* The API keeps the order of the nonces: what the other handlers do       *)
(* between the calls of the faucet leaves no gap and no second transfer    *)
(* with a nonce in the pool.                                               *)
(***************************************************************************)
THEOREM ServerNoNonceGap == Spec => []NoNonceGap
  BY ServerFaucetInv, NonceGapExcluded, PTL

(***************************************************************************)
(* Nor does anything but a better paid transfer with the same nonce undo a *)
(* success the API has answered.                                           *)
(***************************************************************************)
THEOREM ServerSuccessAccounted == Spec => []SuccessAccounted
  BY ServerFaucetInv, PTL

-----------------------------------------------------------------------------
(***************************************************************************)
(* Posts and their answers.  AnswersTrue speaks of answered requests only; *)
(* the invariant says what a handler has done at each of its steps, and    *)
(* that a step belongs to the route of its request.                        *)
(***************************************************************************)

Progress(r) ==
    /\ at[r] = "idle" => route[r] = "none" /\ page[r] = << >>
    /\ at[r] = "save" => route[r] = "rfq.events"
    /\ at[r] = "publish" => route[r] \in PostQueues
    /\ at[r] = "page" => route[r] = "list"
    /\ at[r] \in {"nonce", "price", "send"} => route[r] = "faucet"
    /\ r \in messages => at[r] = "ok"
    /\ route[r] = "rfq.events" /\ at[r] \in {"publish", "ok"} => r \in table
    /\ route[r] \in PostQueues \ {"rfq.events"} /\ at[r] = "ok" => r \in messages

ApiInv == ApiTypeOK /\ \A r \in Requests : Progress(r)

LEMMA ApiInitInv == ApiInit => ApiInv
<1> SUFFICES ASSUME ApiInit PROVE ApiInv
  OBVIOUS
<1> USE DEF ApiInit
<1>1. FaucetTypeOK /\ at \in [Requests -> ApiSteps]
  BY FaucetInitInv DEF FaucetInv, Typed
<1>2. page \in [Requests -> Seq(table)] /\ known \in [Requests -> SUBSET table]
  OBVIOUS
<1>3. ApiTypeOK
  BY <1>1, <1>2, ApiAssumption DEF ApiTypeOK, ApiSteps, PostQueues, ApiAssumption
<1>4. \A r \in Requests : Progress(r)
  BY DEF Progress, PostQueues, FaucetInit
<1> QED
  BY <1>3, <1>4 DEF ApiInv

(* Nothing of the API changes but where handlers are, and that as the      *)
(* faucet moves them.                                                      *)
LEMMA FaucetKeepsApi ==
  ASSUME ApiInv, FaucetInv, NEW r \in Requests,
         ReadNonce(r) \/ ReadPrice(r) \/ SendTransaction(r) \/ CallFails(r), UNCHANGED apiVars
  PROVE  ApiInv'
<1> USE DEF apiVars
<1>1. FaucetTypeOK' /\ at' \in [Requests -> ApiSteps]
  BY FaucetStepInv DEF FaucetNext, FaucetInv, Typed
<1>2. ApiTypeOK'
  BY <1>1 DEF ApiInv, ApiTypeOK, ApiSteps
<1>3. /\ at[r] \in {"nonce", "price", "send"}
      /\ \E s \in {"price", "send", "ok", "error"} : at' = [at EXCEPT ![r] = s]
  BY DEF ReadNonce, ReadPrice, SendTransaction, CallFails, Become
<1>4. at \in [Requests -> ApiSteps]
  BY DEF FaucetInv, Typed
<1>5. ASSUME NEW q \in Requests PROVE Progress(q)'
  BY <1>3, <1>4 DEF ApiInv, Progress, PostQueues
<1> QED
  BY <1>2, <1>5 DEF ApiInv

LEMMA BeginKeepsApi ==
  ASSUME ApiInv, NEW r \in Requests, NEW name, NEW step, Begin(r, name, step),
         \/ name = "rfq.events" /\ step = "save"
         \/ name \in PostQueues \ {"rfq.events"} /\ step = "publish"
         \/ name = "list" /\ step = "page",
         createdAt' \in [Requests -> 0 .. MaxTime],
         known' \in [Requests -> SUBSET table]
  PROVE  ApiInv'
<1> USE DEF ApiInv, ApiTypeOK, Begin, Become, nodeVars
<1>1. at[r] = "idle" /\ route[r] = "none" /\ r \notin table
  BY DEF Progress
<1>2. at' \in [Requests -> FaucetSteps \cup {"save", "publish", "page"}]
  BY DEF PostQueues
<1>3. route' \in [Requests -> PostQueues \cup {"none", "list", "faucet"}]
  BY DEF PostQueues
<1>4. table' \subseteq {q \in Requests : route'[q] = "rfq.events"}
  BY <1>1
<1>5. FaucetTypeOK'
  BY DEF FaucetTypeOK
<1>6. ApiTypeOK'
  BY <1>2, <1>3, <1>4, <1>5
<1>7. ASSUME NEW q \in Requests PROVE Progress(q)'
  <2>1. CASE q = r
    BY <1>1, <2>1 DEF Progress, PostQueues
  <2>2. CASE q # r
    BY <2>2 DEF Progress
  <2> QED
    BY <2>1, <2>2
<1> QED
  BY <1>6, <1>7

LEMMA SaveKeepsApi ==
  ASSUME ApiInv, NEW r \in Requests, SaveRFQ(r)
  PROVE  ApiInv'
<1> USE DEF ApiInv, ApiTypeOK, SaveRFQ, ServiceUnchanged, Become, nodeVars
<1>1. at[r] = "save" /\ route[r] = "rfq.events"
  BY DEF Progress
<1>2. table \subseteq table' /\ table' \subseteq table \cup {r}
  OBVIOUS
<1>3. at' \in [Requests -> FaucetSteps \cup {"save", "publish", "page"}]
  BY DEF FaucetSteps
<1>4. /\ page' \in [Requests -> Seq(table')]
      /\ known' \in [Requests -> SUBSET table']
  <2>1. Seq(table) \subseteq Seq(table')
    BY <1>2
  <2> QED
    BY <1>2, <2>1
<1>5. FaucetTypeOK'
  BY DEF FaucetTypeOK
<1>6. ApiTypeOK'
  BY <1>1, <1>2, <1>3, <1>4, <1>5
<1>7. ASSUME NEW q \in Requests PROVE Progress(q)'
  <2>1. CASE q = r
    BY <1>1, <2>1 DEF Progress, PostQueues
  <2>2. CASE q # r
    BY <1>2, <2>2 DEF Progress
  <2> QED
    BY <2>1, <2>2
<1> QED
  BY <1>6, <1>7

LEMMA PublishKeepsApi ==
  ASSUME ApiInv, NEW r \in Requests, NEW ifFails \in {"ok", "error"}, Publish(r, ifFails),
         ifFails = "ok" => route[r] = "rfq.events"
  PROVE  ApiInv'
<1> USE DEF ApiInv, ApiTypeOK, Publish, ServiceUnchanged, Become, nodeVars
<1>1. at[r] = "publish" /\ route[r] \in PostQueues
  BY DEF Progress
<1>2. /\ at' \in [Requests -> FaucetSteps \cup {"save", "publish", "page"}]
      /\ messages' \subseteq Requests
  BY DEF FaucetSteps
<1>3. FaucetTypeOK'
  BY DEF FaucetTypeOK
<1>4. ApiTypeOK'
  BY <1>2, <1>3
<1>5. ASSUME NEW q \in Requests PROVE Progress(q)'
  <2>1. CASE q = r
    BY <1>1, <2>1 DEF Progress, PostQueues
  <2>2. CASE q # r
    BY <2>2 DEF Progress
  <2> QED
    BY <2>1, <2>2
<1> QED
  BY <1>4, <1>5

-----------------------------------------------------------------------------
(***************************************************************************)
(* Listings.  A row that no other row shares its second with is at one     *)
(* place of every listing: after the rows of later seconds.  Those only    *)
(* grow in number, so the row never moves back over what a reader has      *)
(* read, and the reader that has not been given it has read no more rows   *)
(* than there are later ones.                                              *)
(***************************************************************************)

Later(q) == {p \in table : createdAt[p] > createdAt[q]}

NotMissed(r, q) ==
    \/ q \in Range(page[r])
    \/ at[r] = "page" /\ Len(page[r]) <= Cardinality(Later(q))

PagesInv ==
    \A r \in Requests :
        route[r] = "list" => \A q \in known[r] : AloneInSecond(q) => NotMissed(r, q)

LEMMA TableFinite ==
  ASSUME ApiTypeOK
  PROVE  IsFiniteSet(table) /\ Cardinality(table) \in Nat
  BY FaucetAssumption, FS_Subset, FS_CardinalityType DEF FaucetAssumption, ApiTypeOK

LEMMA LaterFinite ==
  ASSUME ApiTypeOK, NEW q
  PROVE  IsFiniteSet(Later(q)) /\ Cardinality(Later(q)) \in Nat
<1>1. Later(q) \in SUBSET table
  BY DEF Later
<1> QED
  BY <1>1, TableFinite, FS_Subset, FS_CardinalityType

LEMMA ListingPosition ==
  ASSUME ApiTypeOK, NEW s \in Listings, NEW q \in table, AloneInSecond(q)
  PROVE  \E i \in 1 .. Cardinality(table) : s[i] = q /\ i = Cardinality(Later(q)) + 1
<1> DEFINE n == Cardinality(table)
<1>1. n \in Nat /\ IsFiniteSet(table) /\ IsFiniteSet(1 .. n) /\ Cardinality(1 .. n) = n
  BY TableFinite, FS_Interval
<1>2. /\ s \in [1 .. n -> table]
      /\ \A i, j \in 1 .. n : s[i] = s[j] => i = j
      /\ \A i, j \in 1 .. n : i < j => createdAt[s[i]] >= createdAt[s[j]]
  BY DEF Listings, IsInjective, LatestFirst
<1>3. \A p \in table : createdAt[p] \in Nat
  BY DEF ApiTypeOK
<1>4. s \in Injection(1 .. n, table)
  BY <1>2 DEF Injection, IsInjective
<1>5. s \in Surjection(1 .. n, table)
  BY <1>1, <1>4, FS_Injection
<1> HIDE DEF n
<1>6. PICK i \in 1 .. n : s[i] = q
  BY <1>5 DEF Surjection
<1> DEFINE f == [j \in 1 .. i - 1 |-> s[j]]
<1>7. ASSUME NEW j \in 1 .. i - 1 PROVE s[j] \in Later(q)
  <2>1. j \in 1 .. n /\ j < i /\ s[j] \in table /\ s[j] # q
    BY <1>1, <1>2, <1>6
  <2>2. createdAt[s[j]] >= createdAt[q] /\ createdAt[s[j]] # createdAt[q]
    BY <1>2, <1>6, <2>1 DEF AloneInSecond
  <2> QED
    BY <1>3, <2>1, <2>2 DEF Later
<1>8. ASSUME NEW p \in Later(q) PROVE \E j \in 1 .. i - 1 : s[j] = p
  <2>1. p \in table /\ createdAt[p] > createdAt[q]
    BY DEF Later
  <2>2. PICK j \in 1 .. n : s[j] = p
    BY <1>5, <2>1 DEF Surjection
  <2>3. ~(i < j) /\ i # j
    BY <1>2, <1>3, <1>6, <2>1, <2>2
  <2>4. j \in 1 .. i - 1
    BY <1>1, <2>3
  <2> QED
    BY <2>2, <2>4
<1>9. f \in [1 .. i - 1 -> Later(q)] /\ \A p \in Later(q) : \E j \in 1 .. i - 1 : f[j] = p
  BY <1>7, <1>8
<1>10. \A j, k \in 1 .. i - 1 : f[j] = f[k] => j = k
  BY <1>1, <1>2
<1>11. f \in Surjection(1 .. i - 1, Later(q)) /\ f \in Injection(1 .. i - 1, Later(q))
  BY <1>9, <1>10 DEF Surjection, Injection, IsInjective
<1>12. IsFiniteSet(1 .. i - 1) /\ Cardinality(1 .. i - 1) = i - 1
  BY <1>1, FS_Interval
<1> HIDE DEF f
<1>13. Cardinality(Later(q)) = i - 1
  BY <1>11, <1>12, FS_Surjection
<1> QED
  BY <1>1, <1>6, <1>13 DEF n

LEMMA MinOfTwo ==
  ASSUME NEW a \in Int, NEW b \in Int
  PROVE  Min({a, b}) = IF a <= b THEN a ELSE b
  BY DEF Min

(* A page read: the rows the reader is given, from the place where it is,  *)
(* and whether it is the last page.                                        *)
LEMMA PageRead ==
  ASSUME ApiInv, NEW r \in Requests, ListRFQs(r)
  PROVE  \E s \in Listings, rows \in Seq(table) :
            /\ page' = [page EXCEPT ![r] = page[r] \o rows]
            /\ at' = IF Len(rows) < PageSize THEN [at EXCEPT ![r] = "ok"] ELSE at
            /\ Len(rows) <= PageSize
            /\ Len(rows) < PageSize => Cardinality(table) < Len(page[r]) + PageSize
            /\ \A i \in 1 .. Cardinality(table) :
                  Len(page[r]) < i /\ i <= Len(page[r]) + PageSize =>
                     \E j \in 1 .. Len(rows) : rows[j] = s[i]
<1>1. PICK s \in Listings :
        /\ page' = [page EXCEPT ![r] =
                       page[r] \o SubSeq(s, Len(page[r]) + 1, Min({Len(page[r]) + PageSize, Len(s)}))]
        /\ at' = IF Len(SubSeq(s, Len(page[r]) + 1, Min({Len(page[r]) + PageSize, Len(s)}))) < PageSize
                    THEN [at EXCEPT ![r] = "ok"] ELSE at
  BY DEF ListRFQs
<1>2. PICK n \in Nat, read \in Nat, size \in Nat :
        n = Cardinality(table) /\ read = Len(page[r]) /\ size = PageSize
  BY TableFinite, ApiAssumption DEF ApiAssumption, ApiInv, ApiTypeOK
<1>3. s \in [1 .. n -> table] /\ Len(s) = n
  BY <1>2 DEF Listings
<1>4. PICK k \in Int : k = read + size
  OBVIOUS
<1>5. PICK a \in Nat : a = read + 1
  OBVIOUS
<1>6. PICK m : m = Min({k, n})
  OBVIOUS
<1>7. m = IF k <= n THEN k ELSE n
  BY <1>6, MinOfTwo
<1>8. PICK rows : rows = SubSeq(s, a, m)
  OBVIOUS
<1>9. /\ page' = [page EXCEPT ![r] = page[r] \o rows]
      /\ at' = IF Len(rows) < PageSize THEN [at EXCEPT ![r] = "ok"] ELSE at
  BY <1>1, <1>2, <1>3, <1>4, <1>5, <1>6, <1>8
<1>10. /\ rows \in Seq(table)
       /\ Len(rows) = IF a <= m THEN m - a + 1 ELSE 0
       /\ \A i \in 1 .. m - a + 1 : rows[i] = s[a + i - 1]
  <2>1. m \in Int /\ m <= n
    BY <1>7
  <2>2. \A i \in a .. m : s[i] \in table
    BY <1>3, <1>5, <2>1
  <2>3. /\ SubSeq(s, a, m) \in Seq(table)
        /\ Len(SubSeq(s, a, m)) = IF a <= m THEN m - a + 1 ELSE 0
        /\ \A i \in 1 .. m - a + 1 : SubSeq(s, a, m)[i] = s[a + i - 1]
    BY <2>1, <2>2, SubSeqProperties
  <2> QED
    BY <1>8, <2>3
<1>11. PICK l : l = Len(rows) /\ l = IF a <= m THEN m - a + 1 ELSE 0
  BY <1>10
<1>12. /\ l <= size
       /\ l < size => n < k
       /\ \A i \in 1 .. n : read < i /\ i <= k =>
             i - a + 1 \in 1 .. l /\ i - a + 1 \in 1 .. m - a + 1 /\ a + (i - a + 1) - 1 = i
  <2>1. l = IF a <= m THEN m - a + 1 ELSE 0
    BY <1>11
  <2> QED
    BY <1>4, <1>5, <1>7, <2>1
<1>13. ASSUME NEW i \in 1 .. n, read < i, i <= k
       PROVE  \E j \in 1 .. Len(rows) : rows[j] = s[i]
  <2>1. PICK j : j = i - a + 1
    OBVIOUS
  <2>2. j \in 1 .. l /\ j \in 1 .. m - a + 1 /\ a + j - 1 = i
    BY <1>12, <1>13, <2>1
  <2>3. rows[j] = s[i]
    BY <1>10, <2>2
  <2> QED
    BY <1>11, <2>2, <2>3
<1>14. /\ Len(rows) <= PageSize
       /\ Len(rows) < PageSize => Cardinality(table) < Len(page[r]) + PageSize
  BY <1>2, <1>4, <1>11, <1>12
<1>15. \A i \in 1 .. Cardinality(table) :
          Len(page[r]) < i /\ i <= Len(page[r]) + PageSize =>
             \E j \in 1 .. Len(rows) : rows[j] = s[i]
  BY <1>2, <1>4, <1>13
<1>16. rows \in Seq(table)
  BY <1>10
<1> QED
  BY <1>9, <1>14, <1>15, <1>16

LEMMA ListKeepsApi ==
  ASSUME ApiInv, NEW r \in Requests, ListRFQs(r)
  PROVE  ApiInv'
<1> USE DEF ApiInv, ApiTypeOK, ServiceUnchanged, nodeVars
<1>1. PICK rows \in Seq(table) :
        /\ page' = [page EXCEPT ![r] = page[r] \o rows]
        /\ at' = IF Len(rows) < PageSize THEN [at EXCEPT ![r] = "ok"] ELSE at
  BY PageRead
<1>2. /\ at[r] = "page" /\ route[r] = "list"
      /\ UNCHANGED <<messages, table>> /\ ServiceUnchanged
  BY DEF ListRFQs, Progress
<1>3. page' \in [Requests -> Seq(table)]
  <2>1. page[r] \o rows \in Seq(table)
    BY ConcatProperties
  <2> QED
    BY <1>1, <2>1
<1>4. at' \in [Requests -> FaucetSteps \cup {"save", "publish", "page"}]
  BY <1>1 DEF FaucetSteps
<1>5. FaucetTypeOK'
  BY <1>2 DEF FaucetTypeOK
<1>6. ApiTypeOK'
  BY <1>2, <1>3, <1>4, <1>5
<1>7. ASSUME NEW q \in Requests PROVE Progress(q)'
  <2>1. CASE q = r
    <3>1. at'[r] \in {"page", "ok"}
      BY <1>1, <1>2
    <3> QED
      BY <1>2, <2>1, <3>1 DEF Progress, PostQueues
  <2>2. CASE q # r
    BY <1>1, <1>2, <2>2 DEF Progress
  <2> QED
    BY <2>1, <2>2
<1> QED
  BY <1>6, <1>7

LEMMA ApiStepInv == ApiInv /\ FaucetInv /\ [Next]_vars => ApiInv'
<1> SUFFICES ASSUME ApiInv, FaucetInv, [Next]_vars PROVE ApiInv'
  OBVIOUS
<1>1. ASSUME NEW r \in Requests, CreateRFQ(r) PROVE ApiInv'
  <2>1. /\ createdAt' \in [Requests -> 0 .. MaxTime]
        /\ known' \in [Requests -> SUBSET table]
    BY <1>1, ApiAssumption DEF CreateRFQ, ApiInv, ApiTypeOK, ApiAssumption
  <2> QED
    BY <1>1, <2>1, BeginKeepsApi DEF CreateRFQ
<1>2. ASSUME NEW r \in Requests,
             \/ SubmitQuote(r) \/ CreateAuction(r) \/ PlaceBid(r)
             \/ FinalizeAuction(r) \/ ConnectLiquidity(r) \/ WithdrawLiquidity(r)
      PROVE  ApiInv'
  <2>1. UNCHANGED <<createdAt, known>>
    BY <1>2 DEF SubmitQuote, CreateAuction, PlaceBid, FinalizeAuction, ConnectLiquidity,
                WithdrawLiquidity
  <2>2. /\ createdAt' \in [Requests -> 0 .. MaxTime]
        /\ known' \in [Requests -> SUBSET table]
    BY <2>1 DEF ApiInv, ApiTypeOK
  <2>3. \E name \in PostQueues \ {"rfq.events"} : Begin(r, name, "publish")
    BY <1>2 DEF SubmitQuote, CreateAuction, PlaceBid, FinalizeAuction, ConnectLiquidity,
                WithdrawLiquidity, PostQueues
  <2> QED
    BY <2>2, <2>3, BeginKeepsApi
<1>3. ASSUME NEW r \in Requests, BeginListing(r) PROVE ApiInv'
  <2>1. /\ createdAt' \in [Requests -> 0 .. MaxTime]
        /\ known' \in [Requests -> SUBSET table]
    BY <1>3 DEF BeginListing, ApiInv, ApiTypeOK
  <2> QED
    BY <1>3, <2>1, BeginKeepsApi DEF BeginListing
<1>4. ASSUME NEW r \in Requests, FaucetRequest(r) PROVE ApiInv'
  <2>1. FaucetTypeOK' /\ at' \in [Requests -> ApiSteps]
    BY <1>4, FaucetStepInv DEF FaucetRequest, FaucetNext, FaucetInv, Typed
  <2>2. /\ at[r] = "idle" /\ \E s \in {"nonce", "error"} : at' = [at EXCEPT ![r] = s]
        /\ route' = [route EXCEPT ![r] = "faucet"]
        /\ UNCHANGED <<createdAt, channel, messages, table, page, known, clock>>
    BY <1>4 DEF FaucetRequest, RequestTokens, Become
  <2>3. route[r] = "none" /\ r \notin table
    BY <2>2 DEF ApiInv, ApiTypeOK, Progress
  <2>4. ApiTypeOK'
    BY <2>1, <2>2, <2>3 DEF ApiInv, ApiTypeOK, ApiSteps
  <2>5. ASSUME NEW q \in Requests PROVE Progress(q)'
    <3>1. CASE q = r
      BY <2>2, <2>3, <3>1 DEF ApiInv, ApiTypeOK, Progress, PostQueues
    <3>2. CASE q # r
      BY <2>2, <3>2 DEF ApiInv, ApiTypeOK, Progress
    <3> QED
      BY <3>1, <3>2
  <2> QED
    BY <2>4, <2>5 DEF ApiInv
<1>5. ASSUME NEW r \in Requests, SaveRFQ(r) PROVE ApiInv'
  BY <1>5, SaveKeepsApi
<1>6. ASSUME NEW r \in Requests,
             PublishRFQ(r) \/ PublishQuote(r) \/ PublishAuction(r) \/ PublishLiquidity(r)
      PROVE  ApiInv'
  BY <1>6, PublishKeepsApi DEF PublishRFQ, PublishQuote, PublishAuction, PublishLiquidity
<1>7. ASSUME NEW r \in Requests, ListRFQs(r) PROVE ApiInv'
  BY <1>7, ListKeepsApi
<1>8. ASSUME NEW r \in Requests,
             ReadNonce(r) \/ ReadPrice(r) \/ SendTransaction(r) \/ CallFails(r),
             UNCHANGED apiVars
      PROVE  ApiInv'
  BY <1>8, FaucetKeepsApi
<1>9. CASE Mine /\ UNCHANGED apiVars
  <2>1. FaucetTypeOK' /\ at' = at
    BY <1>9, MineStep DEF Mine, FaucetInv, Typed
  <2> QED
    BY <1>9, <2>1 DEF apiVars, ApiInv, ApiTypeOK, Progress
<1>10. CASE LoseChannel
  BY <1>10 DEF LoseChannel, faucetVars, nodeVars, ApiInv, ApiTypeOK, FaucetTypeOK, Progress
<1>11. CASE Tick
  <2>1. clock' \in 1 .. MaxTime
    BY <1>11, ApiAssumption DEF Tick, ApiInv, ApiTypeOK, ApiAssumption
  <2> QED
    BY <1>11, <2>1 DEF Tick, faucetVars, nodeVars, ApiInv, ApiTypeOK, FaucetTypeOK, Progress
<1>12. CASE UNCHANGED vars
  BY <1>12 DEF vars, apiVars, faucetVars, nodeVars, ApiInv, ApiTypeOK, FaucetTypeOK, Progress
<1> QED
  BY <1>1, <1>2, <1>3, <1>4, <1>5, <1>6, <1>7, <1>8, <1>9, <1>10, <1>11, <1>12, Zenon
     DEF Next, Serve

LEMMA ApiAlwaysInv == Spec => [](ApiInv /\ FaucetInv)
<1>1. ApiInit => ApiInv
  BY ApiInitInv
<1> QED
  BY <1>1, ApiStepInv, ServerFaucetInv, PTL DEF Spec

(***************************************************************************)
(* The requests, the table and the pages given are what they should be,    *)
(* whatever steps the handlers of concurrent requests take.                *)
(***************************************************************************)
THEOREM ApiTypeCorrect == Spec => []ApiTypeOK
<1>1. ApiInv => ApiTypeOK
  BY DEF ApiInv
<1> QED
  BY <1>1, ApiAlwaysInv, PTL

(***************************************************************************)
(* An RFQ answered with a success has its row, any other posting request   *)
(* answered with one has published its message; no RFQ is announced        *)
(* without its row, and what was published is never answered with a        *)
(* failure, whenever the channel to RabbitMQ is lost.                      *)
(***************************************************************************)
THEOREM ApiAnswersTrue == Spec => []AnswersTrue
<1>1. ApiInv => AnswersTrue
  BY DEF ApiInv, Progress, AnswersTrue
<1> QED
  BY <1>1, ApiAlwaysInv, PTL

-----------------------------------------------------------------------------
(* Pages. *)

(* Steps that give no rows: the table may grow, readers may begin. *)
LEMMA NoPageKeeps ==
  ASSUME ApiInv, ApiInv', PagesInv, UNCHANGED page, table \subseteq table',
         \A q \in table' : createdAt'[q] = createdAt[q],
         \A r \in Requests : route'[r] = "list" =>
            \/ route[r] = "list" /\ known'[r] = known[r] /\ at'[r] = at[r]
            \/ page[r] = << >> /\ at'[r] = "page"
  PROVE  PagesInv'
<1> SUFFICES ASSUME NEW r \in Requests, route'[r] = "list", NEW q \in known'[r],
                    AloneInSecond(q)'
             PROVE  NotMissed(r, q)'
  BY DEF PagesInv
<1>1. q \in table'
  BY DEF ApiInv, ApiTypeOK
<1>2. IsFiniteSet(Later(q)') /\ Cardinality(Later(q)') \in Nat
  <2>1. Later(q)' \in SUBSET Requests
    BY DEF Later, ApiInv, ApiTypeOK
  <2> QED
    BY <2>1, FaucetAssumption, FS_Subset, FS_CardinalityType DEF FaucetAssumption
<1>3. CASE page[r] = << >> /\ at'[r] = "page"
  BY <1>2, <1>3 DEF NotMissed
<1>4. CASE route[r] = "list" /\ known'[r] = known[r] /\ at'[r] = at[r]
  <2>1. q \in table
    BY <1>4 DEF ApiInv, ApiTypeOK
  <2>2. AloneInSecond(q)
    BY <1>1 DEF AloneInSecond
  <2>3. NotMissed(r, q)
    BY <1>4, <2>2 DEF PagesInv
  <2>4. Later(q) \in SUBSET Later(q)'
    BY <1>1 DEF Later
  <2>5. Cardinality(Later(q)) <= Cardinality(Later(q)') /\ Cardinality(Later(q)) \in Nat
    BY <1>2, <2>4, FS_Subset, FS_CardinalityType
  <2>6. Len(page[r]) \in Nat
    BY DEF ApiInv, ApiTypeOK
  <2> QED
    BY <1>2, <1>4, <2>3, <2>5, <2>6 DEF NotMissed
<1> QED
  BY <1>3, <1>4

LEMMA RangeOfConcat ==
  ASSUME NEW S, NEW s \in Seq(S), NEW t \in Seq(S)
  PROVE  /\ Range(s) \subseteq Range(s \o t)
         /\ \A k \in 1 .. Len(t) : t[k] \in Range(s \o t)
<1>1. /\ DOMAIN (s \o t) = 1 .. Len(s) + Len(t)
      /\ DOMAIN s = 1 .. Len(s)
      /\ Len(s) \in Nat /\ Len(t) \in Nat
  BY ConcatProperties, LenProperties
<1>2. \A i \in 1 .. Len(s) : (s \o t)[i] = s[i]
  BY <1>1, ConcatProperties
<1>3. ASSUME NEW k \in 1 .. Len(t) PROVE (s \o t)[Len(s) + k] = t[k]
  <2>1. Len(s) + k \in 1 .. Len(s) + Len(t) /\ ~(Len(s) + k <= Len(s))
        /\ Len(s) + k - Len(s) = k
    BY <1>1
  <2> QED
    BY <2>1, ConcatProperties
<1>4. \A i \in 1 .. Len(s) : i \in 1 .. Len(s) + Len(t)
  BY <1>1
<1>5. \A k \in 1 .. Len(t) : Len(s) + k \in 1 .. Len(s) + Len(t)
  BY <1>1
<1> QED
  BY <1>1, <1>2, <1>3, <1>4, <1>5 DEF Range

(* A page gives a row that stands where it begins or after it, or leaves   *)
(* the row further on; and if the row is further on, the page is not short.*)
LEMMA PageGiven ==
  ASSUME ApiInv, PagesInv, NEW r \in Requests, ListRFQs(r)
  PROVE  PagesInv'
<1> USE DEF ApiInv, ApiTypeOK
<1>1. PICK s \in Listings, rows \in Seq(table) :
        /\ page' = [page EXCEPT ![r] = page[r] \o rows]
        /\ at' = IF Len(rows) < PageSize THEN [at EXCEPT ![r] = "ok"] ELSE at
        /\ Len(rows) <= PageSize
        /\ Len(rows) < PageSize => Cardinality(table) < Len(page[r]) + PageSize
        /\ \A i \in 1 .. Cardinality(table) :
              Len(page[r]) < i /\ i <= Len(page[r]) + PageSize =>
                 \E j \in 1 .. Len(rows) : rows[j] = s[i]
  BY PageRead
<1>2. at[r] = "page" /\ UNCHANGED <<route, createdAt, known, table>>
  BY DEF ListRFQs, ServiceUnchanged
<1>3. Cardinality(table) \in Nat /\ Len(page[r]) \in Nat /\ PageSize \in Nat
  BY TableFinite, ApiAssumption DEF ApiAssumption
<1>4. /\ Len(rows) <= PageSize
      /\ Len(rows) < PageSize => Cardinality(table) < Len(page[r]) + PageSize
      /\ \A i \in 1 .. Cardinality(table) :
            Len(page[r]) < i /\ i <= Len(page[r]) + PageSize =>
               \E j \in 1 .. Len(rows) : rows[j] = s[i]
  BY <1>1
<1>5. page'[r] = page[r] \o rows
  BY <1>1
<1>6. Len(page'[r]) = Len(page[r]) + Len(rows)
  BY <1>5, ConcatProperties
<1>7. Range(page[r]) \subseteq Range(page'[r])
  BY <1>5, RangeOfConcat
<1>8. \A k \in 1 .. Len(rows) : rows[k] \in Range(page'[r])
  BY <1>5, RangeOfConcat
<1>9. ASSUME NEW q \in known[r], AloneInSecond(q), route[r] = "list"
      PROVE  \/ q \in Range(page'[r])
             \/ at'[r] = "page" /\ Len(page'[r]) <= Cardinality(Later(q))
  <2>1. NotMissed(r, q) /\ q \in table
    BY <1>9 DEF PagesInv
  <2>2. CASE q \in Range(page[r])
    BY <1>7, <2>2
  <2>3. CASE Len(page[r]) <= Cardinality(Later(q))
    <3>1. PICK i \in 1 .. Cardinality(table) : s[i] = q /\ i = Cardinality(Later(q)) + 1
      BY <1>9, <2>1, ListingPosition
    <3>2. Cardinality(Later(q)) \in Nat
      BY LaterFinite
    <3>3. Len(page[r]) < i
      BY <1>3, <2>3, <3>1, <3>2
    <3>4. CASE i <= Len(page[r]) + PageSize
      BY <1>4, <1>8, <3>1, <3>3, <3>4
    <3>5. CASE i > Len(page[r]) + PageSize
      <4>1. ~(Len(rows) < PageSize)
        BY <1>3, <1>4, <3>5
      <4>2. at'[r] = "page"
        BY <1>1, <1>2, <4>1
      <4>3. Len(rows) \in Nat
        OBVIOUS
      <4>4. Len(page'[r]) <= Cardinality(Later(q))
        BY <1>3, <1>4, <1>6, <3>1, <3>2, <3>5, <4>3
      <4> QED
        BY <4>2, <4>4
    <3> QED
      BY <1>3, <3>4, <3>5
  <2> QED
    BY <2>1, <2>2, <2>3 DEF NotMissed
<1>10. ASSUME NEW p \in Requests, route'[p] = "list", NEW q \in known'[p], AloneInSecond(q)'
       PROVE  NotMissed(p, q)'
  <2>1. AloneInSecond(q) /\ Later(q)' = Later(q)
    BY <1>2, <1>10 DEF AloneInSecond, Later
  <2>2. CASE p = r
    BY <1>2, <1>9, <1>10, <2>1, <2>2 DEF NotMissed
  <2>3. CASE p # r
    <3>1. page'[p] = page[p] /\ at'[p] = at[p]
      BY <1>1, <2>3
    <3> QED
      BY <1>2, <1>10, <2>1, <3>1 DEF NotMissed, PagesInv
  <2> QED
    BY <2>2, <2>3
<1> QED
  BY <1>10 DEF PagesInv

LEMMA PagesStep == ApiInv /\ FaucetInv /\ PagesInv /\ [Next]_vars => PagesInv'
<1> SUFFICES ASSUME ApiInv, FaucetInv, PagesInv, [Next]_vars PROVE PagesInv'
  OBVIOUS
<1> USE DEF ApiInv, ApiTypeOK
<1>1. ApiInv'
  BY ApiStepInv
<1> DEFINE Quiet ==
      /\ UNCHANGED page /\ table \subseteq table'
      /\ \A q \in table' : createdAt'[q] = createdAt[q]
      /\ \A r \in Requests : route'[r] = "list" =>
            \/ route[r] = "list" /\ known'[r] = known[r] /\ at'[r] = at[r]
            \/ page[r] = << >> /\ at'[r] = "page"
<1>2. Quiet => PagesInv'
  BY <1>1, NoPageKeeps
<1>3. ASSUME NEW r \in Requests, CreateRFQ(r) PROVE Quiet
  <2>1. at[r] = "idle" /\ r \notin table
    BY <1>3 DEF CreateRFQ, Begin, Become, Progress
  <2> QED
    BY <1>3, <2>1 DEF CreateRFQ, Begin, Become
<1>4. ASSUME NEW r \in Requests,
             \/ SubmitQuote(r) \/ CreateAuction(r) \/ PlaceBid(r)
             \/ FinalizeAuction(r) \/ ConnectLiquidity(r) \/ WithdrawLiquidity(r)
      PROVE  Quiet
  <2>1. /\ UNCHANGED <<createdAt, known>>
        /\ \E name \in PostQueues : Begin(r, name, "publish")
    BY <1>4 DEF SubmitQuote, CreateAuction, PlaceBid, FinalizeAuction, ConnectLiquidity,
                WithdrawLiquidity, PostQueues
  <2> QED
    BY <2>1 DEF Begin, Become, PostQueues
<1>5. ASSUME NEW r \in Requests, BeginListing(r) PROVE Quiet
  <2>1. page[r] = << >>
    BY <1>5 DEF BeginListing, Begin, Become, Progress
  <2> QED
    BY <1>5, <2>1 DEF BeginListing, Begin, Become
<1>6. ASSUME NEW r \in Requests, FaucetRequest(r) PROVE Quiet
  BY <1>6 DEF FaucetRequest, RequestTokens, Become
<1>7. ASSUME NEW r \in Requests, SaveRFQ(r) PROVE Quiet
  <2>1. at[r] = "save" /\ route[r] = "rfq.events"
    BY <1>7 DEF SaveRFQ, Become, Progress
  <2> QED
    BY <1>7, <2>1 DEF SaveRFQ, Become, ServiceUnchanged
<1>8. ASSUME NEW r \in Requests, NEW ifFails, Publish(r, ifFails) PROVE Quiet
  <2>1. at[r] = "publish" /\ route[r] # "list"
    BY <1>8 DEF Publish, Become, Progress, PostQueues
  <2> QED
    BY <1>8, <2>1 DEF Publish, Become, ServiceUnchanged
<1>9. ASSUME NEW r \in Requests,
             ReadNonce(r) \/ ReadPrice(r) \/ SendTransaction(r) \/ CallFails(r),
             UNCHANGED apiVars
      PROVE  Quiet
  <2>1. at[r] \in {"nonce", "price", "send"} /\ \E s : at' = [at EXCEPT ![r] = s]
    BY <1>9 DEF ReadNonce, ReadPrice, SendTransaction, CallFails, Become
  <2>2. route[r] = "faucet"
    BY <2>1 DEF Progress
  <2> QED
    BY <1>9, <2>1, <2>2 DEF apiVars
<1>10. CASE (Mine /\ UNCHANGED apiVars) \/ LoseChannel \/ Tick \/ UNCHANGED vars
  <2>1. UNCHANGED <<at, route, createdAt, table, page, known>>
    BY <1>10 DEF Mine, LoseChannel, Tick, vars, apiVars, faucetVars
  <2>2. Quiet
    BY <2>1
  <2> QED
    BY <1>2, <2>2
<1> HIDE DEF Quiet
<1>11. ASSUME NEW r \in Requests, Serve(r) PROVE PagesInv'
  BY <1>2, <1>7, <1>8, <1>9, <1>11, PageGiven, Zenon
     DEF Serve, PublishRFQ, PublishQuote, PublishAuction, PublishLiquidity
<1> QED
  BY <1>2, <1>3, <1>4, <1>5, <1>6, <1>10, <1>11, Zenon DEF Next

(***************************************************************************)
(* A reader that pages to the end is given every row that was there when   *)
(* it began and is alone in its second, whatever is saved meanwhile.       *)
(***************************************************************************)
THEOREM ApiPagesComplete == Spec => []PagesComplete
<1>1. ApiInit => PagesInv
  BY DEF ApiInit, PagesInv
<1>2. PagesInv => PagesComplete
  BY DEF PagesInv, PagesComplete, NotMissed
<1> QED
  BY <1>1, <1>2, PagesStep, ApiAlwaysInv, PTL DEF Spec

-----------------------------------------------------------------------------
(***************************************************************************)
(* The hub.  The inductive invariant adds to the properties where the      *)
(* reader of a client in the map can be, and that a client holds nothing   *)
(* before it is registered nor between two messages.                       *)
(***************************************************************************)

ClientInv(c) ==
    /\ c \in clients => reader[c] \in {"registered", "reading", "leaving"}
    /\ ~HasJoined(c) => written[c] = << >> /\ send[c] = << >>
    /\ ~HasJoined(c) \/ reader[c] = "registered" => writer[c] = "none"
    /\ writer[c] \in {"none", "waiting"} => hand[c] = << >>

HubInv == HubTypeOK /\ ClosedOnLeaving /\ \A c \in Clients : ClientInv(c)

(* What NoGap says of one client. *)
GapFree(c) ==
    /\ \A i \in DOMAIN Feed(c) : Feed(c)[i] = joined[c] + i
    /\ c \in clients =>
         joined[c] + Len(Feed(c)) + (IF c \in visiting THEN 1 ELSE 0) = broadcasts

LEMMA HubInitInv == HubInit => HubInv
  BY HubAssumption
     DEF HubInit, HubInv, HubTypeOK, ClosedOnLeaving, ClientInv, HasJoined

-----------------------------------------------------------------------------
(* Types. *)

LEMMA TypeStep == HubTypeOK /\ HubNext => HubTypeOK'
<1> SUFFICES ASSUME HubTypeOK, HubNext PROVE HubTypeOK'
  OBVIOUS
<1> USE HubAssumption DEF HubTypeOK
<1>1. ASSUME TakeBroadcast PROVE HubTypeOK'
  BY <1>1 DEF TakeBroadcast
<1>2. ASSUME NEW c \in Clients, HandleWebSocket(c) PROVE HubTypeOK'
  BY <1>2 DEF HandleWebSocket, Move
<1>3. ASSUME NEW c \in Clients, StartPumps(c) PROVE HubTypeOK'
  BY <1>3 DEF StartPumps, Move
<1>4. ASSUME NEW c \in Clients, ReadFails(c) PROVE HubTypeOK'
  BY <1>4 DEF ReadFails, Move
<1>5. ASSUME NEW c \in Clients, ReaderCloses(c) PROVE HubTypeOK'
  BY <1>5 DEF ReaderCloses, Move
<1>6. ASSUME NEW c \in Clients, TakeMessage(c) PROVE HubTypeOK'
  <2>1. Head(send[c]) \in Nat /\ Tail(send[c]) \in Seq(Nat) /\ Len(Tail(send[c])) <= BufferSize
    BY <1>6 DEF TakeMessage
  <2>2. <<Head(send[c])>> \in Seq(Nat)
    BY <2>1
  <2>3. \A d \in Clients : Len(send'[d]) <= BufferSize
    BY <1>6, <2>1 DEF TakeMessage
  <2> QED
    BY <1>6, <2>1, <2>2, <2>3 DEF TakeMessage
<1>7. ASSUME NEW c \in Clients, SeeClosed(c) PROVE HubTypeOK'
  BY <1>7 DEF SeeClosed
<1>8. ASSUME NEW c \in Clients, WriteMessage(c) PROVE HubTypeOK'
  <2>1. written[c] \o hand[c] \in Seq(Nat) /\ << >> \in Seq(Nat)
    OBVIOUS
  <2> QED
    BY <1>8, <2>1 DEF WriteMessage
<1>9. ASSUME NEW c \in Clients, WriterCloses(c) PROVE HubTypeOK'
  BY <1>9 DEF WriterCloses
<1>10. ASSUME NEW c \in Clients, RegisterClient(c) PROVE HubTypeOK'
  BY <1>10 DEF RegisterClient, Move, Selecting
<1>11. ASSUME NEW c \in Clients, UnregisterClient(c) PROVE HubTypeOK'
  BY <1>11 DEF UnregisterClient, Move, Selecting
<1>12. ASSUME NEW c \in Clients, VisitClient(c) PROVE HubTypeOK'
  <2>1. CASE Len(send[c]) < BufferSize /\ send' = [send EXCEPT ![c] = Append(@, broadcasts)]
             /\ UNCHANGED <<clients, closed>>
    <3>1. Append(send[c], broadcasts) \in Seq(Nat)
          /\ Len(Append(send[c], broadcasts)) <= BufferSize
      BY <2>1
    <3>2. send' \in [Clients -> Seq(Nat)] /\ \A d \in Clients : Len(send'[d]) <= BufferSize
      BY <2>1, <3>1
    <3> QED
      BY <1>12, <2>1, <3>2 DEF VisitClient
  <2>2. CASE closed' = [closed EXCEPT ![c] = @ + 1] /\ clients' = clients \ {c}
             /\ UNCHANGED send
    BY <1>12, <2>2 DEF VisitClient
  <2> QED
    BY <1>12, <2>1, <2>2 DEF VisitClient
<1> QED
  BY <1>1, <1>2, <1>3, <1>4, <1>5, <1>6, <1>7, <1>8, <1>9, <1>10, <1>11, <1>12 DEF HubNext

-----------------------------------------------------------------------------
(* The channel of a client. *)

LEMMA ClosedStep == HubInv /\ HubNext => ClosedOnLeaving' /\ \A c \in Clients : ClientInv(c)'
<1> SUFFICES ASSUME HubInv, HubNext, NEW d \in Clients
             PROVE  /\ closed'[d] = IF HasJoined(d)' /\ d \notin clients' THEN 1 ELSE 0
                    /\ ClientInv(d)'
  BY DEF ClosedOnLeaving
<1> USE DEF HubInv, HubTypeOK, ClosedOnLeaving, ClientInv, HasJoined
<1> DEFINE Goal == /\ closed'[d] = IF HasJoined(d)' /\ d \notin clients' THEN 1 ELSE 0
                   /\ ClientInv(d)'
<1>1. ASSUME TakeBroadcast PROVE Goal
  BY <1>1 DEF TakeBroadcast
<1>2. ASSUME NEW c \in Clients, HandleWebSocket(c) PROVE Goal
  BY <1>2 DEF HandleWebSocket, Move
<1>3. ASSUME NEW c \in Clients, StartPumps(c) PROVE Goal
  BY <1>3 DEF StartPumps, Move
<1>4. ASSUME NEW c \in Clients, ReadFails(c) PROVE Goal
  BY <1>4 DEF ReadFails, Move
<1>5. ASSUME NEW c \in Clients, ReaderCloses(c) PROVE Goal
  BY <1>5 DEF ReaderCloses, Move
<1>6. ASSUME NEW c \in Clients, TakeMessage(c) PROVE Goal
  BY <1>6 DEF TakeMessage
<1>7. ASSUME NEW c \in Clients, SeeClosed(c) PROVE Goal
  BY <1>7 DEF SeeClosed
<1>8. ASSUME NEW c \in Clients, WriteMessage(c) PROVE Goal
  BY <1>8 DEF WriteMessage
<1>9. ASSUME NEW c \in Clients, WriterCloses(c) PROVE Goal
  BY <1>9 DEF WriterCloses
<1>10. ASSUME NEW c \in Clients, RegisterClient(c) PROVE Goal
  BY <1>10 DEF RegisterClient, Move, Selecting
<1>11. ASSUME NEW c \in Clients, UnregisterClient(c) PROVE Goal
  BY <1>11 DEF UnregisterClient, Move, Selecting
<1>12. ASSUME NEW c \in Clients, VisitClient(c) PROVE Goal
  BY <1>12 DEF VisitClient
<1> QED
  BY <1>1, <1>2, <1>3, <1>4, <1>5, <1>6, <1>7, <1>8, <1>9, <1>10, <1>11, <1>12 DEF HubNext

LEMMA HubStepInv == HubInv /\ [HubNext]_hubVars => HubInv'
<1>1. HubInv /\ HubNext => HubInv'
  BY TypeStep, ClosedStep DEF HubInv
<1>2. HubInv /\ UNCHANGED hubVars => HubInv'
  BY DEF HubInv, HubTypeOK, ClosedOnLeaving, ClientInv, HasJoined, hubVars
<1> QED
  BY <1>1, <1>2

LEMMA HubAlwaysInv == HubSpec => []HubInv
  BY HubInitInv, HubStepInv, PTL DEF HubSpec

(***************************************************************************)
(* The hub is well typed: no buffer is over its size, and a broadcast      *)
(* under way has only clients of the map left to visit, so Run never sends *)
(* on a channel it has closed.                                             *)
(***************************************************************************)
THEOREM HubTypeCorrect == HubSpec => []HubTypeOK
<1>1. HubInv => HubTypeOK
  BY DEF HubInv
<1> QED
  BY HubAlwaysInv, <1>1, PTL

(***************************************************************************)
(* However broadcasts, readers and writers interleave, Run closes the      *)
(* channel of a client once, when it takes it out of the map.              *)
(***************************************************************************)
THEOREM HubClosedOnLeaving == HubSpec => []ClosedOnLeaving
<1>1. HubInv => ClosedOnLeaving
  BY DEF HubInv
<1> QED
  BY HubAlwaysInv, <1>1, PTL

-----------------------------------------------------------------------------
(* The feed of a client. *)

LEMMA HeadAndTail ==
  ASSUME NEW s \in Seq(Nat), s # << >>
  PROVE  <<Head(s)>> \o Tail(s) = s
<1>1. /\ Head(s) \in Nat /\ Tail(s) \in Seq(Nat)
      /\ Len(Tail(s)) = Len(s) - 1
      /\ \A i \in 1 .. Len(Tail(s)) : Tail(s)[i] = s[i + 1]
  BY HeadTailProperties
<1>2. <<Head(s)>> \in Seq(Nat) /\ Len(<<Head(s)>>) = 1 /\ <<Head(s)>>[1] = Head(s)
  BY <1>1
<1> DEFINE t == <<Head(s)>> \o Tail(s)
<1>3. /\ t \in Seq(Nat) /\ Len(t) = 1 + Len(Tail(s))
      /\ \A i \in 1 .. 1 + Len(Tail(s)) : t[i] = IF i <= 1 THEN Head(s) ELSE Tail(s)[i - 1]
  BY <1>1, <1>2, ConcatProperties
<1>4. Len(t) = Len(s) /\ \A i \in 1 .. Len(s) : t[i] = s[i]
  BY <1>1, <1>3
<1> QED
  BY <1>3, <1>4, SeqEqual

LEMMA MovedHead ==
  ASSUME NEW w \in Seq(Nat), NEW s \in Seq(Nat), s # << >>
  PROVE  (w \o <<Head(s)>>) \o Tail(s) = w \o s
<1>1. <<Head(s)>> \in Seq(Nat) /\ Tail(s) \in Seq(Nat)
  BY HeadTailProperties
<1>2. (w \o <<Head(s)>>) \o Tail(s) = w \o (<<Head(s)>> \o Tail(s))
  BY <1>1, ConcatAssociative
<1> QED
  BY <1>2, HeadAndTail

LEMMA AppendToFeed ==
  ASSUME NEW w \in Seq(Nat), NEW s \in Seq(Nat), NEW b \in Nat
  PROVE  w \o Append(s, b) = Append(w \o s, b)
<1>1. <<b>> \in Seq(Nat) /\ w \o s \in Seq(Nat)
  BY ConcatProperties
<1>2. Append(s, b) = s \o <<b>> /\ Append(w \o s, b) = (w \o s) \o <<b>>
  BY <1>1, AppendIsConcat
<1>3. (w \o s) \o <<b>> = w \o (s \o <<b>>)
  BY <1>1, ConcatAssociative
<1> QED
  BY <1>2, <1>3

LEMMA FeedTaken ==
  ASSUME HubInv, NEW c \in Clients, TakeMessage(c)
  PROVE  \A d \in Clients : Feed(d)' = Feed(d)
<1> USE DEF HubInv, HubTypeOK, TakeMessage
<1>1. hand[c] = << >>
  BY DEF ClientInv
<1>2. Feed(c) = written[c] \o send[c]
  BY <1>1, ConcatEmptySeq DEF Feed
<1>3. Feed(c)' = (written[c] \o <<Head(send[c])>>) \o Tail(send[c])
  BY DEF Feed
<1>4. written[c] \in Seq(Nat) /\ send[c] \in Seq(Nat) /\ send[c] # << >>
  OBVIOUS
<1>5. Feed(c)' = Feed(c)
  BY <1>2, <1>3, <1>4, MovedHead
<1>6. \A d \in Clients \ {c} : Feed(d)' = Feed(d)
  BY DEF Feed
<1> QED
  BY <1>5, <1>6

LEMMA FeedWritten ==
  ASSUME HubInv, NEW c \in Clients, WriteMessage(c)
  PROVE  \A d \in Clients : Feed(d)' = Feed(d)
<1> USE DEF HubInv, HubTypeOK, WriteMessage
<1>1. Feed(c)' = ((written[c] \o hand[c]) \o << >>) \o send[c]
  BY DEF Feed
<1>2. (written[c] \o hand[c]) \o << >> = written[c] \o hand[c]
  BY ConcatProperties, ConcatEmptySeq
<1>3. Feed(c)' = Feed(c)
  BY <1>1, <1>2 DEF Feed
<1>4. \A d \in Clients \ {c} : Feed(d)' = Feed(d)
  BY DEF Feed
<1> QED
  BY <1>3, <1>4

(* A visit that delivers adds the broadcast at the end of one feed. *)
LEMMA FeedDelivered ==
  ASSUME HubInv, NEW c \in Clients, UNCHANGED <<hand, written>>,
         send' = [send EXCEPT ![c] = Append(@, broadcasts)]
  PROVE  /\ Feed(c)' = Append(Feed(c), broadcasts)
         /\ \A d \in Clients \ {c} : Feed(d)' = Feed(d)
<1> USE DEF HubInv, HubTypeOK
<1>1. /\ written[c] \o hand[c] \in Seq(Nat)
      /\ send[c] \in Seq(Nat) /\ broadcasts \in Nat
  BY ConcatProperties
<1>2. Feed(c)' = (written[c] \o hand[c]) \o Append(send[c], broadcasts)
  BY DEF Feed
<1>3. Feed(c)' = Append(Feed(c), broadcasts)
  BY <1>1, <1>2, AppendToFeed DEF Feed
<1>4. \A d \in Clients \ {c} : Feed(d)' = Feed(d)
  BY DEF Feed
<1> QED
  BY <1>3, <1>4

LEMMA FeedIsSeq == HubInv => \A c \in Clients : Feed(c) \in Seq(Nat)
  BY ConcatProperties DEF HubInv, HubTypeOK, Feed

(* Steps that leave the feeds, the broadcasts and what is in the map alone. *)
LEMMA GapFreeKept ==
  ASSUME NEW d \in Clients, GapFree(d), Feed(d)' = Feed(d),
         joined' = joined, broadcasts' = broadcasts, visiting' = visiting, clients' = clients
  PROVE  GapFree(d)'
  BY DEF GapFree

LEMMA GapFreeInit == HubInit => \A c \in Clients : GapFree(c)
<1> SUFFICES ASSUME HubInit, NEW c \in Clients PROVE GapFree(c)
  OBVIOUS
<1>1. Feed(c) = << >>
  BY ConcatEmptySeq DEF HubInit, Feed
<1> QED
  BY <1>1 DEF GapFree, HubInit

LEMMA GapFreeStep ==
  ASSUME HubInv, HubNext, NEW d \in Clients, GapFree(d)
  PROVE  GapFree(d)'
<1>1. ASSUME TakeBroadcast PROVE GapFree(d)'
  <2>1. Feed(d)' = Feed(d)
    BY <1>1 DEF TakeBroadcast, Feed
  <2>2. Len(Feed(d)) \in Nat
    BY FeedIsSeq
  <2> QED
    BY <1>1, <2>1, <2>2 DEF TakeBroadcast, Selecting, GapFree, HubInv, HubTypeOK
<1>2. ASSUME NEW c \in Clients, HandleWebSocket(c) \/ StartPumps(c) \/ ReadFails(c)
                                \/ ReaderCloses(c) \/ SeeClosed(c) \/ WriterCloses(c)
      PROVE GapFree(d)'
  <2>1. UNCHANGED <<written, hand, send, joined, broadcasts, visiting, clients>>
    BY <1>2 DEF HandleWebSocket, StartPumps, ReadFails, ReaderCloses, SeeClosed, WriterCloses
  <2>2. Feed(d)' = Feed(d)
    BY <2>1 DEF Feed
  <2> QED
    BY <2>1, <2>2, GapFreeKept
<1>3. ASSUME NEW c \in Clients, TakeMessage(c) PROVE GapFree(d)'
  BY <1>3, FeedTaken, GapFreeKept DEF TakeMessage
<1>4. ASSUME NEW c \in Clients, WriteMessage(c) PROVE GapFree(d)'
  BY <1>4, FeedWritten, GapFreeKept DEF WriteMessage
<1>5. ASSUME NEW c \in Clients, RegisterClient(c) PROVE GapFree(d)'
  <2>1. Feed(d)' = Feed(d) /\ visiting' = {} /\ visiting = {} /\ broadcasts' = broadcasts
    BY <1>5 DEF RegisterClient, Selecting, Feed
  <2>2. CASE d = c
    <3>1. written[c] = << >> /\ hand[c] = << >> /\ send[c] = << >>
      BY <1>5 DEF RegisterClient, Move, HubInv, ClientInv, HasJoined
    <3>2. Feed(c) = << >>
      BY <3>1, ConcatEmptySeq DEF Feed
    <3>3. joined'[c] = broadcasts /\ broadcasts \in Nat
      BY <1>5 DEF RegisterClient, HubInv, HubTypeOK
    <3> QED
      BY <2>1, <2>2, <3>2, <3>3 DEF GapFree
  <2>3. CASE d # c
    <3>1. joined'[d] = joined[d] /\ (d \in clients' => d \in clients)
      BY <1>5, <2>3 DEF RegisterClient, HubInv, HubTypeOK
    <3> QED
      BY <2>1, <3>1 DEF GapFree
  <2> QED
    BY <2>2, <2>3
<1>6. ASSUME NEW c \in Clients, UnregisterClient(c) PROVE GapFree(d)'
  <2>1. Feed(d)' = Feed(d)
    BY <1>6 DEF UnregisterClient, Feed
  <2> QED
    BY <1>6, <2>1 DEF UnregisterClient, GapFree
<1>7. ASSUME NEW c \in Clients, VisitClient(c) PROVE GapFree(d)'
  <2>1. /\ c \in visiting /\ visiting' = visiting \ {c} /\ c \in clients
        /\ joined' = joined /\ broadcasts' = broadcasts /\ UNCHANGED <<hand, written>>
    BY <1>7 DEF VisitClient, HubInv, HubTypeOK
  <2>2. CASE send' = [send EXCEPT ![c] = Append(@, broadcasts)] /\ clients' = clients
    <3>1. CASE d = c
      <4>1. Feed(c)' = Append(Feed(c), broadcasts) /\ Feed(c) \in Seq(Nat)
        BY <2>1, <2>2, FeedDelivered, FeedIsSeq
      <4>2. broadcasts \in Nat /\ joined[c] \in Nat /\ Len(Feed(c)) \in Nat
        BY <4>1, LenProperties DEF HubInv, HubTypeOK
      <4>3. joined[c] + Len(Feed(c)) + 1 = broadcasts
        BY <2>1, <3>1 DEF GapFree
      <4>4. /\ DOMAIN Feed(c)' = 1 .. Len(Feed(c)) + 1
            /\ Len(Feed(c)') = Len(Feed(c)) + 1
            /\ \A i \in 1 .. Len(Feed(c)) : Feed(c)'[i] = Feed(c)[i]
            /\ Feed(c)'[Len(Feed(c)) + 1] = broadcasts
        BY <4>1, <4>2, AppendProperties, LenProperties
      <4>5. \A i \in 1 .. Len(Feed(c)) : Feed(c)[i] = joined[c] + i
        BY <3>1, <4>1, LenProperties DEF GapFree
      <4>6. \A i \in 1 .. Len(Feed(c)) + 1 : Feed(c)'[i] = joined[c] + i
        BY <4>2, <4>3, <4>4, <4>5
      <4>7. joined[c] + Len(Feed(c)') + 0 = broadcasts
        BY <4>2, <4>3, <4>4
      <4> QED
        BY <2>1, <2>2, <3>1, <4>4, <4>6, <4>7 DEF GapFree
    <3>2. CASE d # c
      <4>1. Feed(d)' = Feed(d)
        BY <2>1, <2>2, <3>2, FeedDelivered
      <4> QED
        BY <2>1, <2>2, <3>2, <4>1 DEF GapFree
    <3> QED
      BY <3>1, <3>2
  <2>3. CASE send' = send /\ clients' = clients \ {c}
    <3>1. Feed(d)' = Feed(d)
      BY <2>1, <2>3 DEF Feed
    <3> QED
      BY <2>1, <2>3, <3>1 DEF GapFree
  <2> QED
    BY <1>7, <2>2, <2>3 DEF VisitClient
<1> QED
  BY <1>1, <1>2, <1>3, <1>4, <1>5, <1>6, <1>7 DEF HubNext

(***************************************************************************)
(* What a client was sent is every broadcast since its registration, up to *)
(* now or to its being dropped, in order and without a gap.                *)
(***************************************************************************)
THEOREM HubNoGap == HubSpec => []NoGap
<1> DEFINE Gaps == \A c \in Clients : GapFree(c)
<1>1. HubInit => Gaps
  BY GapFreeInit
<1>2. HubInv /\ Gaps /\ [HubNext]_hubVars => Gaps'
  <2>1. ASSUME HubInv, Gaps, HubNext PROVE Gaps'
    BY <2>1, GapFreeStep
  <2>2. ASSUME Gaps, UNCHANGED hubVars PROVE Gaps'
    BY <2>2 DEF GapFree, Feed, hubVars
  <2> QED
    BY <2>1, <2>2
<1>3. Gaps => NoGap
  BY DEF GapFree, NoGap
<1> HIDE DEF Gaps
<1> QED
  BY HubAlwaysInv, <1>1, <1>2, <1>3, PTL DEF HubSpec
=============================================================================
