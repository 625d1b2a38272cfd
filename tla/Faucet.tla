------------------------------- MODULE Faucet -------------------------------
(***************************************************************************)
(* The faucet (services/faucet/service.go).  Every request is served by a  *)
(* goroutine of its own that asks the node for the pending nonce of the    *)
(* faucet's account, then for a gas price, and sends a transfer with both. *)
(* The node is an external program: it keeps the transactions it accepted  *)
(* in a pool until they are mined in the order of their nonces, and one    *)
(* that pays more replaces one with the same nonce.                        *)
(***************************************************************************)
EXTENDS Integers, Sequences, Functions, FiniteSetsExt

CONSTANTS
    Requests,
    Prices          \* gas prices the node suggests

ASSUME FaucetAssumption == IsFiniteSet(Requests) /\ Prices \subseteq Nat \ {0}

VARIABLES
    at,             \* request -> what its handler does next, or its answer
    nonce,          \* request -> the nonce it read
    price,          \* request -> the gas price it read
    pool,           \* the requests whose transfers the node holds
    chain           \* the requests whose transfers are mined, in order

nodeVars == <<pool, chain>>
faucetVars == <<at, nonce, price, nodeVars>>

FaucetSteps == {"idle", "nonce", "price", "send", "ok", "error"}

FaucetTypeOK ==
    /\ nonce \in [Requests -> Nat]
    /\ price \in [Requests -> Prices \cup {0}]
    /\ pool \subseteq Requests
    /\ chain \in Seq(Requests)

FaucetInit ==
    /\ at = [r \in Requests |-> "idle"]
    /\ nonce = [r \in Requests |-> 0]
    /\ price = [r \in Requests |-> 0]
    /\ pool = {}
    /\ chain = << >>

Become(r, from, to) == at[r] = from /\ at' = [at EXCEPT ![r] = to]

(* The account's number of mined transactions, and that with the pool. *)
Mined == Len(chain)

Held(n) == \E q \in pool : nonce[q] = n

IsPending(n) == n >= Mined /\ ~Held(n) /\ \A m \in Mined .. n - 1 : Held(m)

(* A malformed body, address or amount is refused. *)
RequestTokens(r) ==
    /\ \/ Become(r, "idle", "nonce")
       \/ Become(r, "idle", "error")
    /\ UNCHANGED <<nonce, price, nodeVars>>

(* MUTANT: takes a nonce after the pending one. *)
ReadNonceNext(r) ==
    /\ Become(r, "nonce", "price")
    /\ \E n \in 0 .. Mined + Cardinality(pool) :
          IsPending(n) /\ nonce' = [nonce EXCEPT ![r] = n + Cardinality(pool)]
    /\ UNCHANGED <<price, nodeVars>>

ReadNonce(r) ==
    /\ Become(r, "nonce", "price")
    /\ \E n \in 0 .. Mined + Cardinality(pool) :
          IsPending(n) /\ nonce' = [nonce EXCEPT ![r] = n]
    /\ UNCHANGED <<price, nodeVars>>

ReadPrice(r) ==
    /\ Become(r, "price", "send")
    /\ \E p \in Prices : price' = [price EXCEPT ![r] = p]
    /\ UNCHANGED <<nonce, nodeVars>>

Rivals(r) == {q \in pool : nonce[q] = nonce[r]}

(* MUTANT: any transaction replaces another. *)
AcceptsAny(r) == nonce[r] >= Mined

(* The node accepts a transfer that is neither mined nor pays too little. *)
Accepts(r) == nonce[r] >= Mined /\ \A q \in Rivals(r) : price[q] < price[r]

SendTransaction(r) ==
    /\ Accepts(r)
    /\ Become(r, "send", "ok")
    /\ pool' = (pool \ Rivals(r)) \cup {r}
    /\ UNCHANGED <<nonce, price, chain>>

(* A call fails; the transaction may have been accepted all the same. *)
CallFails(r) ==
    /\ at[r] \in {"nonce", "price", "send"}
    /\ at' = [at EXCEPT ![r] = "error"]
    /\ \/ UNCHANGED pool
       \/ /\ at[r] = "send" /\ Accepts(r)
          /\ pool' = (pool \ Rivals(r)) \cup {r}
    /\ UNCHANGED <<nonce, price, chain>>

Mine ==
    /\ \E r \in pool :
          /\ nonce[r] = Mined
          /\ pool' = pool \ {r}
          /\ chain' = Append(chain, r)
    /\ UNCHANGED <<at, nonce, price>>

FaucetNext ==
    \/ Mine
    \/ \E r \in Requests :
          \/ RequestTokens(r)
          \/ ReadNonce(r)
          \/ ReadPrice(r)
          \/ SendTransaction(r)
          \/ CallFails(r)

FaucetSpec == FaucetInit /\ [][FaucetNext]_faucetVars

-----------------------------------------------------------------------------

(***************************************************************************)
(* No transfer waits for a nonce that nobody sends: however the reads and  *)
(* sends of many requests interleave, every nonce below one in the pool is *)
(* mined or in the pool too, and each is there once.                       *)
(***************************************************************************)
NoNonceGap ==
    \A r \in pool :
        /\ nonce[r] >= Mined
        /\ \A n \in Mined .. nonce[r] - 1 : Held(n)
        /\ Rivals(r) = {r}

(***************************************************************************)
(* A request answered with success is paid, or in the pool to be paid, or  *)
(* lost its place to a request that had read the same nonce and offers a   *)
(* higher price: nothing else undoes a success.                            *)
(***************************************************************************)
Sent == pool \cup Range(chain)

SuccessAccounted ==
    \A r \in Requests :
        at[r] = "ok" /\ price[r] # 0 =>
            \/ r \in Sent
            \/ \E q \in Sent : nonce[q] = nonce[r] /\ price[q] > price[r]

(***************************************************************************)
(* What the node accepted does not wait for ever: it is mined or replaced. *)
(***************************************************************************)
PoolDrains == \A r \in Requests : (r \in pool) ~> (r \notin pool)
=============================================================================
