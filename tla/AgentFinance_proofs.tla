------------------------- MODULE AgentFinance_proofs -------------------------
(***************************************************************************)
(* Proofs about the liquidity contract and about the whole on-chain        *)
(* system: the wrapper's links name the right credit lines, no line        *)
(* belongs to two requests, and what is reserved, held and minted adds up, *)
(* for any numbers of accounts, requests, lines and amounts.  The first    *)
(* part is about finite sums, the second about AquaIntegration, the third  *)
(* about AgentFinance over all contracts.                                  *)
(***************************************************************************)
EXTENDS AgentFinance, RFQ_proofs, Auction_proofs,
        FiniteSetTheorems, WellFoundedInduction, TLAPS

-----------------------------------------------------------------------------
(* Finite sums.  The library sums by recursion over the subsets of a set;  *)
(* what is needed of it is shown by taking a smallest subset for which it  *)
(* would fail.                                                             *)

(* Among any subsets of a finite set there is a smallest one. *)
LEMMA SmallestSubset ==
  ASSUME NEW S, IsFiniteSet(S), NEW B, B \subseteq SUBSET S, B # {}
  PROVE  \E U \in B : \A V \in B : V \subseteq U => V = U
<1>1. IsWellFoundedOn(StrictSubsetOrdering(S), SUBSET S)
  BY FS_StrictSubsetOrderingWellFounded, FS_FiniteSubsetsOfFinite
<1>2. PICK U \in B : \A V \in B : ~(<<V, U>> \in StrictSubsetOrdering(S))
  BY <1>1, WFMin
<1> QED
  BY <1>2 DEF StrictSubsetOrdering

(* The sums of the model, for a function of the summands. *)
Total(w, S) == MapThenSumSet(LAMBDA x : w[x], S)

(* The function that the sum over the subsets of S is taken from. *)
IsSum(f, w, S) ==
    f = [T \in SUBSET S |->
            IF T = {} THEN 0
            ELSE w[CHOOSE x \in T : TRUE] + f[T \ {CHOOSE x \in T : TRUE}]]

LEMMA TotalIsSum ==
  ASSUME NEW w, NEW S PROVE Total(w, S) = (CHOOSE f : IsSum(f, w, S))[S]
  BY DEF Total, IsSum, MapThenSumSet, MapThenFoldSet

(* The summand that is taken first. *)
First(T) == CHOOSE x \in T : TRUE

LEMMA FirstIn == ASSUME NEW T, T # {} PROVE First(T) \in T
  BY DEF First

LEMMA SumValue ==
  ASSUME NEW w, NEW S, NEW f, IsSum(f, w, S), NEW T \in SUBSET S
  PROVE  f[T] = IF T = {} THEN 0 ELSE w[First(T)] + f[T \ {First(T)}]
  BY DEF IsSum, First

(* There is one such function, and it agrees with those of the subsets. *)
LEMMA SumUnique ==
  ASSUME NEW w, NEW S, IsFiniteSet(S), NEW f, NEW g, IsSum(f, w, S),
         NEW U \in SUBSET S, IsSum(g, w, U)
  PROVE  \A T \in SUBSET U : f[T] = g[T]
<1> DEFINE B == {T \in SUBSET U : f[T] # g[T]}
<1> SUFFICES ASSUME B # {} PROVE FALSE
  OBVIOUS
<1>1. PICK T \in B : \A V \in B : V \subseteq T => V = T
  <2>1. B \subseteq SUBSET S
    OBVIOUS
  <2> HIDE DEF B
  <2> QED
    BY <2>1, SmallestSubset
<1>2. f[T] = (IF T = {} THEN 0 ELSE w[First(T)] + f[T \ {First(T)}])
  BY SumValue
<1>3. g[T] = (IF T = {} THEN 0 ELSE w[First(T)] + g[T \ {First(T)}])
  BY SumValue
<1>4. CASE T # {}
  <2>1. T \ {First(T)} \in SUBSET U /\ T \ {First(T)} # T
    BY <1>4, FirstIn
  <2>2. f[T \ {First(T)}] = g[T \ {First(T)}]
    BY <1>1, <2>1
  <2> QED
    BY <1>1, <1>2, <1>3, <2>2
<1> QED
  BY <1>1, <1>2, <1>3, <1>4

SumOver(w, S) == CHOOSE f : IsSum(f, w, S)

LEMMA SumExists ==
  ASSUME NEW w, NEW S, IsFiniteSet(S)
  PROVE  IsSum(SumOver(w, S), w, S)
<1> DEFINE B == {T \in SUBSET S : ~IsSum(SumOver(w, T), w, T)}
<1> SUFFICES ASSUME B # {} PROVE FALSE
  BY DEF B
<1>1. PICK U \in B : \A V \in B : V \subseteq U => V = U
  <2>1. B \subseteq SUBSET S
    OBVIOUS
  <2> HIDE DEF B
  <2> QED
    BY <2>1, SmallestSubset
<1>2. \A V \in SUBSET U : V # U => IsSum(SumOver(w, V), w, V)
  BY <1>1
<1> HIDE DEF B
<1> DEFINE rest(T) == SumOver(w, T \ {First(T)})[T \ {First(T)}]
           g == [T \in SUBSET U |-> IF T = {} THEN 0 ELSE w[First(T)] + rest(T)]
<1>3. ASSUME NEW T \in SUBSET U, T # U
      PROVE  SumOver(w, T)[T] = g[T]
  <2>1. SumOver(w, T)[T] = IF T = {} THEN 0
                           ELSE w[First(T)] + SumOver(w, T)[T \ {First(T)}]
    BY <1>2, <1>3, SumValue
  <2>2. CASE T # {}
    <3>1. T \ {First(T)} \in SUBSET T /\ T \ {First(T)} # U /\ T \ {First(T)} \in SUBSET U
      BY <1>3, <2>2, FirstIn
    <3>2. IsSum(SumOver(w, T), w, T) /\ IsSum(SumOver(w, T \ {First(T)}), w, T \ {First(T)})
      BY <1>2, <1>3, <3>1
    <3>3. IsFiniteSet(T)
      BY <1>1, FS_Subset DEF B
    <3>4. SumOver(w, T)[T \ {First(T)}] = rest(T)
      BY <3>1, <3>2, <3>3, SumUnique
    <3> QED
      BY <2>1, <2>2, <3>4
  <2> QED
    BY <2>1, <2>2
<1>4. \A T \in SUBSET U : T # {} => rest(T) = g[T \ {First(T)}]
  BY <1>3, FirstIn
<1> HIDE DEF rest
<1>5. IsSum(g, w, U)
  <2>1. g = [T \in SUBSET U |-> IF T = {} THEN 0 ELSE w[First(T)] + g[T \ {First(T)}]]
    BY <1>4
  <2> QED
    BY <2>1 DEF IsSum, First
<1> HIDE DEF g
<1>6. IsSum(SumOver(w, U), w, U)
  BY <1>5 DEF SumOver
<1> QED
  BY <1>1, <1>6 DEF B

(* A sum is its first summand and the sum of the others. *)
LEMMA TotalDef ==
  ASSUME NEW w, NEW S, IsFiniteSet(S)
  PROVE  Total(w, S) = IF S = {} THEN 0 ELSE w[First(S)] + Total(w, S \ {First(S)})
<1> DEFINE f == SumOver(w, S)
           R == S \ {First(S)}
<1>1. Total(w, S) = f[S] /\ IsSum(f, w, S)
  BY TotalIsSum, SumExists DEF SumOver
<1>2. f[S] = IF S = {} THEN 0 ELSE w[First(S)] + f[R]
  BY <1>1, SumValue
<1>3. R \in SUBSET S /\ IsFiniteSet(R)
  BY FS_Subset
<1>4. Total(w, R) = SumOver(w, R)[R] /\ IsSum(SumOver(w, R), w, R)
  BY <1>3, TotalIsSum, SumExists DEF SumOver
<1>5. f[R] = SumOver(w, R)[R]
  BY <1>1, <1>3, <1>4, SumUnique
<1> QED
  BY <1>1, <1>2, <1>4, <1>5

LEMMA TotalType ==
  ASSUME NEW w, NEW S, IsFiniteSet(S), \A x \in S : w[x] \in Int
  PROVE  \A T \in SUBSET S : Total(w, T) \in Int
<1> DEFINE B == {T \in SUBSET S : Total(w, T) \notin Int}
<1> SUFFICES ASSUME B # {} PROVE FALSE
  OBVIOUS
<1>1. PICK T \in B : \A V \in B : V \subseteq T => V = T
  <2>1. B \subseteq SUBSET S
    OBVIOUS
  <2> HIDE DEF B
  <2> QED
    BY <2>1, SmallestSubset
<1>2. IsFiniteSet(T)
  BY <1>1, FS_Subset
<1>3. T # {}
  <2>1. Total(w, T) \notin Int
    BY <1>1
  <2>2. T = {} => Total(w, T) = 0
    BY <1>2, TotalDef
  <2> QED
    BY <2>1, <2>2
<1>4. Total(w, T \ {First(T)}) \in Int /\ First(T) \in S
  BY <1>1, <1>3, FirstIn
<1> QED
  BY <1>1, <1>2, <1>3, <1>4, TotalDef

(* The order of the summands does not matter. *)
LEMMA TotalRemove ==
  ASSUME NEW w, NEW S, IsFiniteSet(S), \A x \in S : w[x] \in Int
  PROVE  \A x \in S : Total(w, S) = w[x] + Total(w, S \ {x})
<1> DEFINE B == {T \in SUBSET S : \E x \in T : Total(w, T) # w[x] + Total(w, T \ {x})}
<1> SUFFICES ASSUME B # {} PROVE FALSE
  OBVIOUS
<1>1. PICK T \in B : \A V \in B : V \subseteq T => V = T
  <2>1. B \subseteq SUBSET S
    OBVIOUS
  <2> HIDE DEF B
  <2> QED
    BY <2>1, SmallestSubset
<1>2. PICK x \in T : Total(w, T) # w[x] + Total(w, T \ {x})
  BY <1>1
<1> DEFINE p == First(T)
           R == (T \ {x}) \ {p}
<1>3. p \in T /\ Total(w, T) = w[p] + Total(w, T \ {p})
  <2>1. IsFiniteSet(T) /\ T # {}
    BY <1>1, <1>2, FS_Subset
  <2> QED
    BY <2>1, TotalDef, FirstIn
<1> HIDE DEF p
<1>4. x # p
  BY <1>2, <1>3
<1>5. \A V \in SUBSET T : V # T => \A y \in V : Total(w, V) = w[y] + Total(w, V \ {y})
  BY <1>1
<1>6. Total(w, T \ {p}) = w[x] + Total(w, R)
  <2>1. x \in T \ {p} /\ (T \ {p}) \ {x} = R
    BY <1>4
  <2>2. (T \ {p}) \in SUBSET T /\ T \ {p} # T
    BY <1>3
  <2> QED
    BY <1>5, <2>1, <2>2
<1>7. Total(w, T \ {x}) = w[p] + Total(w, R)
  <2>1. p \in T \ {x} /\ (T \ {x}) \in SUBSET T /\ T \ {x} # T
    BY <1>3, <1>4
  <2> QED
    BY <1>5, <2>1
<1>8. w[x] \in Int /\ w[p] \in Int /\ Total(w, R) \in Int
  BY <1>1, <1>3, TotalType
<1> QED
  BY <1>2, <1>3, <1>6, <1>7, <1>8

LEMMA TotalSame ==
  ASSUME NEW v, NEW w, NEW S, IsFiniteSet(S), \A x \in S : v[x] = w[x]
  PROVE  Total(v, S) = Total(w, S)
<1> DEFINE B == {T \in SUBSET S : Total(v, T) # Total(w, T)}
<1> SUFFICES ASSUME B # {} PROVE FALSE
  OBVIOUS
<1>1. PICK T \in B : \A V \in B : V \subseteq T => V = T
  <2>1. B \subseteq SUBSET S
    OBVIOUS
  <2> HIDE DEF B
  <2> QED
    BY <2>1, SmallestSubset
<1>2. IsFiniteSet(T)
  BY <1>1, FS_Subset
<1>3. T # {}
  BY <1>1, <1>2, TotalDef
<1>4. First(T) \in T /\ Total(v, T \ {First(T)}) = Total(w, T \ {First(T)})
  BY <1>1, <1>3, FirstIn
<1> QED
  BY <1>1, <1>2, <1>3, <1>4, TotalDef

(* Changing one summand changes the sum by as much. *)
LEMMA TotalChange ==
  ASSUME NEW v, NEW w, NEW S, IsFiniteSet(S), NEW x \in S,
         \A y \in S : v[y] \in Int /\ w[y] \in Int,
         \A y \in S : y # x => v[y] = w[y]
  PROVE  /\ Total(v, S) \in Int /\ Total(w, S) \in Int
         /\ Total(v, S) - Total(w, S) = v[x] - w[x]
<1>1. Total(v, S) = v[x] + Total(v, S \ {x}) /\ Total(w, S) = w[x] + Total(w, S \ {x})
  BY TotalRemove
<1>2. Total(v, S \ {x}) = Total(w, S \ {x})
  BY FS_RemoveElement, TotalSame
<1>3. Total(v, S \ {x}) \in Int /\ Total(v, S) \in Int /\ Total(w, S) \in Int
  BY TotalType
<1> QED
  BY <1>1, <1>2, <1>3

-----------------------------------------------------------------------------
(* The liquidity contract. *)

AquaInv == AquaTypeOK /\ ReservedWithinProvided

LEMMA AquaInitInv == AquaInit => AquaInv
  BY EvmAssumption DEF AquaInit, AquaInv, AquaTypeOK, ReservedWithinProvided, Uint

(* A transfer leaves every balance a uint256. *)
LEMMA MoveType ==
  ASSUME balanceOf \in [Accounts -> Uint],
         NEW from \in Accounts, NEW to \in Accounts, NEW amount \in Uint,
         Move(from, to, amount)
  PROVE  balanceOf' \in [Accounts -> Uint]
<1> DEFINE debited == [balanceOf EXCEPT ![from] = @ - amount]
<1>1. debited \in [Accounts -> Uint]
  BY EvmAssumption DEF Move, Uint
<1>2. debited[to] + amount \in Uint /\ balanceOf' = [debited EXCEPT ![to] = @ + amount]
  BY DEF Move
<1> QED
  BY <1>1, <1>2

LEMMA ConnectInv ==
  ASSUME AquaInv, NEW u \in Users, NEW amount \in Uint, ConnectLiquidity(u, amount)
  PROVE  AquaInv'
<1>1. balanceOf' \in [Accounts -> Uint]
  BY MoveType DEF AquaInv, AquaTypeOK, ConnectLiquidity, PullFrom, Accounts
<1>2. allowance' \in [Users -> Uint] /\ totalSupply' \in Uint
  BY EvmAssumption DEF AquaInv, AquaTypeOK, ConnectLiquidity, PullFrom, Uint
<1>3. /\ liquidityProvided' \in [Users -> Uint]
      /\ liquidityReserved' = liquidityReserved
      /\ \A v \in Users : liquidityProvided[v] <= liquidityProvided'[v]
  BY EvmAssumption DEF AquaInv, AquaTypeOK, ConnectLiquidity, Uint
<1>4. ReservedWithinProvided'
  BY <1>3, EvmAssumption DEF AquaInv, AquaTypeOK, ReservedWithinProvided, Uint
<1> QED
  BY <1>1, <1>2, <1>3, <1>4 DEF AquaInv, AquaTypeOK

LEMMA WithdrawInv ==
  ASSUME AquaInv, NEW u \in Users, NEW amount \in Uint, WithdrawLiquidity(u, amount)
  PROVE  AquaInv'
<1>1. balanceOf' \in [Accounts -> Uint]
  BY MoveType DEF AquaInv, AquaTypeOK, WithdrawLiquidity, Accounts
<1>2. /\ liquidityProvided' \in [Users -> Uint]
      /\ liquidityReserved' = liquidityReserved
      /\ liquidityReserved[u] <= liquidityProvided'[u]
      /\ \A v \in Users \ {u} : liquidityProvided'[v] = liquidityProvided[v]
  BY EvmAssumption
     DEF AquaInv, AquaTypeOK, ReservedWithinProvided, WithdrawLiquidity, Available, Uint
<1>3. ReservedWithinProvided'
  BY <1>2, EvmAssumption DEF AquaInv, ReservedWithinProvided
<1> QED
  BY <1>1, <1>2, <1>3 DEF AquaInv, AquaTypeOK, WithdrawLiquidity

LEMMA ReserveInv ==
  ASSUME AquaInv, NEW u \in Users, NEW amount \in Uint, ReserveLiquidity(u, amount)
  PROVE  AquaInv'
<1>1. AquaTypeOK'
  BY EvmAssumption DEF AquaInv, AquaTypeOK, ReserveLiquidity, Uint, tokenVars
<1>2. ReservedWithinProvided'
  BY EvmAssumption
     DEF AquaInv, AquaTypeOK, ReservedWithinProvided, ReserveLiquidity, Available, Uint
<1> QED
  BY <1>1, <1>2 DEF AquaInv

LEMMA ReleaseInv ==
  ASSUME AquaInv, NEW u \in Users, NEW amount \in Uint, ReleaseLiquidity(u, amount)
  PROVE  AquaInv'
<1>1. AquaTypeOK'
  BY EvmAssumption DEF AquaInv, AquaTypeOK, ReleaseLiquidity, Uint, tokenVars
<1>2. ReservedWithinProvided'
  BY EvmAssumption
     DEF AquaInv, AquaTypeOK, ReservedWithinProvided, ReleaseLiquidity, Uint
<1> QED
  BY <1>1, <1>2 DEF AquaInv

(* The token's own transactions do not touch the liquidity records. *)
LEMMA TokenInv ==
  ASSUME AquaInv, NEW u \in Users, NEW to \in Accounts, NEW amount \in Uint,
         Mint(to, amount) \/ Approve(u, amount) \/ Transfer(u, to, amount)
  PROVE  AquaInv'
<1>1. UNCHANGED liquidityVars
  BY DEF Mint, Approve, Transfer
<1>2. CASE Mint(to, amount)
  BY <1>1, <1>2 DEF Mint, AquaInv, AquaTypeOK, ReservedWithinProvided, liquidityVars
<1>3. CASE Approve(u, amount)
  BY <1>1, <1>3 DEF Approve, AquaInv, AquaTypeOK, ReservedWithinProvided, liquidityVars
<1>4. CASE Transfer(u, to, amount)
  <2>1. balanceOf' \in [Accounts -> Uint]
    BY <1>4, MoveType DEF AquaInv, AquaTypeOK, Transfer, Accounts
  <2> QED
    BY <1>1, <1>4, <2>1
       DEF Transfer, AquaInv, AquaTypeOK, ReservedWithinProvided, liquidityVars
<1> QED
  BY <1>2, <1>3, <1>4

LEMMA AquaNextInv == AquaInv /\ AquaNext => AquaInv'
<1> SUFFICES ASSUME AquaInv, AquaNext PROVE AquaInv'
  OBVIOUS
<1> USE EvmAssumption DEF Uint
<1>1. CASE LenderNext
  <2>1. PICK u \in Users, amount \in Amounts :
           \/ Approve(u, amount)
           \/ \E to \in Accounts : Mint(to, amount) \/ Transfer(u, to, amount)
           \/ ConnectLiquidity(u, amount)
           \/ WithdrawLiquidity(u, amount)
    BY <1>1, Zenon DEF LenderNext
  <2>2. amount \in Uint /\ u \in Accounts
    BY DEF Accounts
  <2> QED
    BY <2>1, <2>2, TokenInv, ConnectInv, WithdrawInv
<1>2. CASE DirectReserveNext
  <2>1. PICK u \in Users, amount \in Amounts :
           ReserveLiquidity(u, amount) \/ ReleaseLiquidity(u, amount)
    BY <1>2, Zenon DEF DirectReserveNext
  <2> QED
    BY <2>1, ReserveInv, ReleaseInv
<1> QED
  BY <1>1, <1>2 DEF AquaNext

LEMMA AquaStutterInv == AquaInv /\ UNCHANGED aquaVars => AquaInv'
  BY DEF AquaInv, AquaTypeOK, ReservedWithinProvided, aquaVars, tokenVars, liquidityVars

LEMMA AquaAlwaysInv == AquaSpec => []AquaInv
<1>1. AquaInv /\ [AquaNext]_aquaVars => AquaInv'
  BY AquaNextInv, AquaStutterInv
<1> QED
  BY AquaInitInv, <1>1, PTL DEF AquaSpec

(***************************************************************************)
(* Every balance, allowance and stake stays a uint256: no subtraction of   *)
(* the token or the pool underflows.                                       *)
(***************************************************************************)
THEOREM AquaTypeCorrect == AquaSpec => []AquaTypeOK
<1>1. AquaInv => AquaTypeOK
  BY DEF AquaInv
<1> QED
  BY AquaAlwaysInv, <1>1, PTL

(***************************************************************************)
(* No lender ever has more liquidity reserved than provided, whoever calls *)
(* reserve and release.                                                    *)
(***************************************************************************)
THEOREM AquaSafe == AquaSpec => []ReservedWithinProvided
<1>1. AquaInv => ReservedWithinProvided
  BY DEF AquaInv
<1> QED
  BY AquaAlwaysInv, <1>1, PTL

LEMMA StakeStep == AquaInv /\ AquaNext => StakeMovesWithTokens
<1> SUFFICES ASSUME AquaInv, AquaNext PROVE StakeMovesWithTokens
  OBVIOUS
<1> USE EvmAssumption DEF Uint
<1>0. /\ Aqua \in Accounts
      /\ \A u \in Users : /\ u # Aqua /\ u \in Accounts
                          /\ balanceOf[u] \in Int /\ liquidityProvided[u] \in Int
      /\ balanceOf \in [Accounts -> Uint] /\ liquidityProvided \in [Users -> Uint]
      /\ allowance \in [Users -> Uint]
  BY AquaAssumption DEF Accounts, AquaInv, AquaTypeOK
<1> USE DEF StakeMovesWithTokens, StakePaid, SpentAsAllowed
<1>1. ASSUME liquidityProvided' = liquidityProvided,
             \A u \in Users : balanceOf'[u] \in Int /\ balanceOf'[u] >= balanceOf[u]
      PROVE  StakeMovesWithTokens
  BY <1>0, <1>1
<1>2. ASSUME balanceOf' = balanceOf, liquidityProvided' = liquidityProvided
      PROVE  StakeMovesWithTokens
  BY <1>0, <1>1, <1>2
<1>3. CASE LenderNext
  <2>1. PICK u \in Users, amount \in Amounts :
           \/ Approve(u, amount)
           \/ \E to \in Accounts : Mint(to, amount) \/ Transfer(u, to, amount)
           \/ ConnectLiquidity(u, amount)
           \/ WithdrawLiquidity(u, amount)
    BY <1>3, Zenon DEF LenderNext
  <2>2. amount \in Uint /\ amount \in Int
    OBVIOUS
  <2>3. CASE Approve(u, amount)
    BY <1>2, <2>3 DEF Approve, liquidityVars
  <2>4. CASE \E to \in Accounts : Mint(to, amount)
    <3>1. PICK to \in Accounts : Mint(to, amount)
      BY <2>4
    <3> QED
      BY <1>0, <1>1, <2>2, <3>1 DEF Mint, liquidityVars
  <2>5. CASE \E to \in Accounts : Transfer(u, to, amount)
    <3>1. PICK to \in Accounts : Transfer(u, to, amount)
      BY <2>5
    <3>2. \A v \in Users \ {u} : balanceOf'[v] \in Int /\ balanceOf'[v] >= balanceOf[v]
      BY <1>0, <2>2, <3>1 DEF Transfer, Move
    <3>3. liquidityProvided' = liquidityProvided
      BY <3>1 DEF Transfer, liquidityVars
    <3>4. \A v \in Users : SpentAsAllowed(v)
      BY <1>0, <3>1, <3>2
    <3> HIDE DEF SpentAsAllowed
    <3> QED
      BY <1>0, <3>3, <3>4
  <2>6. CASE ConnectLiquidity(u, amount)
    <3>1. /\ balanceOf'[Aqua] = balanceOf[Aqua] + amount /\ balanceOf'[u] = balanceOf[u] - amount
          /\ \A v \in Users \ {u} : balanceOf'[v] = balanceOf[v]
      BY <1>0, <2>6 DEF ConnectLiquidity, PullFrom, Move
    <3>2. /\ liquidityProvided' = [liquidityProvided EXCEPT ![u] = @ + amount]
          /\ allowance' = [allowance EXCEPT ![u] = @ - amount]
      BY <2>6 DEF ConnectLiquidity, PullFrom
    <3>3. \A v \in Users : StakePaid(v)
      BY <1>0, <2>2, <3>1, <3>2
    <3>4. \A v \in Users : SpentAsAllowed(v)
      BY <1>0, <2>2, <3>1, <3>2
    <3> QED
      BY <3>3, <3>4
  <2>7. CASE WithdrawLiquidity(u, amount)
    <3>1. /\ balanceOf'[Aqua] = balanceOf[Aqua] - amount /\ balanceOf'[u] = balanceOf[u] + amount
          /\ \A v \in Users \ {u} : balanceOf'[v] = balanceOf[v]
      BY <1>0, <2>7 DEF WithdrawLiquidity, Move
    <3>2. liquidityProvided' = [liquidityProvided EXCEPT ![u] = @ - amount]
      BY <2>7 DEF WithdrawLiquidity
    <3>3. \A v \in Users : StakePaid(v)
      BY <1>0, <2>2, <3>1, <3>2
    <3>4. \A v \in Users : SpentAsAllowed(v)
      BY <1>0, <2>2, <3>1, <3>2
    <3> QED
      BY <3>3, <3>4
  <2> QED
    BY <2>1, <2>3, <2>4, <2>5, <2>6, <2>7
<1>4. CASE DirectReserveNext
  BY <1>2, <1>4 DEF DirectReserveNext, ReserveLiquidity, ReleaseLiquidity, tokenVars
<1> QED
  BY <1>3, <1>4 DEF AquaNext

(***************************************************************************)
(* A stake grows and shrinks only by tokens that move between its lender   *)
(* and the contract in the same transaction, and a user's tokens leave     *)
(* only by the user's own transfer or against the user's allowance.        *)
(***************************************************************************)
THEOREM AquaStakeBacked == AquaSpec => StakeBacked
<1>1. AquaInv /\ [AquaNext]_aquaVars => AquaInv'
  BY AquaNextInv, AquaStutterInv
<1>2. AquaInv /\ [AquaNext]_aquaVars => [StakeMovesWithTokens]_aquaVars
  BY StakeStep
<1> QED
  BY AquaInitInv, <1>1, <1>2, PTL DEF AquaSpec, StakeBacked

(* A transfer moves tokens from one account to another and makes none. *)
LEMMA MoveTotal ==
  ASSUME balanceOf \in [Accounts -> Uint],
         NEW from \in Accounts, NEW to \in Accounts, NEW amount \in Uint,
         Move(from, to, amount)
  PROVE  Total(balanceOf', Accounts) = Total(balanceOf, Accounts)
<1> DEFINE debited == [balanceOf EXCEPT ![from] = @ - amount]
<1>1. IsFiniteSet(Accounts)
  BY AquaAssumption, FS_AddElement DEF Accounts
<1>2. /\ balanceOf' = [debited EXCEPT ![to] = @ + amount]
      /\ balanceOf' \in [Accounts -> Uint] /\ debited \in [Accounts -> Int]
      /\ amount \in Int
  BY MoveType, EvmAssumption DEF Move, Uint
<1>3. \A u \in Accounts : balanceOf[u] \in Int /\ debited[u] \in Int /\ balanceOf'[u] \in Int
  BY <1>2, EvmAssumption DEF Uint
<1>4. /\ debited[from] = balanceOf[from] - amount
      /\ \A u \in Accounts : u # from => debited[u] = balanceOf[u]
  OBVIOUS
<1> HIDE DEF debited
<1>5. /\ balanceOf'[to] = debited[to] + amount
      /\ \A u \in Accounts : u # to => balanceOf'[u] = debited[u]
  BY <1>2
<1>6. /\ Total(debited, Accounts) \in Int /\ Total(balanceOf, Accounts) \in Int
      /\ Total(debited, Accounts) - Total(balanceOf, Accounts) = debited[from] - balanceOf[from]
  BY <1>1, <1>3, <1>4, TotalChange
<1>7. /\ Total(balanceOf', Accounts) \in Int
      /\ Total(balanceOf', Accounts) - Total(debited, Accounts) = balanceOf'[to] - debited[to]
  BY <1>1, <1>3, <1>5, TotalChange
<1>8. debited[from] - balanceOf[from] = 0 - amount
  BY <1>2, <1>3, <1>4
<1>9. balanceOf'[to] - debited[to] = amount
  BY <1>2, <1>3, <1>5
<1> QED
  BY <1>2, <1>6, <1>7, <1>8, <1>9

LEMMA SupplyTotal == SupplyConserved <=> Total(balanceOf, Accounts) = totalSupply
  BY DEF SupplyConserved, Total

(* The sums that change, of each kind of transaction: a move, a mint, and  *)
(* those that touch no balance.                                            *)
LEMMA SupplyStep ==
  ASSUME AquaInv, SupplyConserved, AquaNext
  PROVE  SupplyConserved'
<1> USE EvmAssumption DEF Uint
<1>0. IsFiniteSet(Accounts)
  BY AquaAssumption, FS_AddElement DEF Accounts
<1>1. balanceOf \in [Accounts -> Uint] /\ Total(balanceOf, Accounts) = totalSupply
  BY SupplyTotal DEF AquaInv, AquaTypeOK
<1>2. SupplyConserved' <=> Total(balanceOf', Accounts) = totalSupply'
  <2>1. (SupplyConserved <=> Total(balanceOf, Accounts) = totalSupply)'
    BY SupplyTotal, PTL
  <2> QED
    BY <2>1
<1>3. ASSUME NEW from \in Accounts, NEW to \in Accounts, NEW amount \in Uint,
             Move(from, to, amount), totalSupply' = totalSupply
      PROVE  SupplyConserved'
  BY <1>1, <1>2, <1>3, MoveTotal
<1>4. ASSUME NEW to \in Accounts, NEW amount \in Uint, Mint(to, amount)
      PROVE  SupplyConserved'
  <2>1. /\ balanceOf' = [balanceOf EXCEPT ![to] = @ + amount]
        /\ totalSupply' = totalSupply + amount
        /\ balanceOf[to] + amount \in Uint
    BY <1>4 DEF Mint
  <2>2. /\ \A u \in Accounts : balanceOf[u] \in Int /\ balanceOf'[u] \in Int
        /\ balanceOf'[to] = balanceOf[to] + amount /\ amount \in Int
        /\ \A u \in Accounts : u # to => balanceOf'[u] = balanceOf[u]
    BY <1>1, <2>1
  <2>3. /\ Total(balanceOf', Accounts) \in Int /\ Total(balanceOf, Accounts) \in Int
        /\ Total(balanceOf', Accounts) - Total(balanceOf, Accounts) = balanceOf'[to] - balanceOf[to]
    BY <1>0, <2>2, TotalChange
  <2>4. balanceOf'[to] - balanceOf[to] = amount
    BY <2>2
  <2> QED
    BY <1>1, <1>2, <2>1, <2>2, <2>3, <2>4
<1>5. ASSUME UNCHANGED <<balanceOf, totalSupply>>
      PROVE  SupplyConserved'
  BY <1>1, <1>2, <1>5
<1>6. CASE LenderNext
  <2>1. PICK u \in Users, amount \in Amounts :
           \/ Approve(u, amount)
           \/ \E to \in Accounts : Mint(to, amount) \/ Transfer(u, to, amount)
           \/ ConnectLiquidity(u, amount)
           \/ WithdrawLiquidity(u, amount)
    BY <1>6, Zenon DEF LenderNext
  <2>2. amount \in Uint /\ u \in Accounts /\ Aqua \in Accounts
    BY DEF Accounts
  <2>3. CASE Approve(u, amount)
    BY <1>5, <2>3 DEF Approve
  <2>4. CASE \E to \in Accounts : Mint(to, amount)
    BY <1>4, <2>2, <2>4
  <2>5. CASE \E to \in Accounts : Transfer(u, to, amount)
    BY <1>3, <2>2, <2>5 DEF Transfer
  <2>6. CASE ConnectLiquidity(u, amount)
    BY <1>3, <2>2, <2>6 DEF ConnectLiquidity, PullFrom
  <2>7. CASE WithdrawLiquidity(u, amount)
    BY <1>3, <2>2, <2>7 DEF WithdrawLiquidity
  <2> QED
    BY <2>1, <2>3, <2>4, <2>5, <2>6, <2>7
<1>7. CASE DirectReserveNext
  BY <1>5, <1>7 DEF DirectReserveNext, ReserveLiquidity, ReleaseLiquidity, tokenVars
<1> QED
  BY <1>6, <1>7 DEF AquaNext

LEMMA ProvidedTotal == TotalProvided = Total(liquidityProvided, Users)
  BY DEF TotalProvided, Total

(* Only connecting and withdrawing change what is owed, and they move as   *)
(* much; no other transaction takes tokens from the contract.              *)
LEMMA SolventStep ==
  ASSUME AquaInv, Solvent, AquaNext
  PROVE  Solvent'
<1> USE EvmAssumption DEF Uint
<1>0. Aqua \in Accounts /\ Aqua \notin Users /\ IsFiniteSet(Users)
  BY AquaAssumption DEF Accounts
<1>1. /\ balanceOf \in [Accounts -> Uint] /\ liquidityProvided \in [Users -> Uint]
      /\ balanceOf[Aqua] >= Total(liquidityProvided, Users)
      /\ balanceOf[Aqua] \in Int
      /\ Total(liquidityProvided, Users) \in Int
  <2>1. liquidityProvided \in [Users -> Uint] /\ balanceOf \in [Accounts -> Uint]
    BY DEF AquaInv, AquaTypeOK
  <2>2. \A u \in Users : liquidityProvided[u] \in Int
    BY <2>1
  <2> QED
    BY <1>0, <2>1, <2>2, ProvidedTotal, TotalType DEF Solvent
<1>2. Solvent' <=> balanceOf'[Aqua] >= Total(liquidityProvided', Users)
  <2>1. (TotalProvided = Total(liquidityProvided, Users))'
    BY ProvidedTotal, PTL
  <2> QED
    BY <2>1 DEF Solvent
<1>3. ASSUME balanceOf'[Aqua] \in Int, balanceOf'[Aqua] >= balanceOf[Aqua],
             liquidityProvided' = liquidityProvided
      PROVE  Solvent'
  BY <1>1, <1>2, <1>3
<1>4. ASSUME NEW u \in Users, NEW d \in Int,
             balanceOf'[Aqua] = balanceOf[Aqua] + d,
             liquidityProvided' \in [Users -> Uint],
             liquidityProvided' = [liquidityProvided EXCEPT ![u] = @ + d]
      PROVE  Solvent'
  <2>1. /\ \A v \in Users : liquidityProvided[v] \in Int /\ liquidityProvided'[v] \in Int
        /\ \A v \in Users : v # u => liquidityProvided'[v] = liquidityProvided[v]
        /\ liquidityProvided'[u] = liquidityProvided[u] + d
    BY <1>1, <1>4
  <2>2. /\ Total(liquidityProvided', Users) \in Int
        /\ Total(liquidityProvided', Users) - Total(liquidityProvided, Users)
             = liquidityProvided'[u] - liquidityProvided[u]
    BY <1>0, <2>1, TotalChange
  <2>3. liquidityProvided'[u] - liquidityProvided[u] = d
    BY <1>4, <2>1
  <2> QED
    BY <1>1, <1>2, <1>4, <2>2, <2>3
<1>5. CASE LenderNext
  <2>1. PICK u \in Users, amount \in Amounts :
           \/ Approve(u, amount)
           \/ \E to \in Accounts : Mint(to, amount) \/ Transfer(u, to, amount)
           \/ ConnectLiquidity(u, amount)
           \/ WithdrawLiquidity(u, amount)
    BY <1>5, Zenon DEF LenderNext
  <2>2. amount \in Uint /\ amount \in Int /\ u \in Accounts /\ u # Aqua /\ AquaInv'
    BY <1>0, AquaNextInv DEF Accounts
  <2>3. liquidityProvided' \in [Users -> Uint]
    BY <2>2 DEF AquaInv, AquaTypeOK
  <2>4. CASE Approve(u, amount)
    BY <1>1, <1>3, <2>4 DEF Approve, liquidityVars
  <2>5. ASSUME NEW to \in Accounts, Mint(to, amount)
        PROVE  Solvent'
    <3>1. balanceOf' = [balanceOf EXCEPT ![to] = @ + amount] /\ liquidityProvided' = liquidityProvided
      BY <2>5 DEF Mint, liquidityVars
    <3> QED
      BY <1>0, <1>1, <1>3, <3>1
  <2>6. ASSUME NEW to \in Accounts, Transfer(u, to, amount)
        PROVE  Solvent'
    <3>1. Move(u, to, amount) /\ liquidityProvided' = liquidityProvided
      BY <2>6 DEF Transfer, liquidityVars
    <3>2. balanceOf'[Aqua] = balanceOf[Aqua] \/ balanceOf'[Aqua] = balanceOf[Aqua] + amount
      BY <1>0, <1>1, <2>2, <3>1 DEF Move
    <3> QED
      BY <1>1, <1>3, <3>1, <3>2
  <2>7. CASE ConnectLiquidity(u, amount)
    <3>1. Move(u, Aqua, amount) /\ liquidityProvided' = [liquidityProvided EXCEPT ![u] = @ + amount]
      BY <2>7 DEF ConnectLiquidity, PullFrom
    <3>2. balanceOf'[Aqua] = balanceOf[Aqua] + amount
      BY <1>0, <1>1, <2>2, <3>1 DEF Move
    <3> QED
      BY <1>4, <2>2, <2>3, <3>1, <3>2
  <2>8. CASE WithdrawLiquidity(u, amount)
    <3>1. Move(Aqua, u, amount) /\ liquidityProvided' = [liquidityProvided EXCEPT ![u] = @ - amount]
      BY <2>8 DEF WithdrawLiquidity
    <3> DEFINE d == 0 - amount
    <3>2. balanceOf'[Aqua] = balanceOf[Aqua] + d
      BY <1>0, <1>1, <2>2, <3>1 DEF Move
    <3>3. liquidityProvided[u] - amount = liquidityProvided[u] + d /\ d \in Int
      BY <1>1, <2>2
    <3>4. liquidityProvided' = [liquidityProvided EXCEPT ![u] = @ + d]
      BY <3>1, <3>3
    <3> HIDE DEF d
    <3> QED
      BY <1>4, <2>3, <3>2, <3>3, <3>4
  <2> QED
    BY <2>1, <2>4, <2>5, <2>6, <2>7, <2>8
<1>6. CASE DirectReserveNext
  BY <1>1, <1>3, <1>6 DEF DirectReserveNext, ReserveLiquidity, ReleaseLiquidity, tokenVars
<1> QED
  BY <1>5, <1>6 DEF AquaNext

(* At the start nobody has tokens or stakes. *)
LEMMA ZeroTotal ==
  ASSUME NEW S, IsFiniteSet(S), NEW w, \A x \in S : w[x] = 0
  PROVE  Total(w, S) = 0
<1> DEFINE B == {T \in SUBSET S : Total(w, T) # 0}
<1> SUFFICES ASSUME B # {} PROVE FALSE
  OBVIOUS
<1>1. PICK T \in B : \A V \in B : V \subseteq T => V = T
  <2>1. B \subseteq SUBSET S
    OBVIOUS
  <2> HIDE DEF B
  <2> QED
    BY <2>1, SmallestSubset
<1>2. IsFiniteSet(T)
  BY <1>1, FS_Subset
<1>3. T # {}
  BY <1>1, <1>2, TotalDef
<1>4. First(T) \in T /\ Total(w, T \ {First(T)}) = 0
  BY <1>1, <1>3, FirstIn
<1> QED
  BY <1>1, <1>2, <1>3, <1>4, TotalDef

LEMMA AquaInitTotals == AquaInit => Solvent /\ SupplyConserved
<1> SUFFICES ASSUME AquaInit PROVE Solvent /\ SupplyConserved
  OBVIOUS
<1>1. IsFiniteSet(Users) /\ IsFiniteSet(Accounts) /\ Aqua \in Accounts
  BY AquaAssumption, FS_AddElement DEF Accounts
<1>2. /\ \A u \in Accounts : balanceOf[u] = 0
      /\ \A u \in Users : liquidityProvided[u] = 0
      /\ totalSupply = 0
  BY DEF AquaInit
<1>3. Total(balanceOf, Accounts) = 0 /\ Total(liquidityProvided, Users) = 0
  BY <1>1, <1>2, ZeroTotal
<1> QED
  BY <1>1, <1>2, <1>3, SupplyTotal, ProvidedTotal DEF Solvent

LEMMA AquaStutterTotals ==
  ASSUME Solvent, SupplyConserved, UNCHANGED tokenVars, UNCHANGED liquidityProvided
  PROVE  Solvent' /\ SupplyConserved'
<1>1. (TotalProvided = Total(liquidityProvided, Users))'
  BY ProvidedTotal, PTL
<1>2. (SupplyConserved <=> Total(balanceOf, Accounts) = totalSupply)'
  BY SupplyTotal, PTL
<1> QED
  BY <1>1, <1>2, ProvidedTotal, SupplyTotal DEF Solvent, tokenVars

(***************************************************************************)
(* The contract always holds at least what it owes to all lenders, so a    *)
(* withdrawal the lender is entitled to never fails for lack of tokens     *)
(* (withdrawLiquidity).                                                    *)
(***************************************************************************)
THEOREM AquaSolvent == AquaSpec => []Solvent
<1>1. (AquaInv /\ Solvent /\ SupplyConserved) /\ [AquaNext]_aquaVars
         => (AquaInv /\ Solvent /\ SupplyConserved)'
  BY AquaNextInv, AquaStutterInv, SolventStep, SupplyStep, AquaStutterTotals
     DEF aquaVars, liquidityVars
<1> QED
  BY AquaInitInv, AquaInitTotals, <1>1, PTL DEF AquaSpec

(***************************************************************************)
(* The balances always add up to totalSupply: no transfer, not even one to *)
(* oneself, makes or loses tokens (MockERC20.transferFrom).                *)
(***************************************************************************)
THEOREM AquaSupplyConserved == AquaSpec => []SupplyConserved
<1>1. (AquaInv /\ Solvent /\ SupplyConserved) /\ [AquaNext]_aquaVars
         => (AquaInv /\ Solvent /\ SupplyConserved)'
  BY AquaNextInv, AquaStutterInv, SolventStep, SupplyStep, AquaStutterTotals
     DEF aquaVars, liquidityVars
<1> QED
  BY AquaInitInv, AquaInitTotals, <1>1, PTL DEF AquaSpec

-----------------------------------------------------------------------------
(* The wrapper over all contracts. *)

(* Once a line was created for a request through the wrapper, the request  *)
(* is decided for good: without this the deal a line was compared with     *)
(* could still change.                                                     *)
CreatedMatched ==
    /\ \A e \in createdFromRFQ : rfqs[e[1]].status \in {"Closed", "Executed"}
    /\ \A e \in createdFromAuction : auctions[e[1]].status \in {"Finalized", "Settled"}

FinanceInv ==
    /\ RfqInv
    /\ AuctionInv
    /\ AquaInv
    /\ FinanceTypeOK
    /\ CreatedMatched
    /\ LinksRight
    /\ LinesDisjoint

(* The events of lines that one contract records in a step: none, or one   *)
(* for the line that the step opens.                                       *)
OneNew(events, ids, new) ==
    \/ new = events
    \/ \E r \in ids : new = events \cup {<<r, creditLineCounter>>}

(* What a decided request promises stays, whatever the contracts do next.  *)
RfqDealsKept ==
    \A r \in RfqIds : rfqs[r].status \in {"Closed", "Executed"} =>
        /\ rfqs'[r].status \in {"Closed", "Executed"}
        /\ rfqs'[r].borrower = rfqs[r].borrower
        /\ quotes'[r] = quotes[r]
        /\ acceptedQuote'[r] = acceptedQuote[r]

AuctionDealsKept ==
    \A a \in AuctionIds : auctions[a].status \in {"Finalized", "Settled"} =>
        /\ auctions'[a].status \in {"Finalized", "Settled"}
        /\ auctions'[a].borrower = auctions[a].borrower
        /\ bids'[a] = bids[a]

LEMMA RfqStepKept ==
  ASSUME RfqInv, RFQNext, UNCHANGED now
  PROVE  /\ LinesKept
         /\ RfqDealsKept
         /\ OneNew(rfqExecuted, RfqIds, rfqExecuted')
<1> PICK u \in Users :
       \/ \E amount \in Amounts, duration \in Durations : CreateRFQ(u, amount, duration)
       \/ \E rfqId \in RfqIds :
             \/ \E rateBps \in Rates, limit \in Limits : SubmitQuote(u, rfqId, rateBps, limit)
             \/ \E quoteIndex \in 0 .. MaxQuotes - 1 : AcceptQuote(u, rfqId, quoteIndex)
             \/ ExecuteRFQ(u, rfqId)
             \/ CancelRFQ(u, rfqId)
  BY Zenon DEF RFQNext
<1>0. /\ rfqs \in [RfqIds -> RFQData] /\ quotes \in [RfqIds -> Seq(Quote)]
      /\ acceptedQuote \in [RfqIds -> Nat]
  BY DEF RfqInv, BookInv, RFQTypeOK
<1>1. ASSUME NEW amount \in Amounts, NEW duration \in Durations,
             CreateRFQ(u, amount, duration)
      PROVE  LinesKept /\ RfqDealsKept /\ rfqExecuted' = rfqExecuted
  <2>1. /\ rfqs' = [rfqs EXCEPT ![rfqCounter] =
                       [borrower |-> u, amount |-> amount,
                        duration |-> duration, status |-> "Open"]]
        /\ rfqs[rfqCounter].status = "Open" /\ rfqCounter \in RfqIds
        /\ UNCHANGED <<quotes, acceptedQuote, rfqExecuted, creditVars>>
    BY <1>1, RfqBoundsAssumption
       DEF CreateRFQ, RfqInv, BookInv, RFQTypeOK, RfqCreatedBelowCounter, RfqIds
  <2>2. LinesKept
    BY <2>1, CreditStutterInv DEF RfqInv
  <2> QED
    BY <1>0, <2>1, <2>2 DEF RfqDealsKept
<1>2. ASSUME NEW r \in RfqIds, NEW rateBps \in Rates, NEW limit \in Limits,
             SubmitQuote(u, r, rateBps, limit)
      PROVE  LinesKept /\ RfqDealsKept /\ rfqExecuted' = rfqExecuted
  <2>1. /\ rfqs[r].status = "Open"
        /\ UNCHANGED <<rfqs, acceptedQuote, rfqExecuted, creditVars>>
        /\ \A s \in RfqIds : s # r => quotes'[s] = quotes[s]
    BY <1>0, <1>2 DEF SubmitQuote
  <2>2. LinesKept
    BY <2>1, CreditStutterInv DEF RfqInv
  <2> QED
    BY <2>1, <2>2 DEF RfqDealsKept
<1>3. ASSUME NEW r \in RfqIds, NEW quoteIndex \in 0 .. MaxQuotes - 1,
             AcceptQuote(u, r, quoteIndex)
      PROVE  LinesKept /\ RfqDealsKept /\ rfqExecuted' = rfqExecuted
  <2>1. /\ rfqs[r].status = "Open"
        /\ UNCHANGED <<rfqExecuted, creditVars>>
        /\ \A s \in RfqIds : s # r => /\ quotes'[s] = quotes[s] /\ rfqs'[s] = rfqs[s]
                                       /\ acceptedQuote'[s] = acceptedQuote[s]
    BY <1>0, <1>3 DEF AcceptQuote
  <2>2. LinesKept
    BY <2>1, CreditStutterInv DEF RfqInv
  <2> QED
    BY <2>1, <2>2 DEF RfqDealsKept
<1>4. ASSUME NEW r \in RfqIds, ExecuteRFQ(u, r)
      PROVE  LinesKept /\ RfqDealsKept /\ OneNew(rfqExecuted, RfqIds, rfqExecuted')
  <2>1. /\ rfqs[r].status = "Closed" /\ rfqs[r].borrower = u
        /\ rfqs' = [rfqs EXCEPT ![r].status = "Executed"]
        /\ rfqExecuted' = rfqExecuted \cup {<<r, creditLineCounter>>}
        /\ UNCHANGED <<quotes, acceptedQuote>>
    BY <1>4 DEF ExecuteRFQ
  <2>2. StoredQuote(r) \in Quote
    BY <2>1, AcceptedIndex DEF RfqInv
  <2>3. u \in Address /\ StoredQuote(r).lender \in Address
        /\ StoredQuote(r).limit \in Uint /\ StoredQuote(r).rateBps \in Uint
        /\ now + rfqs[r].duration \in Uint
    BY <1>4, <2>2 DEF Quote, Address, ExecuteRFQ
  <2>4. OpenCreditLine(u, StoredQuote(r).lender, StoredQuote(r).limit,
                       StoredQuote(r).rateBps, now + rfqs[r].duration)
    BY <1>4, <2>1 DEF ExecuteRFQ
  <2>5. LinesKept
    BY <2>3, <2>4, OpenInv DEF RfqInv
  <2>6. /\ \A s \in RfqIds : s # r => rfqs'[s] = rfqs[s]
        /\ rfqs'[r].status = "Executed" /\ rfqs'[r].borrower = rfqs[r].borrower
    BY <1>0, <2>1 DEF RFQData
  <2> QED
    BY <2>1, <2>5, <2>6 DEF RfqDealsKept, OneNew
<1>5. ASSUME NEW r \in RfqIds, CancelRFQ(u, r)
      PROVE  LinesKept /\ RfqDealsKept /\ rfqExecuted' = rfqExecuted
  <2>1. /\ rfqs[r].status = "Open"
        /\ UNCHANGED <<quotes, acceptedQuote, rfqExecuted, creditVars>>
        /\ \A s \in RfqIds : s # r => rfqs'[s] = rfqs[s]
    BY <1>0, <1>5 DEF CancelRFQ
  <2>2. LinesKept
    BY <2>1, CreditStutterInv DEF RfqInv
  <2> QED
    BY <2>1, <2>2 DEF RfqDealsKept
<1> QED
  BY <1>1, <1>2, <1>3, <1>4, <1>5 DEF OneNew

LEMMA AuctionStepKept ==
  ASSUME AuctionInv, AuctionNext, UNCHANGED now
  PROVE  AuctionDealsKept /\ OneNew(auctionSettled, AuctionIds, auctionSettled')
<1>0. /\ auctions \in [AuctionIds -> AuctionData] /\ auctionCounter \in Nat
      /\ OutcomeKept
  BY AuctionNextInv, AuctionBoundsAssumption DEF AuctionInv, BidInv, AuctionTypeOK
<1>1. \A a \in AuctionIds : auctions[a].status \in {"Finalized", "Settled"} =>
         auctions'[a].status \in {"Finalized", "Settled"} /\ bids'[a] = bids[a]
  BY <1>0 DEF OutcomeKept
<1>2. ASSUME NEW u \in Users, NEW amount \in Amounts, NEW duration \in Durations,
             NEW biddingDuration \in Durations,
             CreateAuction(u, amount, duration, biddingDuration)
      PROVE  /\ \A a \in AuctionIds : auctions[a].status # "Open" =>
                    auctions'[a].borrower = auctions[a].borrower
             /\ auctionSettled' = auctionSettled
  <2>1. auctionCounter \in AuctionIds /\ auctionSettled' = auctionSettled
    BY <1>0, <1>2, AuctionBoundsAssumption DEF CreateAuction, AuctionIds
  <2>2. auctions[auctionCounter].status = "Open"
    BY <1>0, <2>1 DEF AuctionInv, BidInv, AuctionCreatedBelowCounter, ZeroAuction
  <2>3. \A a \in AuctionIds : a # auctionCounter => auctions'[a] = auctions[a]
    BY <1>0, <1>2 DEF CreateAuction
  <2> QED
    BY <2>1, <2>2, <2>3
<1>3. ASSUME NEW a \in AuctionIds, NEW st \in AuctionStatus,
             auctions' = [auctions EXCEPT ![a].status = st]
      PROVE  \A c \in AuctionIds : auctions'[c].borrower = auctions[c].borrower
  BY <1>0, <1>3 DEF AuctionData
<1>4. ASSUME NEW u \in Users, NEW a \in AuctionIds, NEW rateBps \in Rates,
             NEW limit \in Limits, PlaceBid(u, a, rateBps, limit)
      PROVE  UNCHANGED <<auctions, auctionSettled>>
  BY <1>4 DEF PlaceBid
<1>5. ASSUME NEW a \in AuctionIds, FinalizeAuction(a)
      PROVE  auctions' = [auctions EXCEPT ![a].status = "Finalized"]
             /\ auctionSettled' = auctionSettled
  BY <1>5 DEF FinalizeAuction
<1>6. ASSUME NEW u \in Users, NEW a \in AuctionIds, SettleAuction(u, a)
      PROVE  auctions' = [auctions EXCEPT ![a].status = "Settled"]
             /\ auctionSettled' = auctionSettled \cup {<<a, creditLineCounter>>}
  BY <1>6 DEF SettleAuction
<1>7. ASSUME NEW u \in Users, NEW a \in AuctionIds, CancelAuction(u, a)
      PROVE  auctions' = [auctions EXCEPT ![a].status = "Cancelled"]
             /\ auctionSettled' = auctionSettled
  BY <1>7 DEF CancelAuction
<1>8. /\ \A a \in AuctionIds : auctions[a].status # "Open" =>
             auctions'[a].borrower = auctions[a].borrower
      /\ OneNew(auctionSettled, AuctionIds, auctionSettled')
  <2>1. "Finalized" \in AuctionStatus /\ "Settled" \in AuctionStatus
        /\ "Cancelled" \in AuctionStatus
    BY DEF AuctionStatus
  <2> QED
    BY <1>2, <1>3, <1>4, <1>5, <1>6, <1>7, <2>1 DEF AuctionNext, OneNew
<1> QED
  BY <1>1, <1>8 DEF AuctionDealsKept

(* Every recorded line exists. *)
LEMMA LinesExist ==
  ASSUME FinanceInv
  PROVE  /\ \A e \in RfqLines : e[2] \in DOMAIN creditLines /\ e[1] \in RfqIds /\ e = <<e[1], e[2]>>
         /\ \A e \in AuctionLines : e[2] \in DOMAIN creditLines /\ e[1] \in AuctionIds
                                   /\ e = <<e[1], e[2]>>
         /\ creditLineCounter \notin DOMAIN creditLines
         /\ \A id \in DOMAIN creditLines : id \in Nat /\ id < creditLineCounter
<1>1. creditLines \in Seq(CreditLine)
  BY DEF FinanceInv, RfqInv, CreditInv, CreditTypeOK
<1>2. \A e \in rfqExecuted : e[2] \in DOMAIN creditLines /\ e[1] \in RfqIds /\ e = <<e[1], e[2]>>
  BY DEF FinanceInv, RfqInv, ExecutedOnceAsQuoted, BookInv, RFQTypeOK
<1>3. \A e \in auctionSettled : e[2] \in DOMAIN creditLines /\ e[1] \in AuctionIds
                                 /\ e = <<e[1], e[2]>>
  BY EventFacts DEF FinanceInv
<1>4. /\ \A e \in createdFromRFQ : e[2] \in DOMAIN creditLines /\ e[1] \in RfqIds
                                   /\ e = <<e[1], e[2]>>
      /\ \A e \in createdFromAuction : e[2] \in DOMAIN creditLines /\ e[1] \in AuctionIds
                                       /\ e = <<e[1], e[2]>>
  BY DEF FinanceInv, LinksRight, FinanceTypeOK
<1> QED
  BY <1>1, <1>2, <1>3, <1>4 DEF RfqLines, AuctionLines, creditLineCounter

(* A line opened under the next id belongs to nobody else. *)
LEMMA DisjointKept ==
  ASSUME FinanceInv,
         \/ OneNew(RfqLines, RfqIds, RfqLines') /\ AuctionLines' = AuctionLines
         \/ OneNew(AuctionLines, AuctionIds, AuctionLines') /\ RfqLines' = RfqLines
  PROVE  LinesDisjoint'
<1>1. /\ \A e, f \in RfqLines : e[2] = f[2] => e = f
      /\ \A e, f \in AuctionLines : e[2] = f[2] => e = f
      /\ \A e \in RfqLines, f \in AuctionLines : e[2] # f[2]
  BY DEF FinanceInv, LinesDisjoint
<1>2. /\ \A e \in RfqLines : e[2] # creditLineCounter
      /\ \A e \in AuctionLines : e[2] # creditLineCounter
  BY LinesExist
<1> QED
  BY <1>1, <1>2 DEF LinesDisjoint, OneNew

(* Steps that leave the wrapper alone. *)
LEMMA LinksKept ==
  ASSUME FinanceInv, UNCHANGED financeVars, LinesKept, RfqDealsKept, AuctionDealsKept
  PROVE  FinanceTypeOK' /\ CreatedMatched' /\ LinksRight'
<1>1. UNCHANGED <<rfqToCreditLine, auctionToCreditLine, createdFromRFQ, createdFromAuction>>
  BY DEF financeVars
<1>2. FinanceTypeOK'
  BY <1>1 DEF FinanceInv, FinanceTypeOK
<1>3. ASSUME NEW e \in createdFromRFQ
      PROVE  /\ rfqs'[e[1]].status \in {"Closed", "Executed"}
             /\ e[2] \in DOMAIN creditLines'
             /\ MatchesQuote(creditLines[e[2]], e[1], StoredQuote(e[1]))'
  <2>1. /\ e[1] \in RfqIds /\ e[2] \in DOMAIN creditLines
        /\ rfqs[e[1]].status \in {"Closed", "Executed"}
        /\ MatchesQuote(creditLines[e[2]], e[1], StoredQuote(e[1]))
    BY DEF FinanceInv, FinanceTypeOK, CreatedMatched, LinksRight
  <2>2. /\ rfqs'[e[1]].status \in {"Closed", "Executed"}
        /\ rfqs'[e[1]].borrower = rfqs[e[1]].borrower
        /\ quotes'[e[1]] = quotes[e[1]] /\ acceptedQuote'[e[1]] = acceptedQuote[e[1]]
    BY <2>1 DEF RfqDealsKept
  <2> QED
    BY <2>1, <2>2 DEF MatchesQuote, StoredQuote, LinesKept
<1>4. ASSUME NEW e \in createdFromAuction
      PROVE  /\ auctions'[e[1]].status \in {"Finalized", "Settled"}
             /\ e[2] \in DOMAIN creditLines'
             /\ PaysWinner(creditLines[e[2]], e[1])'
  <2>1. /\ e[1] \in AuctionIds /\ e[2] \in DOMAIN creditLines
        /\ auctions[e[1]].status \in {"Finalized", "Settled"}
        /\ PaysWinner(creditLines[e[2]], e[1])
    BY DEF FinanceInv, FinanceTypeOK, CreatedMatched, LinksRight
  <2>2. /\ auctions'[e[1]].status \in {"Finalized", "Settled"}
        /\ auctions'[e[1]].borrower = auctions[e[1]].borrower
        /\ bids'[e[1]] = bids[e[1]]
    BY <2>1 DEF AuctionDealsKept
  <2>3. Winners(e[1])' = Winners(e[1])
    BY <2>2 DEF Winners
  <2> QED
    BY <2>1, <2>2, <2>3 DEF PaysWinner, LinesKept
<1>5. /\ \A r \in RfqIds : IsLatest(rfqToCreditLine[r], createdFromRFQ, r)'
      /\ \A a \in AuctionIds : IsLatest(auctionToCreditLine[a], createdFromAuction, a)'
  BY <1>1 DEF FinanceInv, LinksRight, IsLatest
<1> QED
  BY <1>1, <1>2, <1>3, <1>4, <1>5 DEF CreatedMatched, LinksRight

(* A link to the newest line is a link to the latest. *)
LEMMA LatestAdded ==
  ASSUME NEW ids, NEW events, NEW link, NEW r \in ids, NEW id \in Nat,
         link \in [ids -> Nat], id > 0,
         \A s \in ids : IsLatest(link[s], events, s),
         \A e \in events : e[2] \in Nat /\ e[2] < id
  PROVE  \A s \in ids : IsLatest([link EXCEPT ![r] = id][s], events \cup {<<r, id>>}, s)
<1> DEFINE more == events \cup {<<r, id>>}
           next == [link EXCEPT ![r] = id]
<1>1. ASSUME NEW s \in ids, s # r PROVE IsLatest(next[s], more, s)
  <2>1. next[s] = link[s] /\ \A e \in more : e[1] = s <=> (e \in events /\ e[1] = s)
    BY <1>1
  <2> HIDE DEF next, more
  <2>2. events \subseteq more
    BY DEF more
  <2> QED
    BY <2>1, <2>2 DEF IsLatest
<1>2. IsLatest(next[r], more, r)
  <2>1. next[r] = id /\ <<r, id>> \in more /\ <<r, id>>[1] = r /\ <<r, id>>[2] = id
    OBVIOUS
  <2>2. \A e \in more : e[2] \in Nat /\ e[2] <= id
    OBVIOUS
  <2> HIDE DEF next, more
  <2> QED
    BY <2>1, <2>2 DEF IsLatest
<1> QED
  BY <1>1, <1>2

(* What a transaction of the wrapper does in all contracts at once: it     *)
(* reserves, opens a line on the same lender and limit under the next id,  *)
(* and records that id as created for the request.                         *)
Funded(request, lender, limit) ==
    /\ ReserveLiquidity(lender, limit)
    /\ LinesKept
    /\ LineTermsKept
    /\ UNCHANGED <<rfqVars, auctionVars>>
    /\ creditLineCounter \in DOMAIN creditLines'
    /\ creditLines'[creditLineCounter].lender = lender
    /\ creditLines'[creditLineCounter].limit = limit
    /\ createdFromRFQ' \cup createdFromAuction'
          = createdFromRFQ \cup createdFromAuction \cup {<<request, creditLineCounter>>}

LEMMA ExecuteRFQWithAquaStep ==
  ASSUME FinanceInv, NEW u \in Users, NEW r \in RfqIds, ExecuteRFQWithAqua(u, r)
  PROVE  FinanceInv' /\ \E lender \in Users, limit \in Uint : Funded(r, lender, limit)
<1> USE DEF FinanceInv
<1> DEFINE id == creditLineCounter
           q == StoredQuote(r)
<1>1. /\ rfqs[r].status = "Closed" /\ rfqs[r].borrower = u
      /\ now + rfqs[r].duration \in Uint
      /\ rfqToCreditLine' = [rfqToCreditLine EXCEPT ![r] = id]
      /\ createdFromRFQ' = createdFromRFQ \cup {<<r, id>>}
      /\ UNCHANGED <<auctionToCreditLine, createdFromAuction>>
      /\ UNCHANGED now /\ UNCHANGED rfqVars /\ UNCHANGED auctionVars
  BY DEF ExecuteRFQWithAqua
<1>2. q \in Quote /\ q.lender \in Users /\ q.limit \in Uint /\ q.rateBps \in Uint
      /\ u \in Address /\ q.lender \in Address
  BY <1>1, AcceptedIndex DEF RfqInv, Quote, Address
<1>3. /\ ReserveLiquidity(q.lender, q.limit)
      /\ OpenCreditLine(u, q.lender, q.limit, q.rateBps, now + rfqs[r].duration)
  <2>1. PICK i \in DOMAIN quotes[r] :
          /\ FirstAccepted(r, i)
          /\ ReserveLiquidity(quotes[r][i].lender, quotes[r][i].limit)
          /\ OpenCreditLine(rfqs[r].borrower, quotes[r][i].lender, quotes[r][i].limit,
                            quotes[r][i].rateBps, now + rfqs[r].duration)
    BY DEF ExecuteRFQWithAqua
  <2>2. i \in Flagged(r)
    BY <2>1 DEF FirstAccepted, Flagged
  <2>3. i = acceptedQuote[r] + 1
    BY <1>1, <2>2, AcceptedIndex DEF RfqInv
  <2> QED
    BY <1>1, <2>1, <2>3 DEF StoredQuote
<1> HIDE DEF q
<1>4. /\ CreditInv' /\ LinesKept /\ LineTermsKept
      /\ id \in 1 .. MaxLines /\ id \in DOMAIN creditLines'
      /\ creditLines'[id].borrower = u /\ creditLines'[id].lender = q.lender
      /\ creditLines'[id].limit = q.limit /\ creditLines'[id].rateBps = q.rateBps
  BY <1>1, <1>2, <1>3, OpenInv DEF RfqInv
<1> HIDE DEF id
<1>5. RfqInv' /\ AuctionInv' /\ AquaInv'
  <2>1. now' >= now
    BY <1>1, CreditAssumption DEF RfqInv, CreditInv, TimeTypeOK
  <2> QED
    BY <1>1, <1>2, <1>3, <1>4, <2>1, RfqOthersInv, AuctionOthersInv, ReserveInv
<1>6. FinanceTypeOK' /\ CreatedMatched'
  <2>1. <<r, id>>[1] = r
    OBVIOUS
  <2>2. FinanceTypeOK'
    BY <1>1, <1>4 DEF FinanceTypeOK
  <2> QED
    BY <1>1, <2>1, <2>2 DEF CreatedMatched, rfqVars, auctionVars
<1>7. LinksRight'
  <2>1. \A s \in RfqIds : IsLatest(rfqToCreditLine'[s], createdFromRFQ', s)
    <3>1. rfqToCreditLine \in [RfqIds -> Nat] /\ id \in Nat /\ id > 0
      BY <1>4, CreditAssumption DEF FinanceTypeOK
    <3>2. \A e \in createdFromRFQ : e[2] \in Nat /\ e[2] < id
      BY LinesExist DEF RfqLines, id
    <3>3. \A s \in RfqIds : IsLatest(rfqToCreditLine[s], createdFromRFQ, s)
      BY DEF LinksRight
    <3> QED
      BY <1>1, <3>1, <3>2, <3>3, LatestAdded
  <2>2. \A a \in AuctionIds : IsLatest(auctionToCreditLine'[a], createdFromAuction', a)
    BY <1>1 DEF LinksRight
  <2>3. ASSUME NEW e \in createdFromRFQ'
        PROVE  /\ e[2] \in DOMAIN creditLines'
               /\ MatchesQuote(creditLines[e[2]], e[1], StoredQuote(e[1]))'
    <3>1. StoredQuote(e[1])' = StoredQuote(e[1]) /\ rfqs' = rfqs
      BY <1>1 DEF StoredQuote, rfqVars
    <3>2. CASE e = <<r, id>>
      BY <1>1, <1>4, <3>1, <3>2 DEF MatchesQuote, q
    <3>3. CASE e \in createdFromRFQ
      BY <1>4, <3>1, <3>3 DEF LinksRight, MatchesQuote, LinesKept
    <3> QED
      BY <1>1, <3>2, <3>3
  <2>4. ASSUME NEW e \in createdFromAuction'
        PROVE  e[2] \in DOMAIN creditLines' /\ PaysWinner(creditLines[e[2]], e[1])'
    <3>1. /\ e \in createdFromAuction /\ e[2] \in DOMAIN creditLines
          /\ PaysWinner(creditLines[e[2]], e[1])
      BY <1>1 DEF LinksRight
    <3>2. auctions' = auctions /\ bids' = bids /\ Winners(e[1])' = Winners(e[1])
      BY <1>1 DEF Winners, auctionVars
    <3> QED
      BY <1>4, <3>1, <3>2 DEF PaysWinner, LinesKept
  <2> QED
    BY <2>1, <2>2, <2>3, <2>4 DEF LinksRight
<1>8. LinesDisjoint'
  <2>1. RfqLines' = RfqLines \cup {<<r, id>>} /\ AuctionLines' = AuctionLines
    BY <1>1 DEF RfqLines, AuctionLines, rfqVars, auctionVars
  <2> QED
    BY <2>1, DisjointKept DEF OneNew, id
<1>9. Funded(r, q.lender, q.limit)
  BY <1>1, <1>3, <1>4 DEF Funded, id
<1> QED
  BY <1>2, <1>5, <1>6, <1>7, <1>8, <1>9

LEMMA SettleAuctionWithAquaStep ==
  ASSUME FinanceInv, NEW u \in Users, NEW a \in AuctionIds, SettleAuctionWithAqua(u, a)
  PROVE  FinanceInv' /\ \E lender \in Users, limit \in Uint : Funded(a, lender, limit)
<1> USE DEF FinanceInv
<1> DEFINE id == creditLineCounter
<1>1. /\ auctions[a].status = "Finalized" /\ auctions[a].borrower = u
      /\ now + auctions[a].duration \in Uint
      /\ auctionToCreditLine' = [auctionToCreditLine EXCEPT ![a] = id]
      /\ createdFromAuction' = createdFromAuction \cup {<<a, id>>}
      /\ UNCHANGED <<rfqToCreditLine, createdFromRFQ>>
      /\ UNCHANGED now /\ UNCHANGED rfqVars /\ UNCHANGED auctionVars
  BY DEF SettleAuctionWithAqua
<1>2. PICK i \in DOMAIN bids[a] :
         /\ Winners(a) = {i} /\ winningBid[a] = bids[a][i].lender
         /\ bids[a][i] \in Bid
         /\ \A j \in DOMAIN bids[a] : FirstWinning(a, j) <=> j = i
  BY <1>1, WinnerFacts DEF AuctionInv
<1> DEFINE b == bids[a][i]
<1>3. b.lender \in Users /\ b.limit \in Uint /\ b.rateBps \in Uint
      /\ u \in Address /\ b.lender \in Address
  BY <1>2 DEF Bid, Address
<1>4. /\ ReserveLiquidity(b.lender, b.limit)
      /\ OpenCreditLine(u, b.lender, b.limit, b.rateBps, now + auctions[a].duration)
  BY <1>1, <1>2 DEF SettleAuctionWithAqua
<1>5. /\ CreditInv' /\ LinesKept /\ LineTermsKept
      /\ id \in 1 .. MaxLines /\ id \in DOMAIN creditLines'
      /\ creditLines'[id].borrower = u /\ creditLines'[id].lender = b.lender
      /\ creditLines'[id].limit = b.limit /\ creditLines'[id].rateBps = b.rateBps
  <2> HIDE DEF b
  <2> QED
    BY <1>1, <1>3, <1>4, OpenInv DEF AuctionInv
<1> HIDE DEF id
<1>6. RfqInv' /\ AuctionInv' /\ AquaInv'
  <2>1. now' >= now
    BY <1>1, CreditAssumption DEF RfqInv, CreditInv, TimeTypeOK
  <2> HIDE DEF b
  <2> QED
    BY <1>1, <1>3, <1>4, <1>5, <2>1, RfqOthersInv, AuctionOthersInv, ReserveInv
<1>7. FinanceTypeOK' /\ CreatedMatched'
  <2>1. <<a, id>>[1] = a
    OBVIOUS
  <2>2. FinanceTypeOK'
    BY <1>1, <1>5 DEF FinanceTypeOK
  <2> QED
    BY <1>1, <2>1, <2>2 DEF CreatedMatched, rfqVars, auctionVars
<1>8. LinksRight'
  <2>1. \A c \in AuctionIds : IsLatest(auctionToCreditLine'[c], createdFromAuction', c)
    <3>1. auctionToCreditLine \in [AuctionIds -> Nat] /\ id \in Nat /\ id > 0
      BY <1>5, CreditAssumption DEF FinanceTypeOK
    <3>2. \A e \in createdFromAuction : e[2] \in Nat /\ e[2] < id
      BY LinesExist DEF AuctionLines, id
    <3>3. \A c \in AuctionIds : IsLatest(auctionToCreditLine[c], createdFromAuction, c)
      BY DEF LinksRight
    <3> QED
      BY <1>1, <3>1, <3>2, <3>3, LatestAdded
  <2>2. \A r \in RfqIds : IsLatest(rfqToCreditLine'[r], createdFromRFQ', r)
    BY <1>1 DEF LinksRight
  <2>3. ASSUME NEW e \in createdFromRFQ'
        PROVE  /\ e[2] \in DOMAIN creditLines'
               /\ MatchesQuote(creditLines[e[2]], e[1], StoredQuote(e[1]))'
    <3>1. StoredQuote(e[1])' = StoredQuote(e[1]) /\ rfqs' = rfqs /\ e \in createdFromRFQ
      BY <1>1 DEF StoredQuote, rfqVars
    <3> QED
      BY <1>5, <3>1 DEF LinksRight, MatchesQuote, LinesKept
  <2>4. ASSUME NEW e \in createdFromAuction'
        PROVE  e[2] \in DOMAIN creditLines' /\ PaysWinner(creditLines[e[2]], e[1])'
    <3>1. auctions' = auctions /\ bids' = bids /\ Winners(e[1])' = Winners(e[1])
      BY <1>1 DEF Winners, auctionVars
    <3>2. CASE e = <<a, id>>
      <4>1. e[1] = a /\ e[2] = id /\ i \in Winners(a)' /\ bids'[a][i] = b
        BY <1>2, <3>1, <3>2
      <4> HIDE DEF b
      <4> QED
        BY <1>1, <1>5, <3>1, <4>1 DEF PaysWinner
    <3>3. CASE e \in createdFromAuction
      <4>1. e[2] \in DOMAIN creditLines /\ PaysWinner(creditLines[e[2]], e[1])
        BY <3>3 DEF LinksRight
      <4> QED
        BY <1>5, <3>1, <4>1 DEF PaysWinner, LinesKept
    <3> QED
      BY <1>1, <3>2, <3>3
  <2> QED
    BY <2>1, <2>2, <2>3, <2>4 DEF LinksRight
<1>9. LinesDisjoint'
  <2>1. AuctionLines' = AuctionLines \cup {<<a, id>>} /\ RfqLines' = RfqLines
    BY <1>1 DEF RfqLines, AuctionLines, rfqVars, auctionVars
  <2> QED
    BY <2>1, DisjointKept DEF OneNew, id
<1>10. Funded(a, b.lender, b.limit)
  <2> HIDE DEF b
  <2> QED
    BY <1>1, <1>4, <1>5 DEF Funded, id
<1> QED
  BY <1>3, <1>6, <1>7, <1>8, <1>9, <1>10

(* The other transactions, as the wrapper sees them: they reserve nothing, *)
(* or only what DirectReserveNext reserves, and create nothing.            *)
NotFunding ==
    /\ LinesKept
    /\ UNCHANGED <<createdFromRFQ, createdFromAuction>>
    /\ \/ UNCHANGED liquidityReserved
       \/ DirectReserveNext /\ UNCHANGED creditVars /\ UNCHANGED financeVars

FundingStep ==
    \E request \in RfqIds \cup AuctionIds, lender \in Users, limit \in Uint :
        Funded(request, lender, limit)

LEMMA FinanceStep ==
  ASSUME FinanceInv, [Next]_vars
  PROVE  FinanceInv' /\ (FundingStep \/ NotFunding)
<1> USE DEF FinanceInv
<1>0. now \in Int
  BY CreditAssumption DEF RfqInv, CreditInv, TimeTypeOK
<1>1. ASSUME UNCHANGED rfqVars PROVE RfqDealsKept
  BY <1>1 DEF rfqVars, RfqDealsKept
<1>2. ASSUME UNCHANGED auctionVars PROVE AuctionDealsKept
  BY <1>2 DEF auctionVars, AuctionDealsKept
<1>3. ASSUME UNCHANGED auctionVars, UNCHANGED financeVars PROVE AuctionLines' = AuctionLines
  BY <1>3 DEF auctionVars, financeVars, AuctionLines
<1>4. ASSUME UNCHANGED rfqVars, UNCHANGED financeVars PROVE RfqLines' = RfqLines
  BY <1>4 DEF rfqVars, financeVars, RfqLines
<1>5. CASE \E u \in Users :
              \/ \E rfqId \in RfqIds : ExecuteRFQWithAqua(u, rfqId)
              \/ \E auctionId \in AuctionIds : SettleAuctionWithAqua(u, auctionId)
  BY <1>5, ExecuteRFQWithAquaStep, SettleAuctionWithAquaStep DEF FundingStep
<1>6. CASE RFQNext /\ UNCHANGED <<now, auctionVars, aquaVars, financeVars>>
  <2>0. UNCHANGED now /\ UNCHANGED auctionVars /\ UNCHANGED aquaVars /\ UNCHANGED financeVars
    BY <1>6
  <2>1. /\ RfqInv' /\ LinesKept /\ RfqDealsKept
        /\ OneNew(rfqExecuted, RfqIds, rfqExecuted')
    BY <1>6, <2>0, RFQNextInv, RfqStepKept
  <2>2. AuctionInv' /\ AquaInv'
    <3>1. CreditInv' /\ now' >= now
      BY <1>0, <2>0, <2>1 DEF RfqInv
    <3> QED
      BY <2>0, <2>1, <3>1, AuctionOthersInv, AquaStutterInv
  <2>3. OneNew(RfqLines, RfqIds, RfqLines')
    BY <2>0, <2>1 DEF OneNew, RfqLines, financeVars
  <2>4. LinesDisjoint'
    BY <1>3, <2>0, <2>3, DisjointKept
  <2>5. FinanceTypeOK' /\ CreatedMatched' /\ LinksRight'
    BY <1>2, <2>0, <2>1, LinksKept
  <2>6. NotFunding
    BY <2>0, <2>1 DEF NotFunding, financeVars, aquaVars, liquidityVars
  <2> QED
    BY <2>1, <2>2, <2>4, <2>5, <2>6
<1>7. CASE AuctionNext /\ UNCHANGED <<now, rfqVars, aquaVars, financeVars>>
  <2>0. UNCHANGED now /\ UNCHANGED rfqVars /\ UNCHANGED aquaVars /\ UNCHANGED financeVars
    BY <1>7
  <2>1. /\ AuctionInv' /\ LinesKept /\ AuctionDealsKept
        /\ OneNew(auctionSettled, AuctionIds, auctionSettled')
    BY <1>7, <2>0, AuctionNextInv, AuctionStepKept
  <2>2. RfqInv' /\ AquaInv'
    <3>1. CreditInv'
      BY <2>1 DEF AuctionInv
    <3> QED
      BY <2>0, <2>1, <3>1, RfqOthersInv, AquaStutterInv
  <2>3. OneNew(AuctionLines, AuctionIds, AuctionLines')
    BY <2>0, <2>1 DEF OneNew, AuctionLines, financeVars
  <2>4. LinesDisjoint'
    BY <1>4, <2>0, <2>3, DisjointKept
  <2>5. FinanceTypeOK' /\ CreatedMatched' /\ LinksRight'
    BY <1>1, <2>0, <2>1, LinksKept
  <2>6. NotFunding
    BY <2>0, <2>1 DEF NotFunding, financeVars, aquaVars, liquidityVars
  <2> QED
    BY <2>1, <2>2, <2>4, <2>5, <2>6
<1>8. ASSUME UNCHANGED rfqVars, UNCHANGED auctionVars, UNCHANGED financeVars,
             CreditInv', LinesKept, AquaInv', now' >= now,
             \/ UNCHANGED liquidityReserved
             \/ DirectReserveNext /\ UNCHANGED creditVars
      PROVE  FinanceInv' /\ NotFunding
  <2>1. RfqInv' /\ AuctionInv'
    BY <1>8, RfqOthersInv, AuctionOthersInv
  <2>2. LinesDisjoint'
    BY <1>3, <1>4, <1>8, DisjointKept DEF OneNew
  <2>3. FinanceTypeOK' /\ CreatedMatched' /\ LinksRight'
    BY <1>1, <1>2, <1>8, LinksKept
  <2> QED
    BY <1>8, <2>1, <2>2, <2>3 DEF NotFunding, financeVars
<1>9. CASE AquaNext /\ UNCHANGED <<now, creditVars, rfqVars, auctionVars, financeVars>>
  <2>1. /\ UNCHANGED rfqVars /\ UNCHANGED auctionVars /\ UNCHANGED financeVars
        /\ UNCHANGED <<now, creditVars>> /\ now' >= now
    BY <1>0, <1>9
  <2>2. CreditInv' /\ LinesKept
    BY <2>1, CreditStutterInv DEF RfqInv
  <2>3. AquaInv'
    BY <1>9, AquaNextInv
  <2>4. \/ UNCHANGED liquidityReserved
        \/ DirectReserveNext /\ UNCHANGED creditVars
    <3>1. CASE LenderNext
      BY <3>1 DEF LenderNext, Mint, Approve, Transfer, ConnectLiquidity, WithdrawLiquidity,
                  liquidityVars
    <3>2. UNCHANGED creditVars
      BY <1>9
    <3> QED
      BY <1>9, <3>1, <3>2 DEF AquaNext
  <2> QED
    BY <1>8, <2>1, <2>2, <2>3, <2>4
<1>10. CASE CreditNext /\ UNCHANGED <<now, rfqVars, auctionVars, aquaVars, financeVars>>
  <2>1. /\ UNCHANGED rfqVars /\ UNCHANGED auctionVars /\ UNCHANGED financeVars
        /\ UNCHANGED now /\ UNCHANGED aquaVars /\ now' >= now
    BY <1>0, <1>10
  <2>2. CreditInv' /\ LinesKept
    BY <1>10, <2>1, CreditNextInv DEF RfqInv
  <2>3. AquaInv' /\ UNCHANGED liquidityReserved
    BY <2>1, AquaStutterInv DEF aquaVars, liquidityVars
  <2> QED
    BY <1>8, <2>1, <2>2, <2>3
<1>11. CASE Tick /\ UNCHANGED <<creditVars, rfqVars, auctionVars, aquaVars, financeVars>>
  <2>1. /\ UNCHANGED rfqVars /\ UNCHANGED auctionVars /\ UNCHANGED financeVars
        /\ UNCHANGED creditVars /\ UNCHANGED aquaVars /\ now' >= now
    BY <1>0, <1>11 DEF Tick
  <2>2. CreditInv' /\ LinesKept
    BY <1>11, <2>1, TickInv DEF RfqInv
  <2>3. AquaInv' /\ UNCHANGED liquidityReserved
    BY <2>1, AquaStutterInv DEF aquaVars, liquidityVars
  <2> QED
    BY <1>8, <2>1, <2>2, <2>3
<1>12. CASE UNCHANGED vars
  <2>1. /\ UNCHANGED rfqVars /\ UNCHANGED auctionVars /\ UNCHANGED financeVars
        /\ UNCHANGED <<now, creditVars>> /\ UNCHANGED aquaVars /\ now' >= now
    BY <1>0, <1>12 DEF vars
  <2>2. CreditInv' /\ LinesKept
    BY <2>1, CreditStutterInv DEF RfqInv
  <2>3. AquaInv' /\ UNCHANGED liquidityReserved
    BY <2>1, AquaStutterInv DEF aquaVars, liquidityVars
  <2> QED
    BY <1>8, <2>1, <2>2, <2>3
<1> QED
  BY <1>5, <1>6, <1>7, <1>9, <1>10, <1>11, <1>12 DEF Next

LEMMA FinanceInitInv == Init => FinanceInv
<1> SUFFICES ASSUME Init PROVE FinanceInv
  OBVIOUS
<1>1. RfqInv /\ AuctionInv
  BY RFQSystemInitInv, AuctionSystemInitInv DEF Init, RFQSystemInit, AuctionSystemInit
<1>2. AquaInv
  BY AquaInitInv DEF Init
<1>3. /\ createdFromRFQ = {} /\ createdFromAuction = {} /\ rfqExecuted = {} /\ auctionSettled = {}
      /\ rfqToCreditLine = [r \in RfqIds |-> 0]
      /\ auctionToCreditLine = [a \in AuctionIds |-> 0]
  BY DEF Init, FinanceInit, RFQInit, AuctionInit
<1>4. FinanceTypeOK /\ CreatedMatched /\ LinksRight /\ LinesDisjoint
  BY <1>3, CreditAssumption
     DEF FinanceTypeOK, CreatedMatched, LinksRight, IsLatest, LinesDisjoint, RfqLines, AuctionLines
<1> QED
  BY <1>1, <1>2, <1>4 DEF FinanceInv

LEMMA FinanceAlwaysInv == Spec => []FinanceInv
<1>1. FinanceInv /\ [Next]_vars => FinanceInv'
  BY FinanceStep
<1> QED
  BY FinanceInitInv, <1>1, PTL DEF Spec

(***************************************************************************)
(* The state of all contracts together is well formed: no transaction of   *)
(* one leaves another in a state its own transactions could not.           *)
(***************************************************************************)
THEOREM FinanceTypeCorrect == Spec => []TypeOK
<1>1. FinanceInv => TypeOK
  BY DEF FinanceInv, RfqInv, CreditInv, BookInv, AuctionInv, BidInv, AquaInv, TypeOK
<1> QED
  BY FinanceAlwaysInv, <1>1, PTL

(***************************************************************************)
(* The wrapper's links name the latest line it created for a request, and  *)
(* each such line has the parties and terms of the accepted quote or the   *)
(* winning bid (executeRFQWithAqua, settleAuctionWithAqua).                *)
(***************************************************************************)
THEOREM FinanceLinksRight == Spec => []LinksRight
<1>1. FinanceInv => LinksRight
  BY DEF FinanceInv
<1> QED
  BY FinanceAlwaysInv, <1>1, PTL

(***************************************************************************)
(* No credit line is recorded for two requests, whether RFQ, Auction or    *)
(* the wrapper opened it.                                                  *)
(***************************************************************************)
THEOREM FinanceLinesDisjoint == Spec => []LinesDisjoint
<1>1. FinanceInv => LinesDisjoint
  BY DEF FinanceInv
<1> QED
  BY FinanceAlwaysInv, <1>1, PTL

(***************************************************************************)
(* What the contracts promise on their own they promise together, with the *)
(* wrapper acting on their state: acceptance and execution, the winner and *)
(* settlement, the limits of lines and the reservations.                   *)
(***************************************************************************)
THEOREM FinanceKeepsPromises ==
  Spec => [](/\ AcceptanceConsistent /\ ExecutedOnceAsQuoted
             /\ BestBidWins /\ BidsInWindow /\ SettledOnceAsWon
             /\ DrawnWithinLimit /\ ReservedWithinProvided)
<1>1. FinanceInv => /\ AcceptanceConsistent /\ ExecutedOnceAsQuoted
                    /\ BestBidWins /\ BidsInWindow /\ SettledOnceAsWon
                    /\ DrawnWithinLimit /\ ReservedWithinProvided
  BY DEF FinanceInv, RfqInv, BookInv, AuctionInv, BidInv, CreditInv, AquaInv
<1> QED
  BY FinanceAlwaysInv, <1>1, PTL

-----------------------------------------------------------------------------
(* Reservations and lines add up. *)

LimitOf == [id \in DOMAIN creditLines |-> creditLines[id].limit]

LEMMA LimitTotal ==
  \A ids \in SUBSET DOMAIN creditLines : TotalLimit(ids) = Total(LimitOf, ids)
<1> TAKE ids \in SUBSET DOMAIN creditLines
<1> DEFINE LinesSum(f) ==
             f = [T \in SUBSET ids |->
                    IF T = {} THEN 0
                    ELSE creditLines[CHOOSE x \in T : TRUE].limit + f[T \ {CHOOSE x \in T : TRUE}]]
<1>1. TotalLimit(ids) = (CHOOSE f : LinesSum(f))[ids]
  BY DEF TotalLimit, MapThenSumSet, MapThenFoldSet
<1>2. \A T \in SUBSET ids : T # {} =>
         LimitOf[CHOOSE x \in T : TRUE] = creditLines[CHOOSE x \in T : TRUE].limit
  BY DEF LimitOf
<1>3. ASSUME NEW f PROVE LinesSum(f) <=> IsSum(f, LimitOf, ids)
  BY <1>2 DEF IsSum
<1> HIDE DEF LinesSum
<1>4. (CHOOSE f : LinesSum(f)) = (CHOOSE f : IsSum(f, LimitOf, ids))
  BY <1>3
<1> QED
  BY <1>1, <1>4, TotalIsSum

LEMMA ReservedTotal == \A u \in Users : Opened(u) = Total(LimitOf, AquaLines(u))
<1>1. \A u \in Users : AquaLines(u) \in SUBSET DOMAIN creditLines
  BY DEF AquaLines
<1> QED
  BY <1>1, LimitTotal DEF Opened

(* The lines of a lender are finitely many, with limits that are numbers.  *)
LEMMA LenderLines ==
  FinanceInv =>
    /\ \A id \in DOMAIN creditLines : LimitOf[id] = creditLines[id].limit /\ LimitOf[id] \in Int
    /\ \A u : IsFiniteSet(AquaLines(u)) /\ AquaLines(u) \subseteq DOMAIN creditLines
    /\ \A e \in createdFromRFQ \cup createdFromAuction : e[2] \in DOMAIN creditLines
    /\ creditLineCounter \notin DOMAIN creditLines
<1> SUFFICES ASSUME FinanceInv
             PROVE  /\ \A id \in DOMAIN creditLines : LimitOf[id] = creditLines[id].limit
                                                     /\ LimitOf[id] \in Int
                    /\ \A u : IsFiniteSet(AquaLines(u)) /\ AquaLines(u) \subseteq DOMAIN creditLines
                    /\ \A e \in createdFromRFQ \cup createdFromAuction : e[2] \in DOMAIN creditLines
                    /\ creditLineCounter \notin DOMAIN creditLines
  OBVIOUS
<1>1. creditLines \in Seq(CreditLine)
  BY DEF FinanceInv, RfqInv, CreditInv, CreditTypeOK
<1>2. \A id \in DOMAIN creditLines : creditLines[id].limit \in Int
  <2> TAKE id \in DOMAIN creditLines
  <2>1. creditLines[id] \in CreditLine
    BY <1>1
  <2> QED
    BY <2>1, EvmAssumption DEF CreditLine, Uint
<1>3. IsFiniteSet(DOMAIN creditLines)
  <2>1. DOMAIN creditLines = 1 .. Len(creditLines) /\ Len(creditLines) \in Int /\ 1 \in Int
    BY <1>1
  <2> QED
    BY <2>1, FS_Interval
<1>4. \A u : AquaLines(u) \in SUBSET DOMAIN creditLines
  BY DEF AquaLines
<1> QED
  BY <1>2, <1>3, <1>4, FS_Subset, LinesExist DEF LimitOf, RfqLines, AuctionLines

LEMMA LimitNumbers == FinanceInv => \A j \in DOMAIN creditLines : LimitOf[j] \in Int
  BY LenderLines

LEMMA LenderTotals == FinanceInv => \A u \in Users : Total(LimitOf, AquaLines(u)) \in Int
<1> SUFFICES ASSUME FinanceInv, NEW u \in Users
             PROVE  Total(LimitOf, AquaLines(u)) \in Int
  OBVIOUS
<1>1. \A id \in AquaLines(u) : LimitOf[id] \in Int
  BY LenderLines
<1> QED
  BY <1>1, LenderLines, TotalType

(* What each kind of step does to a lender's reservation and to the sum of *)
(* the limits of its lines.                                                *)
LEMMA NotFundingTotals ==
  ASSUME FinanceInv, NotFunding
  PROVE  \A u \in Users : Total(LimitOf', AquaLines(u)') = Total(LimitOf, AquaLines(u))
<1> TAKE u \in Users
<1>1. AquaLines(u)' = AquaLines(u)
  BY LenderLines DEF NotFunding, LinesKept, AquaLines
<1>2. \A id \in AquaLines(u) : LimitOf'[id] = LimitOf[id]
  BY DEF NotFunding, LinesKept, AquaLines, LimitOf
<1> QED
  BY <1>1, <1>2, LenderLines, TotalSame

LEMMA FundingTotals ==
  ASSUME FinanceInv, FinanceInv', FundingStep
  PROVE  \A u \in Users :
            liquidityReserved'[u] - liquidityReserved[u]
               = Total(LimitOf', AquaLines(u)') - Total(LimitOf, AquaLines(u))
<1>1. PICK request \in RfqIds \cup AuctionIds, lender \in Users, limit \in Uint :
         Funded(request, lender, limit)
  BY DEF FundingStep
<1> DEFINE id == creditLineCounter
<1>2. /\ liquidityReserved \in [Users -> Uint]
      /\ liquidityReserved' = [liquidityReserved EXCEPT ![lender] = @ + limit]
  BY <1>1 DEF Funded, ReserveLiquidity, FinanceInv, AquaInv, AquaTypeOK
<1>3. LinesKept /\ id \in DOMAIN creditLines' /\ id \notin DOMAIN creditLines
  BY <1>1, LenderLines DEF Funded
<1>4. creditLines'[id].lender = lender /\ creditLines'[id].limit = limit
  BY <1>1 DEF Funded
<1>5. createdFromRFQ' \cup createdFromAuction'
         = createdFromRFQ \cup createdFromAuction \cup {<<request, id>>}
  BY <1>1 DEF Funded
<1> HIDE DEF id
<1>6. ASSUME NEW u \in Users
      PROVE  /\ AquaLines(u)' = IF u = lender THEN AquaLines(u) \cup {id} ELSE AquaLines(u)
             /\ id \notin AquaLines(u)
             /\ IsFiniteSet(AquaLines(u))
             /\ Total(LimitOf', AquaLines(u)) = Total(LimitOf, AquaLines(u))
  <2>1. \A e \in createdFromRFQ \cup createdFromAuction : e[2] \in DOMAIN creditLines
    BY LenderLines
  <2>2. <<request, id>>[2] = id
    OBVIOUS
  <2>3. \A j \in DOMAIN creditLines : j \in AquaLines(u)' <=> j \in AquaLines(u)
    BY <1>3, <1>5, <2>2 DEF AquaLines, LinesKept
  <2>4. id \in AquaLines(u)' <=> u = lender
    BY <1>3, <1>4, <1>5, <2>2 DEF AquaLines
  <2>5. \A j \in AquaLines(u)' : j = id \/ j \in DOMAIN creditLines
    BY <1>5, <2>1, <2>2 DEF AquaLines
  <2>6. \A j \in AquaLines(u) : j \in DOMAIN creditLines /\ LimitOf'[j] = LimitOf[j]
    BY <1>3 DEF LinesKept, AquaLines, LimitOf
  <2>7. IsFiniteSet(AquaLines(u)) /\ id \notin AquaLines(u)
    BY <1>3, <2>6, LenderLines
  <2>8. AquaLines(u)' = IF u = lender THEN AquaLines(u) \cup {id} ELSE AquaLines(u)
    BY <1>3, <2>3, <2>4, <2>5, <2>6
  <2>9. Total(LimitOf', AquaLines(u)) = Total(LimitOf, AquaLines(u))
    BY <2>6, <2>7, TotalSame
  <2> QED
    BY <2>7, <2>8, <2>9
<1>7. LimitOf'[id] = limit /\ limit \in Int
  BY <1>3, <1>4, EvmAssumption DEF LimitOf, Uint
<1>8. \A j \in DOMAIN creditLines' : LimitOf'[j] \in Int
  <2>1. (FinanceInv => \A j \in DOMAIN creditLines : LimitOf[j] \in Int)'
    BY LimitNumbers, PTL
  <2> QED
    BY <2>1
<1>9. Total(LimitOf', AquaLines(lender)') = limit + Total(LimitOf', AquaLines(lender))
  <2>1. /\ IsFiniteSet(AquaLines(lender)') /\ id \in AquaLines(lender)'
        /\ AquaLines(lender)' \ {id} = AquaLines(lender)
    BY <1>6, FS_AddElement
  <2>2. \A j \in AquaLines(lender)' : LimitOf'[j] \in Int
    BY <1>8 DEF AquaLines
  <2> QED
    BY <1>7, <2>1, <2>2, TotalRemove
<1>10. ASSUME NEW u \in Users
       PROVE  liquidityReserved'[u] - liquidityReserved[u]
                 = Total(LimitOf', AquaLines(u)') - Total(LimitOf, AquaLines(u))
  <2>1. Total(LimitOf, AquaLines(u)) \in Int /\ liquidityReserved[u] \in Int
    BY <1>2, LenderTotals, EvmAssumption DEF Uint
  <2>2. CASE u = lender
    <3>1. liquidityReserved'[u] = liquidityReserved[u] + limit
      BY <1>2, <2>2
    <3>2. Total(LimitOf', AquaLines(u)') = limit + Total(LimitOf, AquaLines(u))
      BY <1>6, <1>9, <2>2
    <3> QED
      BY <1>7, <2>1, <3>1, <3>2
  <2>3. CASE u # lender
    BY <1>2, <1>6, <2>1, <2>3
  <2> QED
    BY <2>2, <2>3
<1> QED
  BY <1>10

(***************************************************************************)
(* Whoever calls reserveLiquidity and releaseLiquidity directly: in every  *)
(* other transaction of the system a lender's reserved liquidity grows by  *)
(* the limits of the lines the wrapper opens on that lender in it, so the  *)
(* reservation and the line of executeRFQWithAqua and settleAuctionWithAqua *)
(* stand or fall together, and a direct call touches no line.              *)
(***************************************************************************)
THEOREM FinanceReservedAsOpened == Spec => ReservedAsOpened
<1>1. ASSUME FinanceInv, FinanceInv', [Next]_vars
      PROVE  \/ DirectReserveNext /\ UNCHANGED <<creditVars, financeVars>>
             \/ \A u \in Users :
                   liquidityReserved'[u] - liquidityReserved[u]
                      = Total(LimitOf', AquaLines(u)') - Total(LimitOf, AquaLines(u))
  <2>1. CASE FundingStep
    BY <1>1, <2>1, FundingTotals
  <2>2. CASE NotFunding /\ UNCHANGED liquidityReserved
    <3>1. \A u \in Users : /\ liquidityReserved[u] \in Int
                           /\ Total(LimitOf, AquaLines(u)) \in Int
      BY <1>1, LenderTotals, EvmAssumption DEF FinanceInv, AquaInv, AquaTypeOK, Uint
    <3> QED
      BY <1>1, <2>2, <3>1, NotFundingTotals
  <2>3. CASE NotFunding /\ ~UNCHANGED liquidityReserved
    BY <2>3 DEF NotFunding
  <2> QED
    BY <1>1, <2>1, <2>2, <2>3, FinanceStep
<1>2. (\A u \in Users : Opened(u) = Total(LimitOf, AquaLines(u)))'
  BY ReservedTotal, PTL
<1>3. FinanceInv /\ FinanceInv' /\ [Next]_vars => [ReserveWithLines]_vars
  BY <1>1, <1>2, ReservedTotal DEF ReserveWithLines
<1> QED
  BY FinanceAlwaysInv, <1>3, PTL DEF Spec, ReservedAsOpened

-----------------------------------------------------------------------------
(* Nothing is rewritten, and the tokens add up, in the whole system.       *)

(* The contracts keep their records in every step, also when another       *)
(* contract or the wrapper acts; tokens move only in AquaNext.             *)
RecordsKept == BookKept /\ RequestKept /\ LineTermsKept /\ OutcomeKept

LEMMA RecordsStep ==
  ASSUME FinanceInv, [Next]_vars
  PROVE  RecordsKept /\ (AquaNext \/ UNCHANGED <<tokenVars, liquidityProvided>>)
<1> USE DEF FinanceInv
<1>0. now \in Int
  BY CreditAssumption DEF RfqInv, CreditInv, TimeTypeOK
<1>1. ASSUME UNCHANGED rfqVars PROVE BookKept /\ RequestKept
  BY <1>1 DEF BookKept, RequestKept, SameOffer, rfqVars
<1>2. ASSUME UNCHANGED auctionVars PROVE OutcomeKept
  BY <1>2 DEF OutcomeKept, auctionVars
<1>3. CASE \E u \in Users :
              \/ \E rfqId \in RfqIds : ExecuteRFQWithAqua(u, rfqId)
              \/ \E auctionId \in AuctionIds : SettleAuctionWithAqua(u, auctionId)
  <2>1. PICK request \in RfqIds \cup AuctionIds, lender \in Users, limit \in Uint :
           Funded(request, lender, limit)
    BY <1>3, ExecuteRFQWithAquaStep, SettleAuctionWithAquaStep
  <2>2. UNCHANGED rfqVars /\ UNCHANGED auctionVars /\ LineTermsKept
        /\ UNCHANGED <<tokenVars, liquidityProvided>>
    BY <2>1 DEF Funded, ReserveLiquidity
  <2> QED
    BY <1>1, <1>2, <2>2 DEF RecordsKept
<1>4. CASE RFQNext /\ UNCHANGED <<now, auctionVars, aquaVars, financeVars>>
  <2>1. UNCHANGED now /\ UNCHANGED auctionVars /\ UNCHANGED <<tokenVars, liquidityProvided>>
    BY <1>4 DEF aquaVars, liquidityVars
  <2>2. BookKept /\ RequestKept /\ LineTermsKept
    BY <1>4, <2>1, RFQNextInv
  <2> QED
    BY <1>2, <2>1, <2>2 DEF RecordsKept
<1>5. CASE AuctionNext /\ UNCHANGED <<now, rfqVars, aquaVars, financeVars>>
  <2>1. UNCHANGED now /\ UNCHANGED rfqVars /\ UNCHANGED <<tokenVars, liquidityProvided>>
    BY <1>5 DEF aquaVars, liquidityVars
  <2>2. OutcomeKept /\ LineTermsKept
    BY <1>5, <2>1, AuctionNextInv
  <2> QED
    BY <1>1, <2>1, <2>2 DEF RecordsKept
<1>6. CASE AquaNext /\ UNCHANGED <<now, creditVars, rfqVars, auctionVars, financeVars>>
  <2>1. UNCHANGED <<now, creditVars>> /\ UNCHANGED rfqVars /\ UNCHANGED auctionVars
    BY <1>6
  <2> QED
    BY <1>1, <1>2, <1>6, <2>1, CreditStutterInv DEF RecordsKept, RfqInv
<1>7. CASE CreditNext /\ UNCHANGED <<now, rfqVars, auctionVars, aquaVars, financeVars>>
  <2>1. UNCHANGED now /\ UNCHANGED rfqVars /\ UNCHANGED auctionVars
        /\ UNCHANGED <<tokenVars, liquidityProvided>>
    BY <1>7 DEF aquaVars, liquidityVars
  <2> QED
    BY <1>1, <1>2, <1>7, <2>1, CreditNextInv DEF RecordsKept, RfqInv
<1>8. CASE Tick /\ UNCHANGED <<creditVars, rfqVars, auctionVars, aquaVars, financeVars>>
  <2>1. UNCHANGED creditVars /\ UNCHANGED rfqVars /\ UNCHANGED auctionVars
        /\ UNCHANGED <<tokenVars, liquidityProvided>>
    BY <1>8 DEF aquaVars, liquidityVars
  <2> QED
    BY <1>1, <1>2, <1>8, <2>1, TickInv DEF RecordsKept, RfqInv
<1>9. CASE UNCHANGED vars
  <2>1. UNCHANGED <<now, creditVars>> /\ UNCHANGED rfqVars /\ UNCHANGED auctionVars
        /\ UNCHANGED <<tokenVars, liquidityProvided>>
    BY <1>9 DEF vars, aquaVars, liquidityVars
  <2> QED
    BY <1>1, <1>2, <2>1, CreditStutterInv DEF RecordsKept, RfqInv
<1> QED
  BY <1>3, <1>4, <1>5, <1>6, <1>7, <1>8, <1>9 DEF Next

(***************************************************************************)
(* What was agreed is never rewritten by anyone: quotes, requests, winners *)
(* and the terms of lines are kept by the transactions of all contracts    *)
(* and by the wrapper, which acts on records it does not own.              *)
(***************************************************************************)
THEOREM FinanceRecordsKept == Spec => [][RecordsKept]_vars
<1>1. FinanceInv /\ [Next]_vars => [RecordsKept]_vars
  BY RecordsStep
<1> QED
  BY FinanceAlwaysInv, <1>1, PTL DEF Spec

(***************************************************************************)
(* The pool can pay every lender and the balances add up to totalSupply    *)
(* also while the wrapper reserves and everyone else acts.                 *)
(***************************************************************************)
THEOREM FinanceSolvent == Spec => [](Solvent /\ SupplyConserved)
<1>1. Init => Solvent /\ SupplyConserved
  BY AquaInitTotals DEF Init
<1>2. FinanceInv /\ (Solvent /\ SupplyConserved) /\ [Next]_vars => (Solvent /\ SupplyConserved)'
  BY RecordsStep, SolventStep, SupplyStep, AquaStutterTotals DEF FinanceInv
<1> QED
  BY FinanceAlwaysInv, <1>1, <1>2, PTL DEF Spec
=============================================================================
