--------------------------- MODULE AquaIntegration ---------------------------
(***************************************************************************)
(* The shared-liquidity contract (AquaIntegration.sol) and the ERC-20      *)
(* token it holds (MockERC20.sol).  A lender connects tokens, which the    *)
(* contract then holds, withdraws what is not reserved, and anyone may     *)
(* reserve or release a lender's liquidity.  swapViaAqua and               *)
(* getAvailableLiquidity change no state.  The only spender the system     *)
(* ever approves is the contract, so the second key of allowance is fixed. *)
(***************************************************************************)
EXTENDS EVM, FiniteSetsExt

CONSTANTS
    Aqua,           \* address(this) of AquaIntegration
    ReserveCallers  \* accounts that call reserveLiquidity and releaseLiquidity
                    \* themselves instead of through AgentFinance

ASSUME AquaAssumption ==
    /\ Aqua \notin Users /\ Aqua # NoOne
    /\ ReserveCallers \subseteq Users
    /\ IsFiniteSet(Users)      \* an address is one of 2^160

VARIABLES
    balanceOf,          \* account -> token balance
    allowance,          \* owner -> what Aqua may still transfer
    totalSupply,
    liquidityProvided,  \* lender -> amount
    liquidityReserved   \* lender -> reserved amount

tokenVars == <<balanceOf, allowance, totalSupply>>
liquidityVars == <<liquidityProvided, liquidityReserved>>
aquaVars == <<tokenVars, liquidityVars>>

Accounts == Users \cup {Aqua}

AquaTypeOK ==
    /\ balanceOf \in [Accounts -> Uint]
    /\ allowance \in [Users -> Uint]
    /\ totalSupply \in Uint
    /\ liquidityProvided \in [Users -> Uint]
    /\ liquidityReserved \in [Users -> Uint]

AquaInit ==
    /\ balanceOf = [u \in Accounts |-> 0]
    /\ allowance = [u \in Users |-> 0]
    /\ totalSupply = 0
    /\ liquidityProvided = [u \in Users |-> 0]
    /\ liquidityReserved = [u \in Users |-> 0]

-----------------------------------------------------------------------------
(* The token. *)

Mint(to, amount) ==
    /\ balanceOf[to] + amount \in Uint
    /\ totalSupply + amount \in Uint
    /\ balanceOf' = [balanceOf EXCEPT ![to] = @ + amount]
    /\ totalSupply' = totalSupply + amount
    /\ UNCHANGED <<allowance, liquidityVars>>

Approve(sender, amount) ==
    /\ allowance' = [allowance EXCEPT ![sender] = amount]
    /\ UNCHANGED <<balanceOf, totalSupply, liquidityVars>>

(* Mutant: both balances are read before either is written. *)
MoveStale(from, to, amount) ==
    /\ balanceOf[from] >= amount
    /\ balanceOf[to] + amount \in Uint
    /\ balanceOf' = [balanceOf EXCEPT ![from] = @ - amount,
                                      ![to] = balanceOf[to] + amount]

(* balanceOf[from] -= amount; balanceOf[to] += amount, both checked, in    *)
(* this order: from and to may be the same account.                        *)
Move(from, to, amount) ==
    LET debited == [balanceOf EXCEPT ![from] = @ - amount]
    IN  /\ balanceOf[from] >= amount
        /\ debited[to] + amount \in Uint
        /\ balanceOf' = [debited EXCEPT ![to] = @ + amount]

Transfer(sender, to, amount) ==
    /\ Move(sender, to, amount)
    /\ UNCHANGED <<allowance, totalSupply, liquidityVars>>

(* Mutant: transferFrom does not use the allowance up. *)
PullFromUnspent(from, amount) ==
    /\ allowance[from] >= amount
    /\ Move(from, Aqua, amount)
    /\ UNCHANGED <<allowance, totalSupply>>

(* transferFrom as Aqua calls it. *)
PullFrom(from, amount) ==
    /\ allowance[from] >= amount
    /\ Move(from, Aqua, amount)
    /\ allowance' = [allowance EXCEPT ![from] = @ - amount]
    /\ UNCHANGED totalSupply

-----------------------------------------------------------------------------
(* The liquidity contract. *)

(* Checked subtraction: reverts, so has no value, when it underflows. *)
Available(lender) == liquidityProvided[lender] - liquidityReserved[lender]

(* Mutant: a transferFrom that moves nothing is credited all the same. *)
ConnectLiquidityUnpaid(sender, amount) ==
    /\ amount > 0
    /\ liquidityProvided[sender] + amount \in Uint
    /\ liquidityProvided' = [liquidityProvided EXCEPT ![sender] = @ + amount]
    /\ UNCHANGED <<tokenVars, liquidityReserved>>

ConnectLiquidity(sender, amount) ==
    /\ amount > 0
    /\ PullFrom(sender, amount)
    /\ liquidityProvided[sender] + amount \in Uint
    /\ liquidityProvided' = [liquidityProvided EXCEPT ![sender] = @ + amount]
    /\ UNCHANGED liquidityReserved

(* Mutants: only the stake is compared, not what is reserved of it; nothing *)
(* is compared but the pool's balance; the tokens are not paid out.         *)
WithdrawReserved(sender, amount) ==
    /\ liquidityProvided[sender] >= amount
    /\ liquidityProvided' = [liquidityProvided EXCEPT ![sender] = @ - amount]
    /\ Move(Aqua, sender, amount)
    /\ UNCHANGED <<allowance, totalSupply, liquidityReserved>>

WithdrawUnchecked(sender, amount) ==
    /\ liquidityProvided' = [liquidityProvided EXCEPT ![sender] = @ - amount]
    /\ Move(Aqua, sender, amount)
    /\ UNCHANGED <<allowance, totalSupply, liquidityReserved>>

WithdrawUnpaid(sender, amount) ==
    /\ Available(sender) \in Uint
    /\ Available(sender) >= amount
    /\ liquidityProvided' = [liquidityProvided EXCEPT ![sender] = @ - amount]
    /\ UNCHANGED <<tokenVars, liquidityReserved>>

WithdrawLiquidity(sender, amount) ==
    /\ liquidityProvided[sender] >= amount
    /\ Available(sender) \in Uint
    /\ Available(sender) >= amount
    /\ liquidityProvided' = [liquidityProvided EXCEPT ![sender] = @ - amount]
    /\ Move(Aqua, sender, amount)
    /\ UNCHANGED <<allowance, totalSupply, liquidityReserved>>

ReserveLiquidity(lender, amount) ==
    /\ Available(lender) \in Uint
    /\ Available(lender) >= amount
    /\ liquidityReserved[lender] + amount \in Uint
    /\ liquidityReserved' = [liquidityReserved EXCEPT ![lender] = @ + amount]
    /\ UNCHANGED <<tokenVars, liquidityProvided>>

ReleaseLiquidity(lender, amount) ==
    /\ liquidityReserved[lender] >= amount
    /\ liquidityReserved' = [liquidityReserved EXCEPT ![lender] = @ - amount]
    /\ UNCHANGED <<tokenVars, liquidityProvided>>

(* The transactions of lenders on the token and on their own liquidity. *)
LenderNext ==
    \E u \in Users, amount \in Amounts :
        \/ Approve(u, amount)
        \/ \E to \in Accounts : Mint(to, amount) \/ Transfer(u, to, amount)
        \/ ConnectLiquidity(u, amount)
        \/ WithdrawLiquidity(u, amount)

(* Neither function looks at its caller. *)
DirectReserveNext ==
    /\ ReserveCallers # {}
    /\ \E lender \in Users, amount \in Amounts :
          ReserveLiquidity(lender, amount) \/ ReleaseLiquidity(lender, amount)

AquaNext == LenderNext \/ DirectReserveNext

AquaSpec == AquaInit /\ [][AquaNext]_aquaVars

-----------------------------------------------------------------------------

(***************************************************************************)
(* Reserved liquidity is liquidity that was provided and is still there:   *)
(* no interleaving of withdrawals and reservations reserves more of a      *)
(* lender's tokens than the lender has in the pool, so the checked         *)
(* subtraction of withdrawLiquidity, reserveLiquidity and                  *)
(* getAvailableLiquidity never reverts.                                    *)
(***************************************************************************)
ReservedWithinProvided ==
    \A u \in Users : liquidityReserved[u] <= liquidityProvided[u]

(***************************************************************************)
(* The contract can pay out: it holds at least the sum of what it owes to  *)
(* all lenders (more, when someone transfers tokens to it directly).       *)
(***************************************************************************)
TotalProvided == MapThenSumSet(LAMBDA u : liquidityProvided[u], Users)

Solvent == balanceOf[Aqua] >= TotalProvided

(***************************************************************************)
(* Tokens are neither lost nor made: the balances add up to totalSupply.   *)
(***************************************************************************)
SupplyConserved == MapThenSumSet(LAMBDA u : balanceOf[u], Accounts) = totalSupply

(***************************************************************************)
(* Stakes and tokens move together.  Whenever the amount one lender        *)
(* provided changes, no other lender's does, and the contract's balance    *)
(* grows and the lender's shrinks by the same amount.  And a user's tokens *)
(* leave in two ways only: by a transfer of that user, or with the user's  *)
(* stake growing and the user's allowance shrinking by as much.            *)
(***************************************************************************)
StakePaid(u) ==
    LET provided == liquidityProvided'[u] - liquidityProvided[u]
    IN  provided # 0 =>
            /\ balanceOf'[Aqua] - balanceOf[Aqua] = provided
            /\ balanceOf[u] - balanceOf'[u] = provided
            /\ \A v \in Users \ {u} : liquidityProvided'[v] = liquidityProvided[v]

SpentAsAllowed(u) ==
    LET spent == balanceOf[u] - balanceOf'[u]
    IN  spent > 0 =>
            \/ \E to \in Accounts, amount \in Amounts : Transfer(u, to, amount)
            \/ /\ liquidityProvided'[u] - liquidityProvided[u] = spent
               /\ allowance[u] - allowance'[u] = spent

StakeMovesWithTokens == \A u \in Users : StakePaid(u) /\ SpentAsAllowed(u)

StakeBacked == [][StakeMovesWithTokens]_aquaVars
=============================================================================
