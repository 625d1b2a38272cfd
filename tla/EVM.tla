-------------------------------- MODULE EVM --------------------------------
(***************************************************************************)
(* What the contracts take from the machine they run on.  A transaction is *)
(* one atomic step of its sender; a transaction that reverts changes       *)
(* nothing and is a step that is not taken.  Solidity 0.8 arithmetic       *)
(* reverts on overflow and underflow, so a result outside Uint is a false  *)
(* guard.  uint256 is shrunk to 0 .. MaxUint.                              *)
(***************************************************************************)
EXTENDS Integers, Sequences

CONSTANTS
    Users,      \* externally owned accounts that send transactions
    NoOne,      \* address(0), the value of an address never written
    MaxUint,    \* largest uint256
    Amounts     \* bound: amounts of tokens that callers pass

ASSUME EvmAssumption ==
    /\ NoOne \notin Users
    /\ MaxUint \in Nat
    /\ Amounts \subseteq 0 .. MaxUint

Uint == 0 .. MaxUint

Address == Users \cup {NoOne}
=============================================================================
