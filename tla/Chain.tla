------------------------------- MODULE Chain -------------------------------
(***************************************************************************)
(* What every program of the repository takes from the Solana runtime and  *)
(* from Rust:                                                              *)
(*                                                                         *)
(*   - the clock (Clock::get()?.unix_timestamp), which only grows;         *)
(*   - u64 amounts and u32 counts, whose checked_add / checked_sub /       *)
(*     try_from return an error instead of wrapping;                       *)
(*   - transactions that are atomic: a handler that returns an error leaves *)
(*     every account as it was.                                            *)
(*                                                                         *)
(* A handler is therefore an operator from the accounts before it to the   *)
(* SET of accounts it may leave: a singleton when it succeeds, the empty   *)
(* set when it reverts.  An action says  accounts' \in handler(accounts),  *)
(* which no step satisfies when the handler reverts.                       *)
(***************************************************************************)
EXTENDS Integers

CONSTANTS
    U64_MAX,            \* the largest amount (2^64 - 1 on chain)
    U32_MAX,            \* the largest count of buyers or routes (2^32 - 1)
    SECONDS_PER_DAY,    \* length of a day in clock units (86400 on chain)
    MaxTime             \* bound: the clock stops here

ASSUME ChainAssumption ==
    /\ U64_MAX \in Nat /\ U32_MAX \in Nat
    /\ SECONDS_PER_DAY \in Nat \ {0}
    /\ MaxTime \in Nat

VARIABLE now            \* Clock::get()?.unix_timestamp

U64 == 0 .. U64_MAX

U32 == 0 .. U32_MAX

Time == 0 .. MaxTime

Day(t) == t \div SECONDS_PER_DAY

\* The result of a handler whose require!s and checked operations amount to
\* guard: the new accounts, or a revert.
When(guard, accounts) == IF guard THEN {accounts} ELSE {}

Tick == now < MaxTime /\ now' = now + 1
=============================================================================
