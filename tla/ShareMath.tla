----------------------------- MODULE ShareMath -----------------------------
(***************************************************************************)
(* The share arithmetic of vault_program: how many RVS shares a deposit    *)
(* mints, how much PUSD a redemption pays, and the share price of the      *)
(* daily snapshot.  The virtual offset (1000 shares and 1000 assets on     *)
(* chain) is a pair of constants, the scale of the price (1,000,000 on     *)
(* chain) another.  The Rust code computes in u128 and fails when the      *)
(* result does not fit a u64.  That failure is a guard of the callers: the *)
(* shares of a deposit and the assets of a redemption are bounded by sums  *)
(* and balances that are u64 themselves, the price is compared with U64.   *)
(***************************************************************************)
EXTENDS Integers

CONSTANTS VIRTUAL_SHARES, VIRTUAL_ASSETS, SHARE_PRICE_SCALE

ASSUME ShareMathAssumption ==
    /\ VIRTUAL_SHARES \in Nat \ {0}
    /\ VIRTUAL_ASSETS \in Nat \ {0}
    /\ SHARE_PRICE_SCALE \in Nat \ {0}

\* Mutated forms, for the checks of the properties: the deposit's rounding
\* turned around, and a ceiling that adds a whole denominator.
compute_shares_rounded_up(deposit_amount, total_shares, total_managed_assets) ==
    (deposit_amount * (total_shares + VIRTUAL_SHARES)
       + total_managed_assets + VIRTUAL_ASSETS - 1)
        \div (total_managed_assets + VIRTUAL_ASSETS)

compute_assets_off_by_one(shares, total_shares, total_managed_assets) ==
    LET denom == total_shares + VIRTUAL_SHARES IN
    (shares * (total_managed_assets + VIRTUAL_ASSETS) + denom) \div denom

-----------------------------------------------------------------------------
\* floor((deposit_amount * (total_shares + V_S)) / (total_managed_assets + V_A))
compute_shares_for_deposit(deposit_amount, total_shares, total_managed_assets) ==
    (deposit_amount * (total_shares + VIRTUAL_SHARES))
        \div (total_managed_assets + VIRTUAL_ASSETS)

\* ceil((shares * (total_managed_assets + V_A)) / (total_shares + V_S))
compute_assets_for_redeem(shares, total_shares, total_managed_assets) ==
    LET denom == total_shares + VIRTUAL_SHARES IN
    (shares * (total_managed_assets + VIRTUAL_ASSETS) + denom - 1) \div denom

\* floor((tma + V_A) * SCALE / (total_shares + V_S))
compute_share_price_scaled(total_shares, total_managed_assets) ==
    ((total_managed_assets + VIRTUAL_ASSETS) * SHARE_PRICE_SCALE)
        \div (total_shares + VIRTUAL_SHARES)
=============================================================================
