---------------------------- MODULE VaultSystem ----------------------------
(***************************************************************************)
(* vault_program on its own.  The LPs call it in any order with any        *)
(* amounts; the controller's transactions are those of buy_insurance and   *)
(* execute_settlements seen from the vault: lock a payoff, or settle one   *)
(* policy on time (the premium arrives) or with a payout, and in the same  *)
(* transaction drain the queue over whatever claimable accounts the keeper *)
(* read at some earlier time, and take the snapshot.                       *)
(***************************************************************************)
EXTENDS Vault

CONSTANTS
    LpFunds,            \* PUSD every LP starts with
    MaxDonated,         \* bound: PUSD sent to the vault's account directly
    PREMIUM, PAYOFF,    \* terms of the policies the controller sells
    MaxPolicies         \* bound: policies sold

ASSUME VaultSystemAssumption ==
    /\ LpFunds \in U64
    /\ MaxDonated \in Nat /\ MaxPolicies \in Nat
    /\ PREMIUM \in U64 /\ PAYOFF \in U64 /\ PREMIUM <= PAYOFF

VARIABLES
    donated,            \* PUSD sent to the vault's account by plain transfers
    sold                \* policies sold

vars == <<now, vault, donated, sold>>

VaultInit ==
    /\ now = 0
    /\ vault = initialize_vault([lp \in LPs |-> LpFunds])
    /\ donated = 0
    /\ sold = 0

Deposit(lp, stable_amount) ==
    /\ vault' \in deposit(vault, lp, stable_amount)
    /\ UNCHANGED <<now, donated, sold>>

Redeem(lp, shares) ==
    /\ vault' \in redeem(vault, lp, shares)
    /\ UNCHANGED <<now, donated, sold>>

RequestWithdrawal(lp, shares) ==
    /\ Len(vault.requests) < MaxQueue
    /\ vault' \in request_withdrawal(vault, lp, shares)
    /\ UNCHANGED <<now, donated, sold>>

CancelWithdrawal(lp, queue_index) ==
    /\ vault' \in cancel_withdrawal(vault, lp, queue_index)
    /\ UNCHANGED <<now, donated, sold>>

Collect(lp) ==
    /\ vault' \in collect(vault, lp)
    /\ UNCHANGED <<now, donated, sold>>

\* Anyone may send PUSD to the vault's token account without calling the
\* program.
Donate(lp, amount) ==
    /\ amount > 0 /\ amount <= vault.stable[lp]
    /\ donated + amount <= MaxDonated
    /\ vault.vault_tokens + amount \in U64
    /\ vault' = [vault EXCEPT !.stable[lp] = @ - amount,
                              !.vault_tokens = @ + amount]
    /\ donated' = donated + amount
    /\ UNCHANGED <<now, sold>>

\* buy_insurance
LockForPolicy ==
    /\ sold < MaxPolicies
    /\ vault' \in increase_locked(vault, PAYOFF)
    /\ sold' = sold + 1
    /\ UNCHANGED <<now, donated>>

\* execute_settlements of one policy, after flight_pool moved its premium into
\* the vault's account.
SettleOnTime(claimables) ==
    /\ \E settled \in settle_premium_into_vault(vault, PREMIUM, PAYOFF) :
          vault' \in housekeeping(settled, claimables, Day(now))
    /\ UNCHANGED <<now, donated, sold>>

SettleWithPayout(claimables) ==
    /\ \E settled \in settle_payout_from_vault(vault, PAYOFF - PREMIUM, PAYOFF) :
          vault' \in housekeeping(settled, claimables, Day(now))
    /\ UNCHANGED <<now, donated, sold>>

\* The keeper's tick without a settleable flight (runEmptyForHousekeeping).
SettleNothing(claimables) ==
    /\ vault' \in housekeeping(vault, claimables, Day(now))
    /\ UNCHANGED <<now, donated, sold>>

\* The claimable accounts the keeper passes may be those of an older queue.
Claimables == BoundedSeq(LPs, MaxQueue)

LpNext ==
    \E lp \in LPs :
        \/ \E amount \in U64 : Deposit(lp, amount) \/ Donate(lp, amount)
        \/ \E shares \in U64 : Redeem(lp, shares) \/ RequestWithdrawal(lp, shares)
        \/ \E i \in 1 .. MaxQueue : CancelWithdrawal(lp, i)
        \/ Collect(lp)

ControllerNext ==
    \/ LockForPolicy
    \/ \E claimables \in Claimables :
          \/ SettleOnTime(claimables)
          \/ SettleWithPayout(claimables)
          \/ SettleNothing(claimables)

VaultNext ==
    \/ LpNext
    \/ ControllerNext
    \/ Tick /\ UNCHANGED <<vault, donated, sold>>

VaultSpec == VaultInit /\ [][VaultNext]_vars
-----------------------------------------------------------------------------
(* What the vault promises. *)

\* The accounts hold values of their types: every checked operation keeps its
\* u64 in range, and the queue counter never leaves the queue's bound.
VaultTypeOK ==
    /\ vault \in VaultType
    /\ now \in Time
    /\ donated \in Nat
    /\ sold \in 0 .. MaxPolicies

\* Every PUSD in the vault's token account is accounted for exactly once: it is
\* managed for the share holders, earmarked for a queued request, credited to
\* an LP who has not collected yet, or was sent there by a plain transfer.
\* request, cancel, drain, collect and the settlement calls each move value
\* between these books in a different handler.
EveryUnitBookedOnce ==
    vault.vault_tokens =
        donated + vault.total_managed_assets
        + SumFunction([lp \in LPs |-> Queued(vault, lp) + vault.claimable[lp]])

\* The counter the clients read is the queue's length, and the mint's supply
\* the sum of the balances, although five handlers maintain them separately.
CountersAgree ==
    /\ vault.withdrawal_queue_count = Len(vault.requests)
    /\ vault.supply = SumFunction(vault.shares)

\* First-in first-out: whatever requests, cancellations of any position and
\* partial drains happened, an earlier request never stands behind a later one.
QueueInArrivalOrder ==
    \A i, j \in 1 .. Len(vault.requests) :
        i < j => vault.requests[i].timestamp <= vault.requests[j].timestamp

\* What an LP owns: shares, and PUSD held, queued for or credited to them.
Holdings(lp) ==
    << vault.shares[lp],
       vault.stable[lp] + vault.claimable[lp] + Queued(vault, lp) >>

\* No transaction changes what two LPs own.  A drain, whatever claimable
\* accounts the keeper passes, changes what nobody owns: it only turns queued
\* into credited PUSD; a cancellation by position restores the canceller's own
\* request, whatever happened to the queue since the position was read.
OnlyOwnHoldingsMove ==
    [][/\ \A lp, other \in LPs :
             Holdings(lp)' # Holdings(lp) /\ lp # other
                => Holdings(other)' = Holdings(other)
       /\ vault'.claimable # vault.claimable /\ vault'.requests # vault.requests
             => \A lp \in LPs : Holdings(lp)' = Holdings(lp)]_vars

IsDeposit ==
    /\ vault'.supply > vault.supply
    /\ vault'.requests = vault.requests

\* redeem and request_withdrawal
IsRedemption == vault'.supply < vault.supply

\* A deposit never lowers the value of the shares that exist (the quotient of
\* the virtual reserves): shares minted are rounded down.
DepositNeverDilutes ==
    [][IsDeposit =>
         (vault'.total_managed_assets + VIRTUAL_ASSETS) * (vault.supply + VIRTUAL_SHARES)
           >= (vault.total_managed_assets + VIRTUAL_ASSETS)
                 * (vault'.supply + VIRTUAL_SHARES)]_vars

\* A redemption, at once or queued, pays the fair value of the burnt shares at
\* the price before the burn, rounded up: never less, and never a whole unit
\* more.
RedemptionPaysFairValue ==
    [][IsRedemption =>
         LET paid == vault.total_managed_assets - vault'.total_managed_assets
             burnt == vault.supply - vault'.supply
             denom == vault.supply + VIRTUAL_SHARES
             fair == burnt * (vault.total_managed_assets + VIRTUAL_ASSETS)
         IN fair <= paid * denom /\ paid * denom < fair + denom]_vars

\* Whatever the state of the vault, depositing and redeeming what the deposit
\* minted never leaves an LP with more PUSD: the two roundings do not add up
\* to a profit, and direct transfers to the vault's account do not help.
RoundTripNeverProfits ==
    \A lp \in LPs, amount \in U64 :
       \A v1 \in deposit(vault, lp, amount) :
          \A v2 \in redeem(v1, lp, v1.shares[lp] - vault.shares[lp]) :
             v2.stable[lp] <= vault.stable[lp]

-----------------------------------------------------------------------------
(* What comments of the program say and the program does not do. *)

\* "Sanity: locked must never exceed TMA" (increase_locked).
\* request_withdrawal takes its assets out of TMA without looking at the
\* locked capital.
LockedNeverExceedsManaged ==
    vault.locked_capital <= vault.total_managed_assets

Owners(v) == [i \in 1 .. Len(v.requests) |-> v.requests[i].owner]

\* A queued request's value "is now earmarked ... and is no longer part of the
\* pool's free / locked accounting" (request_withdrawal): with no capital
\* locked, a drain over the right accounts credits at least the head.  The
\* drain compares the head with what is free of the TMA it was taken out of.
EarmarkedIsPayable ==
    vault.locked_capital = 0 /\ vault.requests # << >>
        => 0 \notin Fillable(vault, Owners(vault))
=============================================================================
