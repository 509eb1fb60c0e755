------------------------------- MODULE Vault -------------------------------
(***************************************************************************)
(* vault_program: the underwriters' capital pool.                          *)
(*                                                                         *)
(* Liquidity providers deposit PUSD for RVS shares, redeem shares at once  *)
(* while capital is free, or queue a withdrawal whose value is fixed (and  *)
(* taken out of total_managed_assets, TMA) when it is requested, credited  *)
(* first-in first-out to a claimable balance by a later drain, and         *)
(* collected.  The controller locks capital for every policy sold, pays    *)
(* out or records premium income when a flight settles, drains the queue   *)
(* and takes the daily share-price snapshot.                               *)
(*                                                                         *)
(* This module holds the program's accounts and handlers.  VaultSystem     *)
(* closes it with an environment that makes the controller's calls;        *)
(* Controller composes it with the other programs.                         *)
(***************************************************************************)
EXTENDS Chain, ShareMath, SequencesExt

CONSTANTS
    LPs,                \* the liquidity providers
    MaxQueue            \* bound: withdrawal requests queued at a time

ASSUME VaultAssumption == IsFiniteSet(LPs) /\ MaxQueue \in Nat

VARIABLE vault

WithdrawalRequest ==
    [owner : LPs, shares : U64, pending_assets : U64, timestamp : Time]

\* VaultState, WithdrawalQueue and the ClaimableBalance of every LP, with the
\* token accounts the program moves: the share mint's supply and balances, the
\* vault's PUSD account and the LPs' PUSD accounts.
VaultType ==
    [ total_managed_assets   : U64,
      locked_capital         : U64,
      last_snapshot_time     : Time \cup {-1},
      withdrawal_queue_count : 0 .. MaxQueue,
      requests               : Seq(WithdrawalRequest),
      claimable              : [LPs -> U64],
      shares                 : [LPs -> U64],
      supply                 : U64,
      vault_tokens           : U64,
      stable                 : [LPs -> U64] ]

\* initialize, with the controller wired; the LPs start with the given PUSD.
initialize_vault(stable) ==
    [ total_managed_assets   |-> 0,
      locked_capital         |-> 0,
      last_snapshot_time     |-> -1,
      withdrawal_queue_count |-> 0,
      requests               |-> << >>,
      claimable              |-> [lp \in LPs |-> 0],
      shares                 |-> [lp \in LPs |-> 0],
      supply                 |-> 0,
      vault_tokens           |-> 0,
      stable                 |-> stable ]

-----------------------------------------------------------------------------
\* Mutated forms, for the checks of the properties.

\* The price is read after the burn.
request_after_burn(v, lp, shares) ==
    LET pending == compute_assets_for_redeem(
                       shares, v.supply - shares, v.total_managed_assets)
    IN When(/\ shares > 0
            /\ shares <= v.shares[lp]
            /\ pending <= v.total_managed_assets,
            [v EXCEPT !.supply = @ - shares,
                      !.shares[lp] = @ - shares,
                      !.requests = Append(@, [owner |-> lp,
                                              shares |-> shares,
                                              pending_assets |-> pending,
                                              timestamp |-> now]),
                      !.total_managed_assets = @ - pending,
                      !.withdrawal_queue_count = @ + 1])

\* What the three mutants of cancel_withdrawal share: the request leaves the
\* queue as rest, and lp gets its value back.
Cancelled(v, lp, req, rest, count) ==
    [v EXCEPT !.requests = rest,
              !.supply = @ + req.shares,
              !.shares[lp] = @ + req.shares,
              !.total_managed_assets = @ + req.pending_assets,
              !.withdrawal_queue_count = count]

\* Vec::swap_remove instead of Vec::remove.
cancel_swap_remove(v, lp, queue_index) ==
    IF queue_index \notin 1 .. Len(v.requests) THEN {}
    ELSE LET req == v.requests[queue_index]
         IN When(req.owner = lp,
                 Cancelled(v, lp, req,
                           Front([v.requests EXCEPT ![queue_index] = Last(v.requests)]),
                           v.withdrawal_queue_count - 1))

\* The queue's counter is not maintained.
cancel_keeps_count(v, lp, queue_index) ==
    IF queue_index \notin 1 .. Len(v.requests) THEN {}
    ELSE LET req == v.requests[queue_index]
         IN When(req.owner = lp,
                 Cancelled(v, lp, req, RemoveAt(v.requests, queue_index),
                           v.withdrawal_queue_count))

\* No NotRequestOwner check.
cancel_any_owner(v, lp, queue_index) ==
    IF queue_index \notin 1 .. Len(v.requests) THEN {}
    ELSE {Cancelled(v, lp, v.requests[queue_index],
                    RemoveAt(v.requests, queue_index),
                    v.withdrawal_queue_count - 1)}

\* TMA is debited again when the PUSD leaves.
collect_debits_managed(v, lp) ==
    When(v.claimable[lp] > 0 /\ v.claimable[lp] <= v.total_managed_assets,
         [v EXCEPT !.vault_tokens = @ - v.claimable[lp],
                   !.stable[lp] = @ + v.claimable[lp],
                   !.claimable[lp] = 0,
                   !.total_managed_assets = @ - v.claimable[lp]])

\* Releases what was paid instead of what was locked.
release_what_was_paid(v, payout_diff, payoff) ==
    When(payout_diff \in 1 .. v.locked_capital /\ payout_diff <= v.vault_tokens,
         [v EXCEPT !.vault_tokens = @ - payout_diff,
                   !.total_managed_assets = @ - payout_diff,
                   !.locked_capital = @ - payout_diff])

\* No InsufficientLocked check.
decrease_locked_unchecked(v, amount) ==
    {[v EXCEPT !.locked_capital = @ - amount]}

-----------------------------------------------------------------------------
\* Underwriter operations.  The token program's own checks are among the
\* guards: a transfer needs the balance, a burn the balance and the supply.

deposit(v, lp, stable_amount) ==
    LET minted == compute_shares_for_deposit(
                      stable_amount, v.supply, v.total_managed_assets)
    IN When(/\ stable_amount > 0
            /\ stable_amount <= v.stable[lp]
            /\ v.vault_tokens + stable_amount \in U64
            /\ minted > 0
            /\ v.supply + minted \in U64
            /\ v.shares[lp] + minted \in U64
            /\ v.total_managed_assets + stable_amount \in U64,
            [v EXCEPT !.stable[lp] = @ - stable_amount,
                      !.vault_tokens = @ + stable_amount,
                      !.supply = @ + minted,
                      !.shares[lp] = @ + minted,
                      !.total_managed_assets = @ + stable_amount])

\* At once, out of the capital no policy needs.
redeem(v, lp, shares) ==
    LET stable_out == compute_assets_for_redeem(
                          shares, v.supply, v.total_managed_assets)
    IN When(/\ shares > 0
            /\ v.locked_capital <= v.total_managed_assets
            /\ stable_out <= v.total_managed_assets - v.locked_capital
            /\ shares <= v.shares[lp] /\ shares <= v.supply
            /\ stable_out <= v.vault_tokens
            /\ v.stable[lp] + stable_out \in U64,
            [v EXCEPT !.supply = @ - shares,
                      !.shares[lp] = @ - shares,
                      !.vault_tokens = @ - stable_out,
                      !.stable[lp] = @ + stable_out,
                      !.total_managed_assets = @ - stable_out])

\* Locked capital plays no part in this guard.
request_withdrawal(v, lp, shares) ==
    LET pending == compute_assets_for_redeem(
                       shares, v.supply, v.total_managed_assets)
    IN When(/\ shares > 0
            /\ shares <= v.shares[lp] /\ shares <= v.supply
            /\ pending > 0
            /\ pending <= v.total_managed_assets,
            [v EXCEPT !.supply = @ - shares,
                      !.shares[lp] = @ - shares,
                      !.requests = Append(@, [owner |-> lp,
                                              shares |-> shares,
                                              pending_assets |-> pending,
                                              timestamp |-> now]),
                      !.total_managed_assets = @ - pending,
                      !.withdrawal_queue_count = @ + 1])

\* queue_index counts from 1 here, from 0 in the program.
cancel_withdrawal(v, lp, queue_index) ==
    IF queue_index \notin 1 .. Len(v.requests) THEN {}
    ELSE LET req == v.requests[queue_index]
         IN When(/\ req.owner = lp
                 /\ v.supply + req.shares \in U64
                 /\ v.shares[lp] + req.shares \in U64
                 /\ v.total_managed_assets + req.pending_assets \in U64
                 /\ v.withdrawal_queue_count > 0,
                 [v EXCEPT !.requests = RemoveAt(@, queue_index),
                           !.supply = @ + req.shares,
                           !.shares[lp] = @ + req.shares,
                           !.total_managed_assets = @ + req.pending_assets,
                           !.withdrawal_queue_count = @ - 1])

collect(v, lp) ==
    When(/\ v.claimable[lp] > 0
         /\ v.claimable[lp] <= v.vault_tokens
         /\ v.stable[lp] + v.claimable[lp] \in U64,
         [v EXCEPT !.vault_tokens = @ - v.claimable[lp],
                   !.stable[lp] = @ + v.claimable[lp],
                   !.claimable[lp] = 0])

-----------------------------------------------------------------------------
\* Controller-only operations.

increase_locked(v, amount) ==
    When(/\ v.locked_capital + amount \in U64
         /\ v.locked_capital + amount <= v.total_managed_assets,
         [v EXCEPT !.locked_capital = @ + amount])

decrease_locked(v, amount) ==
    When(v.locked_capital >= amount,
         [v EXCEPT !.locked_capital = @ - amount])

\* The recipient's side of the transfer is the caller's.
send_payout(v, amount) ==
    When(/\ amount > 0
         /\ amount <= v.vault_tokens
         /\ amount <= v.total_managed_assets,
         [v EXCEPT !.vault_tokens = @ - amount,
                   !.total_managed_assets = @ - amount])

record_premium_income(v, amount) ==
    When(v.total_managed_assets + amount \in U64,
         [v EXCEPT !.total_managed_assets = @ + amount])

\* What the first k requests of the queue owe to the LPs of set S.
OwedBy(requests, k, S) ==
    SumFunction([i \in 1 .. k |-> IF requests[i].owner \in S
                                  THEN requests[i].pending_assets ELSE 0])

Queued(v, lp) == OwedBy(v.requests, Len(v.requests), {lp})

\* How many requests a drain credits: head first, until free capital does not
\* cover the head, the queue is empty, or the caller's claimable accounts run
\* out.  Pending amounts are positive, so this is the longest covered prefix,
\* the one member of this set.
Fillable(v, claimables) ==
    LET free == v.total_managed_assets - v.locked_capital
        covered == {k \in 0 .. Len(v.requests) :
                       /\ k <= Len(claimables)
                       /\ OwedBy(v.requests, k, LPs) <= free}
    IN {k \in covered : \A j \in covered : j <= k}

\* claimables are the owners of the ClaimableBalance accounts the keeper
\* passes; the call fails on the first one that is not its request's.
process_withdrawal_queue(v, claimables) ==
    IF v.locked_capital > v.total_managed_assets THEN {}
    ELSE UNION {
        LET credited == [lp \in LPs |->
                            v.claimable[lp] + OwedBy(v.requests, filled, {lp})]
        IN When(/\ \A i \in 1 .. filled : claimables[i] = v.requests[i].owner
                /\ credited \in [LPs -> U64]
                /\ filled <= v.withdrawal_queue_count,
                [v EXCEPT !.claimable = credited,
                          !.requests = SubSeq(@, filled + 1, Len(@)),
                          !.withdrawal_queue_count = @ - filled]) :
        filled \in Fillable(v, claimables) }

SnapshotTaken(v) == v.last_snapshot_time >= 0 /\ Day(v.last_snapshot_time) = Day(now)

\* The share price goes to a record nothing reads back; but it must fit its
\* u64, or the call, and the transaction it ends, reverts.
PriceFits(v) == compute_share_price_scaled(v.supply, v.total_managed_assets) \in U64

\* Nothing is computed when the snapshot of the day was taken before.
snapshot(v, day) ==
    When(day = Day(now) /\ (SnapshotTaken(v) \/ PriceFits(v)),
         IF SnapshotTaken(v) THEN v ELSE [v EXCEPT !.last_snapshot_time = now])

-----------------------------------------------------------------------------
\* The sequences of calls execute_settlements makes on the vault.

\* A flight on time: its premiums have reached the token account, are booked,
\* and the collateral of its policies is released.
settle_premium_into_vault(v, premium, payoff) ==
    IF v.vault_tokens + premium \notin U64 THEN {}
    ELSE UNION { decrease_locked(booked, payoff) :
                   booked \in record_premium_income(
                       [v EXCEPT !.vault_tokens = @ + premium], premium) }

\* A delayed or cancelled flight: the vault adds what the premiums do not
\* cover, if anything, and releases the collateral.
settle_payout_from_vault(v, payout_diff, payoff) ==
    UNION { decrease_locked(paid, payoff) :
              paid \in IF payout_diff > 0 THEN send_payout(v, payout_diff) ELSE {v} }

\* After the flights: the drain, then the snapshot.
housekeeping(v, claimables, day) ==
    UNION { snapshot(drained, day) :
              drained \in process_withdrawal_queue(v, claimables) }
=============================================================================
