------------------------ MODULE SentinelBooksProofs ------------------------
(***************************************************************************)
(* The money of the five programs under every order of transactions: the   *)
(* treasury backs every pool, the vault books every transfer, the locked   *)
(* capital is the payoffs of the policies still running, and the counters  *)
(* of the controller agree with the pools.  From these books: a classified *)
(* flight can be settled, and the programs implement the ledger of         *)
(* policies (PolicyLedger).                                                *)
(*                                                                         *)
(* Each of these books is a sum over the flights or the LPs.  A handler    *)
(* changes one summand, and the laws of the sums carry the change to the   *)
(* total (VaultHandlerProofs).  The invariant has four parts: FlightsInv   *)
(* and ListInv (SentinelProofs), MoneyInv, the books, and CountedInv, the  *)
(* records of the travelers behind the counters of the pools; PricesInv    *)
(* joins them where the owner leaves the prices of the routes alone.       *)
(***************************************************************************)
EXTENDS SentinelProofs

-----------------------------------------------------------------------------
(* The vault's side. *)

\* An LP's call moves what this LP owns and locks or releases nothing; what
\* leaves the LP's own PUSD enters the vault's account.
LpCall(v, w) ==
    /\ WellFormed(w)
    /\ w.locked_capital = v.locked_capital
    /\ \E lp \in LPs :
          /\ MovesOnly(v, w, lp)
          /\ w.vault_tokens + w.stable[lp] = v.vault_tokens + v.stable[lp]

\* deposit
LEMMA DepositCall ==
    ASSUME NEW v, WellFormed(v), NEW lp \in LPs, NEW amount \in U64,
           NEW w \in deposit(v, lp, amount)
    PROVE  LpCall(v, w)
<1>1. WellFormed(w) /\ MovesOnly(v, w, lp)
  BY DepositWellFormed, DepositMoves
<1>2. /\ w.locked_capital = v.locked_capital
      /\ w.vault_tokens = v.vault_tokens + amount
      /\ w.stable = [v.stable EXCEPT ![lp] = @ - amount]
  BY DEF deposit, When, WellFormed, VaultType
<1>3. v.stable \in [LPs -> U64] /\ amount \in Nat
  BY Fields, Amounts DEF WellFormed
<1>4. w.vault_tokens + w.stable[lp] = v.vault_tokens + v.stable[lp]
  BY <1>2, <1>3, Numbers
<1> QED
  BY <1>1, <1>2, <1>4 DEF LpCall

\* redeem
LEMMA RedeemCall ==
    ASSUME NEW v, WellFormed(v), NEW lp \in LPs, NEW burnt \in U64,
           NEW w \in redeem(v, lp, burnt)
    PROVE  LpCall(v, w)
<1> DEFINE paid == compute_assets_for_redeem(burnt, v.supply, v.total_managed_assets)
<1>1. WellFormed(w) /\ MovesOnly(v, w, lp)
  BY RedeemWellFormed, RedeemMoves
<1>2. /\ w.locked_capital = v.locked_capital
      /\ w.vault_tokens = v.vault_tokens - paid
      /\ w.stable = [v.stable EXCEPT ![lp] = @ + paid]
      /\ burnt <= v.supply
  BY DEF redeem, When, WellFormed, VaultType
<1>3. v.stable \in [LPs -> U64] /\ burnt \in Nat
  BY Fields, Amounts DEF WellFormed
<1>4. paid \in Nat
  BY <1>2, <1>3, RedeemRoundsUp, Numbers
<1> HIDE DEF paid
<1>5. w.vault_tokens + w.stable[lp] = v.vault_tokens + v.stable[lp]
  BY <1>2, <1>3, <1>4, Numbers
<1> QED
  BY <1>1, <1>2, <1>5 DEF LpCall

\* request_withdrawal: no PUSD moves.
LEMMA RequestWithdrawalCall ==
    ASSUME NEW v, WellFormed(v), NEW lp \in LPs, NEW burnt \in U64,
           now \in Time, Len(v.requests) < MaxQueue,
           NEW w \in request_withdrawal(v, lp, burnt)
    PROVE  LpCall(v, w)
<1>1. WellFormed(w) /\ MovesOnly(v, w, lp)
  BY RequestWithdrawalWellFormed, RequestWithdrawalMoves
<1>2. /\ w.locked_capital = v.locked_capital
      /\ w.vault_tokens = v.vault_tokens /\ w.stable = v.stable
  BY DEF request_withdrawal, When, WellFormed, VaultType
<1> QED
  BY <1>1, <1>2 DEF LpCall

\* cancel_withdrawal
LEMMA CancelWithdrawalCall ==
    ASSUME NEW v, WellFormed(v), NEW lp \in LPs, NEW i \in Nat,
           NEW w \in cancel_withdrawal(v, lp, i)
    PROVE  LpCall(v, w)
<1>1. WellFormed(w) /\ MovesOnly(v, w, lp)
  BY CancelWithdrawalWellFormed, CancelWithdrawalMoves
<1>2. /\ w.locked_capital = v.locked_capital
      /\ w.vault_tokens = v.vault_tokens /\ w.stable = v.stable
  BY DEF cancel_withdrawal, When, WellFormed, VaultType
<1> QED
  BY <1>1, <1>2 DEF LpCall

\* collect
LEMMA CollectCall ==
    ASSUME NEW v, WellFormed(v), NEW lp \in LPs, NEW w \in collect(v, lp)
    PROVE  LpCall(v, w)
<1> DEFINE amount == v.claimable[lp]
<1>1. WellFormed(w) /\ MovesOnly(v, w, lp)
  BY CollectWellFormed, CollectMoves
<1>2. /\ w.locked_capital = v.locked_capital
      /\ w.vault_tokens = v.vault_tokens - amount
      /\ w.stable = [v.stable EXCEPT ![lp] = @ + amount]
  BY DEF collect, When, WellFormed, VaultType
<1>3. v.stable \in [LPs -> U64] /\ amount \in Nat
  BY Fields, Numbers DEF WellFormed
<1> HIDE DEF amount
<1>4. w.vault_tokens + w.stable[lp] = v.vault_tokens + v.stable[lp]
  BY <1>2, <1>3, Numbers
<1> QED
  BY <1>1, <1>2, <1>4 DEF LpCall

\* A call of the controller: nobody's holdings move, and so much is locked.
ControllerCall(v, w, locked) ==
    /\ WellFormed(w)
    /\ MovesNothing(v, w)
    /\ w.locked_capital = v.locked_capital + locked

\* increase_locked
LEMMA IncreaseLockedCall ==
    ASSUME NEW v, WellFormed(v), NEW amount \in U64, NEW w \in increase_locked(v, amount)
    PROVE  ControllerCall(v, w, amount) /\ w.vault_tokens = v.vault_tokens
<1>1. WellFormed(w) /\ MovesNothing(v, w)
  BY IncreaseLockedWellFormed, IncreaseLockedMoves
<1>2. w.locked_capital = v.locked_capital + amount /\ w.vault_tokens = v.vault_tokens
  BY DEF increase_locked, When, WellFormed, VaultType
<1> QED
  BY <1>1, <1>2 DEF ControllerCall

\* A flight on time: the premiums come in and the collateral is released.
LEMMA SettlePremiumCall ==
    ASSUME NEW v, WellFormed(v), NEW premium \in Nat, NEW payoff \in Nat,
           NEW w \in settle_premium_into_vault(v, premium, payoff)
    PROVE  ControllerCall(v, w, -payoff) /\ w.vault_tokens = v.vault_tokens + premium
<1>1. WellFormed(w) /\ MovesNothing(v, w)
  BY SettlePremiumWellFormed, SettlePremiumMoves
<1> DEFINE paid == [v EXCEPT !.vault_tokens = @ + premium]
<1>2. PICK booked \in record_premium_income(paid, premium) :
         w \in decrease_locked(booked, payoff)
  BY DEF settle_premium_into_vault
<1>3. booked = [paid EXCEPT !.total_managed_assets = @ + premium]
  BY <1>2 DEF record_premium_income, When
<1>4. w = [booked EXCEPT !.locked_capital = @ - payoff]
  BY <1>2 DEF decrease_locked, When
<1>5. w.locked_capital = v.locked_capital - payoff
         /\ w.vault_tokens = v.vault_tokens + premium
  BY <1>3, <1>4 DEF WellFormed, VaultType
<1>6. v.locked_capital \in Nat
  BY Numbers
<1> QED
  BY <1>1, <1>5, <1>6 DEF ControllerCall

\* A flight delayed or cancelled: the payout goes out and the collateral is
\* released.
LEMMA SettlePayoutCall ==
    ASSUME NEW v, WellFormed(v), NEW payout_diff \in Nat, NEW payoff \in Nat,
           NEW w \in settle_payout_from_vault(v, payout_diff, payoff)
    PROVE  ControllerCall(v, w, -payoff) /\ w.vault_tokens = v.vault_tokens - payout_diff
<1>1. WellFormed(w) /\ MovesNothing(v, w)
  BY SettlePayoutWellFormed, SettlePayoutMoves
<1>2. PICK paid \in IF payout_diff > 0 THEN send_payout(v, payout_diff) ELSE {v} :
         w \in decrease_locked(paid, payoff)
  BY DEF settle_payout_from_vault
<1>3. w = [paid EXCEPT !.locked_capital = @ - payoff]
  BY <1>2 DEF decrease_locked, When
<1>4. v.locked_capital \in Nat /\ v.vault_tokens \in Nat
  BY Numbers
<1>5. /\ paid.locked_capital = v.locked_capital
      /\ paid.vault_tokens = v.vault_tokens - payout_diff
      /\ WellFormed(paid)
  <2>1. CASE payout_diff > 0
    <3>1. paid = [v EXCEPT !.vault_tokens = @ - payout_diff,
                           !.total_managed_assets = @ - payout_diff]
      BY <1>2, <2>1 DEF send_payout, When
    <3>2. WellFormed(paid)
      BY <1>2, <2>1, SendPayoutWellFormed
    <3> QED
      BY <3>1, <3>2 DEF WellFormed, VaultType
  <2>2. CASE ~(payout_diff > 0)
    BY <1>2, <1>4, <2>2
  <2> QED
    BY <2>1, <2>2
<1>6. w.locked_capital = v.locked_capital - payoff
         /\ w.vault_tokens = v.vault_tokens - payout_diff
  BY <1>3, <1>5 DEF WellFormed, VaultType
<1> QED
  BY <1>1, <1>4, <1>6 DEF ControllerCall

\* The drain and the snapshot lock nothing and release nothing.
LEMMA HousekeepingCall ==
    ASSUME NEW v, WellFormed(v), now \in Time, NEW claimables, NEW day,
           NEW w \in housekeeping(v, claimables, day)
    PROVE  ControllerCall(v, w, 0) /\ w.vault_tokens = v.vault_tokens
<1>1. WellFormed(w) /\ MovesNothing(v, w)
  BY HousekeepingWellFormed, HousekeepingMoves
<1>2. PICK drained \in process_withdrawal_queue(v, claimables) : w \in snapshot(drained, day)
  BY DEF housekeeping
<1>3. WellFormed(drained)
  BY <1>2, ProcessWithdrawalQueueWellFormed
<1>4. /\ drained.locked_capital = v.locked_capital
      /\ drained.vault_tokens = v.vault_tokens
  BY <1>2 DEF process_withdrawal_queue, When, WellFormed, VaultType
<1>5. /\ w.locked_capital = drained.locked_capital
      /\ w.vault_tokens = drained.vault_tokens
  BY <1>2, <1>3 DEF snapshot, When, WellFormed, VaultType
<1>6. v.locked_capital \in Nat
  BY Numbers
<1> QED
  BY <1>1, <1>4, <1>5, <1>6 DEF ControllerCall

\* Calls of the controller, one after the other.
LEMMA ControllerCallTwice ==
    ASSUME NEW u, NEW v, NEW w, NEW m \in Int, NEW n \in Int, WellFormed(u),
           ControllerCall(u, v, m), ControllerCall(v, w, n)
    PROVE  ControllerCall(u, w, m + n)
<1>1. WellFormed(v) /\ WellFormed(w) /\ MovesNothing(u, w)
  BY MovesNothingTwice DEF ControllerCall
<1>2. u.locked_capital \in Int
  BY Numbers
<1> QED
  BY <1>1, <1>2 DEF ControllerCall

-----------------------------------------------------------------------------
(* flight_pool's side.  What one pool adds to each of the books. *)

\* What the treasury holds for a pool.
Share(pool) ==
    IF pool.status = "Active" THEN pool.premium * pool.buyer_count
    ELSE IF pool.status \in Payable
         THEN (pool.buyer_count - pool.claimed_count) * pool.payoff ELSE 0

\* Its policies, their premiums, what the vault added to pay them, and what it
\* keeps locked for them.
Policies(pool) == pool.buyer_count
Premiums(pool) == pool.premium * pool.buyer_count
Payouts(pool) ==
    IF pool.status \in Payable
    THEN pool.payoff * pool.buyer_count - pool.premium * pool.buyer_count ELSE 0
Locks(pool) == IF pool.status = "Active" THEN pool.payoff * pool.buyer_count ELSE 0

\* The books of all pools.
Shares(p) == SumFunction([f \in Flights |-> Share(p.pools[f])])
AllPolicies(p) == SumFunction([f \in Flights |-> Policies(p.pools[f])])
AllPremiums(p) == SumFunction([f \in Flights |-> Premiums(p.pools[f])])
AllPayouts(p) == SumFunction([f \in Flights |-> Payouts(p.pools[f])])
AllLocks(p) == SumFunction([f \in Flights |-> Locks(p.pools[f])])

\* What the treasury holds beyond what the pools and the owner have in it.
Excess(p) == p.pool_treasury - p.recovered_balance - Shares(p)

\* A flight without a pool has no policy, an active pool none that is claimed.
Fresh(pool) ==
    /\ pool.status = NoAccount => pool.buyer_count = 0
    /\ pool.status = "Active" => pool.claimed_count = 0

AllFresh(p) == \A f \in Flights : Fresh(p.pools[f])

\* A pool's numbers.
LEMMA PoolNumbers ==
    ASSUME NEW pool \in FlightPoolAccount
    PROVE  /\ pool.premium \in Nat /\ pool.payoff \in Nat
           /\ pool.buyer_count \in Nat /\ pool.claimed_count \in Nat
           /\ pool.premium * pool.buyer_count \in Nat
           /\ pool.payoff * pool.buyer_count \in Nat
           /\ (pool.buyer_count - pool.claimed_count) * pool.payoff \in Int
<1>1. /\ pool.premium \in Nat /\ pool.payoff \in Nat
      /\ pool.buyer_count \in Nat /\ pool.claimed_count \in Nat
  <2>1. pool.premium \in Nat /\ pool.payoff \in Nat
    BY Amounts DEF FlightPoolAccount
  <2>2. pool.buyer_count \in U32 /\ pool.claimed_count \in U32
    BY DEF FlightPoolAccount
  <2>3. pool.buyer_count \in Nat /\ pool.claimed_count \in Nat
    BY <2>2, ChainAssumption DEF U32
  <2> QED
    BY <2>1, <2>3
<1>2. \A m, n \in Nat : m * n \in Nat
  BY Products
<1>3. \A m \in Int, n \in Nat : m * n \in Int
  OBVIOUS
<1>4. pool.buyer_count - pool.claimed_count \in Int
  BY <1>1
<1> QED
  BY <1>1, <1>2, <1>3, <1>4

\* flight_pool's balances are numbers.
LEMMA Balances ==
    ASSUME NEW p \in FlightPoolType
    PROVE  p.pool_treasury \in Nat /\ p.recovered_balance \in Nat
BY Amounts DEF FlightPoolType

\* One summand less.
LEMMA OneLess ==
    ASSUME NEW m \in Int, NEW n \in Int, NEW k \in Int
    PROVE  (m - (n + 1)) * k = (m - n) * k - k
OBVIOUS

\* So are its summands.
LEMMA SummandNumbers ==
    ASSUME NEW pool \in FlightPoolAccount
    PROVE  /\ Share(pool) \in Int /\ Policies(pool) \in Nat /\ Premiums(pool) \in Nat
           /\ Payouts(pool) \in Int /\ Locks(pool) \in Nat
BY PoolNumbers DEF Share, Policies, Premiums, Payouts, Locks

\* Only one pool differs: each book differs by what that pool adds.
OnlyPool(p, q, f) ==
    /\ p \in FlightPoolType /\ q \in FlightPoolType
    /\ \A g \in Flights \ {f} : q.pools[g] = p.pools[g]

\* Every sum over the pools moves by what the one pool written moves it.
LEMMA SumsFollow ==
    ASSUME NEW p, NEW q, NEW f \in Flights, OnlyPool(p, q, f)
    PROVE  /\ Shares(q) = Shares(p) + (Share(q.pools[f]) - Share(p.pools[f]))
           /\ AllPolicies(q)
                 = AllPolicies(p) + (Policies(q.pools[f]) - Policies(p.pools[f]))
           /\ AllPremiums(q)
                 = AllPremiums(p) + (Premiums(q.pools[f]) - Premiums(p.pools[f]))
           /\ AllPayouts(q) = AllPayouts(p) + (Payouts(q.pools[f]) - Payouts(p.pools[f]))
           /\ AllLocks(q) = AllLocks(p) + (Locks(q.pools[f]) - Locks(p.pools[f]))
<1>1. \A g \in Flights : p.pools[g] \in FlightPoolAccount /\ q.pools[g] \in FlightPoolAccount
  BY PoolFields DEF OnlyPool
<1>2. \A g \in Flights \ {f} : q.pools[g] = p.pools[g]
  BY DEF OnlyPool
<1>3. Shares(q) = Shares(p) + (Share(q.pools[f]) - Share(p.pools[f]))
  <2> DEFINE old == [g \in Flights |-> Share(p.pools[g])]
             new == [g \in Flights |-> Share(q.pools[g])]
  <2>1. DiffersAt(old, new, Flights, f)
    BY <1>1, <1>2, SummandNumbers, FlightsAssumption DEF DiffersAt
  <2>2. new[f] = Share(q.pools[f]) /\ old[f] = Share(p.pools[f])
    OBVIOUS
  <2> HIDE DEF old, new
  <2>3. SumFunction(new) = SumFunction(old) + (new[f] - old[f])
    BY <2>1, SumChange
  <2> QED
    BY <2>2, <2>3 DEF Shares, old, new
<1>4. AllPolicies(q) = AllPolicies(p) + (Policies(q.pools[f]) - Policies(p.pools[f]))
  <2> DEFINE old == [g \in Flights |-> Policies(p.pools[g])]
             new == [g \in Flights |-> Policies(q.pools[g])]
  <2>1. DiffersAt(old, new, Flights, f)
    BY <1>1, <1>2, SummandNumbers, FlightsAssumption DEF DiffersAt
  <2>2. new[f] = Policies(q.pools[f]) /\ old[f] = Policies(p.pools[f])
    OBVIOUS
  <2> HIDE DEF old, new
  <2>3. SumFunction(new) = SumFunction(old) + (new[f] - old[f])
    BY <2>1, SumChange
  <2> QED
    BY <2>2, <2>3 DEF AllPolicies, old, new
<1>5. AllPremiums(q) = AllPremiums(p) + (Premiums(q.pools[f]) - Premiums(p.pools[f]))
  <2> DEFINE old == [g \in Flights |-> Premiums(p.pools[g])]
             new == [g \in Flights |-> Premiums(q.pools[g])]
  <2>1. DiffersAt(old, new, Flights, f)
    BY <1>1, <1>2, SummandNumbers, FlightsAssumption DEF DiffersAt
  <2>2. new[f] = Premiums(q.pools[f]) /\ old[f] = Premiums(p.pools[f])
    OBVIOUS
  <2> HIDE DEF old, new
  <2>3. SumFunction(new) = SumFunction(old) + (new[f] - old[f])
    BY <2>1, SumChange
  <2> QED
    BY <2>2, <2>3 DEF AllPremiums, old, new
<1>6. AllPayouts(q) = AllPayouts(p) + (Payouts(q.pools[f]) - Payouts(p.pools[f]))
  <2> DEFINE old == [g \in Flights |-> Payouts(p.pools[g])]
             new == [g \in Flights |-> Payouts(q.pools[g])]
  <2>1. DiffersAt(old, new, Flights, f)
    BY <1>1, <1>2, SummandNumbers, FlightsAssumption DEF DiffersAt
  <2>2. new[f] = Payouts(q.pools[f]) /\ old[f] = Payouts(p.pools[f])
    OBVIOUS
  <2> HIDE DEF old, new
  <2>3. SumFunction(new) = SumFunction(old) + (new[f] - old[f])
    BY <2>1, SumChange
  <2> QED
    BY <2>2, <2>3 DEF AllPayouts, old, new
<1>7. AllLocks(q) = AllLocks(p) + (Locks(q.pools[f]) - Locks(p.pools[f]))
  <2> DEFINE old == [g \in Flights |-> Locks(p.pools[g])]
             new == [g \in Flights |-> Locks(q.pools[g])]
  <2>1. DiffersAt(old, new, Flights, f)
    BY <1>1, <1>2, SummandNumbers, FlightsAssumption DEF DiffersAt
  <2>2. new[f] = Locks(q.pools[f]) /\ old[f] = Locks(p.pools[f])
    OBVIOUS
  <2> HIDE DEF old, new
  <2>3. SumFunction(new) = SumFunction(old) + (new[f] - old[f])
    BY <2>1, SumChange
  <2> QED
    BY <2>2, <2>3 DEF AllLocks, old, new
<1> QED
  BY <1>3, <1>4, <1>5, <1>6, <1>7

\* The books of all pools are numbers.
LEMMA BookNumbers ==
    ASSUME NEW p \in FlightPoolType
    PROVE  /\ Shares(p) \in Int /\ AllPolicies(p) \in Nat /\ AllPremiums(p) \in Nat
           /\ AllPayouts(p) \in Int /\ AllLocks(p) \in Nat
           /\ \A f \in Flights : Locks(p.pools[f]) <= AllLocks(p)
<1>0. \A f \in Flights : p.pools[f] \in FlightPoolAccount
  BY PoolFields
<1> DEFINE share == [f \in Flights |-> Share(p.pools[f])]
           policies == [f \in Flights |-> Policies(p.pools[f])]
           premiums == [f \in Flights |-> Premiums(p.pools[f])]
           payouts == [f \in Flights |-> Payouts(p.pools[f])]
           locks == [f \in Flights |-> Locks(p.pools[f])]
<1>1. /\ share \in [Flights -> Int] /\ policies \in [Flights -> Nat]
      /\ premiums \in [Flights -> Nat] /\ payouts \in [Flights -> Int]
      /\ locks \in [Flights -> Nat]
      /\ \A f \in Flights : locks[f] = Locks(p.pools[f])
  BY <1>0, SummandNumbers
<1>2. /\ Shares(p) = SumFunction(share) /\ AllPolicies(p) = SumFunction(policies)
      /\ AllPremiums(p) = SumFunction(premiums) /\ AllPayouts(p) = SumFunction(payouts)
      /\ AllLocks(p) = SumFunction(locks)
  BY DEF Shares, AllPolicies, AllPremiums, AllPayouts, AllLocks
<1> HIDE DEF share, policies, premiums, payouts, locks
<1>3. SumFunction(share) \in Int /\ SumFunction(payouts) \in Int
  BY <1>1, SumType, FlightsAssumption
<1>4. SumFunction(policies) \in Nat
  BY <1>1, SumOfNaturals, FlightsAssumption
<1>5. SumFunction(premiums) \in Nat
  BY <1>1, SumOfNaturals, FlightsAssumption
<1>6. SumFunction(locks) \in Nat /\ \A f \in Flights : locks[f] <= SumFunction(locks)
  BY <1>1, SumOfNaturals, FlightsAssumption
<1> QED
  BY <1>1, <1>2, <1>3, <1>4, <1>5, <1>6

\* What a call of flight_pool does to the books: as many policies, premiums,
\* payouts and locked payoffs more, and the treasury backs what it backed.
Booked(p, q, policies, premiums, payouts, locks) ==
    /\ q \in FlightPoolType
    /\ AllFresh(q)
    /\ Excess(q) = Excess(p)
    /\ AllPolicies(q) = AllPolicies(p) + policies
    /\ AllPremiums(q) = AllPremiums(p) + premiums
    /\ AllPayouts(q) = AllPayouts(p) + payouts
    /\ AllLocks(q) = AllLocks(p) + locks

\* It is enough to look at the pool it writes.
LEMMA PoolBooked ==
    ASSUME NEW p \in FlightPoolType, AllFresh(p), NEW f \in Flights,
           NEW pool, NEW records, NEW recovered, NEW treasury, NEW q \in FlightPoolType,
           WroteOnly(p, q, f, pool, records, recovered, treasury),
           Fresh(pool),
           treasury - recovered - Share(pool)
              = p.pool_treasury - p.recovered_balance - Share(p.pools[f]),
           NEW policies, NEW premiums, NEW payouts, NEW locks,
           Policies(pool) = Policies(p.pools[f]) + policies,
           Premiums(pool) = Premiums(p.pools[f]) + premiums,
           Payouts(pool) = Payouts(p.pools[f]) + payouts,
           Locks(pool) = Locks(p.pools[f]) + locks,
           policies \in Int, premiums \in Int, payouts \in Int, locks \in Int
    PROVE  Booked(p, q, policies, premiums, payouts, locks)
<1> DEFINE old == p.pools[f]
<1>1. /\ OnlyPool(p, q, f) /\ q.pools[f] = pool
      /\ q.recovered_balance = recovered /\ q.pool_treasury = treasury
  BY DEF WroteOnly, OnlyPool
<1>2. /\ old \in FlightPoolAccount /\ pool \in FlightPoolAccount
      /\ recovered \in Int /\ treasury \in Int
      /\ p.recovered_balance \in Int /\ p.pool_treasury \in Int
  BY <1>1, PoolFields, Balances
<1>3. /\ Share(old) \in Int /\ Policies(old) \in Int /\ Premiums(old) \in Int
      /\ Payouts(old) \in Int /\ Locks(old) \in Int
      /\ Share(pool) \in Int /\ Policies(pool) \in Int /\ Premiums(pool) \in Int
      /\ Payouts(pool) \in Int /\ Locks(pool) \in Int
  BY <1>2, SummandNumbers
<1>4. /\ Shares(p) \in Int /\ AllPolicies(p) \in Int /\ AllPremiums(p) \in Int
      /\ AllPayouts(p) \in Int /\ AllLocks(p) \in Int
  BY BookNumbers
<1>5. /\ Shares(q) = Shares(p) + (Share(pool) - Share(old))
      /\ AllPolicies(q) = AllPolicies(p) + (Policies(pool) - Policies(old))
      /\ AllPremiums(q) = AllPremiums(p) + (Premiums(pool) - Premiums(old))
      /\ AllPayouts(q) = AllPayouts(p) + (Payouts(pool) - Payouts(old))
      /\ AllLocks(q) = AllLocks(p) + (Locks(pool) - Locks(old))
  BY <1>1, SumsFollow
<1>6. AllFresh(q)
  BY <1>1 DEF AllFresh, OnlyPool
<1>7. Excess(q) = Excess(p)
  <2>1. treasury - recovered - (Shares(p) + (Share(pool) - Share(old)))
           = p.pool_treasury - p.recovered_balance - Shares(p)
    <3> DEFINE before == p.pool_treasury
               reserved == p.recovered_balance
               part == Share(old)
               part2 == Share(pool)
               sum == Shares(p)
    <3>1. /\ before \in Int /\ reserved \in Int /\ part \in Int /\ part2 \in Int
          /\ sum \in Int /\ treasury \in Int /\ recovered \in Int
      BY <1>2, <1>3, <1>4
    <3>2. treasury - recovered - part2 = before - reserved - part
      OBVIOUS
    <3> HIDE DEF before, reserved, part, part2, sum
    <3>3. treasury - recovered - (sum + (part2 - part)) = before - reserved - sum
      BY <3>1, <3>2
    <3> QED
      BY <3>3 DEF before, reserved, part, part2, sum
  <2> QED
    BY <1>1, <1>5, <2>1 DEF Excess
<1>8. /\ AllPolicies(q) = AllPolicies(p) + policies
      /\ AllPremiums(q) = AllPremiums(p) + premiums
      /\ AllPayouts(q) = AllPayouts(p) + payouts
      /\ AllLocks(q) = AllLocks(p) + locks
  BY <1>3, <1>4, <1>5
<1> QED
  BY <1>6, <1>7, <1>8 DEF Booked

\* The books after two calls.
LEMMA BookedTwice ==
    ASSUME NEW p \in FlightPoolType, NEW q, NEW r,
           NEW m1 \in Int, NEW m2 \in Int, NEW m3 \in Int, NEW m4 \in Int,
           NEW n1 \in Int, NEW n2 \in Int, NEW n3 \in Int, NEW n4 \in Int,
           Booked(p, q, m1, m2, m3, m4), Booked(q, r, n1, n2, n3, n4)
    PROVE  Booked(p, r, m1 + n1, m2 + n2, m3 + n3, m4 + n4)
<1>1. /\ AllPolicies(p) \in Int /\ AllPremiums(p) \in Int
      /\ AllPayouts(p) \in Int /\ AllLocks(p) \in Int
  BY BookNumbers
<1> QED
  BY <1>1 DEF Booked

\* claim
LEMMA ClaimBooked ==
    ASSUME NEW p \in FlightPoolType, AllFresh(p), NEW f \in Flights, NEW t \in Travelers,
           NEW q \in claim(p, f, t)
    PROVE  Booked(p, q, 0, 0, 0, 0)
<1> DEFINE old == p.pools[f]
           pool == [old EXCEPT !.claimed_count = @ + 1]
           records == [p.buyers[f] EXCEPT ![t] = "Claimed"]
           treasury == p.pool_treasury - old.payoff
<1>1. /\ q \in FlightPoolType
      /\ WroteOnly(p, q, f, pool, records, p.recovered_balance, treasury)
  BY ClaimPool DEF PoolStep
<1>2. old.status \in Payable /\ old \in FlightPoolAccount
  BY PoolFields DEF claim, When
<1>3. /\ pool.status = old.status /\ pool.premium = old.premium
      /\ pool.payoff = old.payoff /\ pool.buyer_count = old.buyer_count
      /\ pool.claimed_count = old.claimed_count + 1
  BY <1>2 DEF FlightPoolAccount
<1>4. Fresh(pool)
  BY <1>2, <1>3 DEF Fresh, Payable, NoAccount
<1>5. /\ Policies(pool) = Policies(old) /\ Premiums(pool) = Premiums(old)
      /\ Payouts(pool) = Payouts(old) /\ Locks(pool) = Locks(old)
  BY <1>3 DEF Policies, Premiums, Payouts, Locks
<1>6. /\ old.payoff \in Nat /\ old.buyer_count \in Nat /\ old.claimed_count \in Nat
      /\ Policies(old) \in Int /\ Premiums(old) \in Int
      /\ Payouts(old) \in Int /\ Locks(old) \in Int
  <2> HIDE DEF old
  <2> QED
    BY <1>2, PoolNumbers, SummandNumbers
<1>7. /\ Share(old) = (old.buyer_count - old.claimed_count) * old.payoff
      /\ Share(pool) = (old.buyer_count - (old.claimed_count + 1)) * old.payoff
  BY <1>2, <1>3 DEF Share, Payable
<1> HIDE DEF pool, records
<1>8. Share(pool) = Share(old) - old.payoff
  <2>1. /\ old.payoff \in Int /\ old.buyer_count \in Int /\ old.claimed_count \in Int
    BY <1>6
  <2>2. (old.buyer_count - (old.claimed_count + 1)) * old.payoff
           = (old.buyer_count - old.claimed_count) * old.payoff - old.payoff
    BY <2>1, OneLess, Zenon
  <2> QED
    BY <1>7, <2>2
<1>9. Share(old) \in Int
  BY <1>2, SummandNumbers
<1>10. treasury - p.recovered_balance - Share(pool)
          = p.pool_treasury - p.recovered_balance - Share(old)
  BY <1>6, <1>8, <1>9, Balances
<1>11. /\ Policies(pool) = Policies(old) + 0 /\ Premiums(pool) = Premiums(old) + 0
       /\ Payouts(pool) = Payouts(old) + 0 /\ Locks(pool) = Locks(old) + 0
       /\ 0 \in Int
  BY <1>5, <1>6
<1> HIDE DEF treasury
<1> QED
  BY <1>1, <1>4, <1>10, <1>11, PoolBooked

\* sweep_expired
LEMMA SweepBooked ==
    ASSUME NEW p \in FlightPoolType, AllFresh(p), NEW f \in Flights,
           NEW q \in sweep_expired(p, f)
    PROVE  Booked(p, q, 0, 0, 0, 0)
<1> DEFINE old == p.pools[f]
           pool == [old EXCEPT !.claimed_count = old.buyer_count]
           left == (old.buyer_count - old.claimed_count) * old.payoff
           recovered == p.recovered_balance + left
<1>1. /\ q \in FlightPoolType
      /\ WroteOnly(p, q, f, pool, p.buyers[f], recovered, p.pool_treasury)
  BY SweepPool DEF PoolStep
<1>2. old.status \in Payable /\ old \in FlightPoolAccount
  BY PoolFields DEF sweep_expired, When
<1>3. /\ pool.status = old.status /\ pool.premium = old.premium
      /\ pool.payoff = old.payoff /\ pool.buyer_count = old.buyer_count
      /\ pool.claimed_count = old.buyer_count
  BY <1>2 DEF FlightPoolAccount
<1>4. Fresh(pool)
  BY <1>2, <1>3 DEF Fresh, Payable, NoAccount
<1>5. /\ Policies(pool) = Policies(old) /\ Premiums(pool) = Premiums(old)
      /\ Payouts(pool) = Payouts(old) /\ Locks(pool) = Locks(old)
  BY <1>3 DEF Policies, Premiums, Payouts, Locks
<1>6. /\ old.payoff \in Nat /\ old.buyer_count \in Nat /\ left \in Int
      /\ Policies(old) \in Int /\ Premiums(old) \in Int
      /\ Payouts(old) \in Int /\ Locks(old) \in Int
  <2> HIDE DEF old
  <2> QED
    BY <1>2, PoolNumbers, SummandNumbers
<1>7. /\ Share(old) = left
      /\ Share(pool) = (old.buyer_count - old.buyer_count) * old.payoff
  BY <1>2, <1>3 DEF Share, Payable
<1> HIDE DEF pool, left
<1>8. Share(pool) = 0
  BY <1>6, <1>7
<1>9. recovered = p.recovered_balance + left
  OBVIOUS
<1>10. p.pool_treasury - recovered - Share(pool)
          = p.pool_treasury - p.recovered_balance - Share(old)
  BY <1>6, <1>7, <1>8, Balances
<1>11. /\ Policies(pool) = Policies(old) + 0 /\ Premiums(pool) = Premiums(old) + 0
       /\ Payouts(pool) = Payouts(old) + 0 /\ Locks(pool) = Locks(old) + 0
       /\ 0 \in Int
  BY <1>5, <1>6
<1> HIDE DEF recovered
<1> QED
  BY <1>1, <1>4, <1>10, <1>11, PoolBooked

\* withdraw_recovered
LEMMA WithdrawBooked ==
    ASSUME NEW p \in FlightPoolType, AllFresh(p), NEW amount \in U64,
           NEW q \in withdraw_recovered(p, amount)
    PROVE  Booked(p, q, 0, 0, 0, 0)
<1>1. /\ q \in FlightPoolType /\ q.pools = p.pools
      /\ q.pool_treasury = p.pool_treasury - amount
      /\ q.recovered_balance = p.recovered_balance - amount
  BY WithdrawPool
<1>2. /\ Shares(q) = Shares(p) /\ AllPolicies(q) = AllPolicies(p)
      /\ AllPremiums(q) = AllPremiums(p) /\ AllPayouts(q) = AllPayouts(p)
      /\ AllLocks(q) = AllLocks(p) /\ AllFresh(q)
  BY <1>1 DEF Shares, AllPolicies, AllPremiums, AllPayouts, AllLocks, AllFresh
<1>3. /\ Shares(p) \in Int /\ AllPolicies(p) \in Int /\ AllPremiums(p) \in Int
      /\ AllPayouts(p) \in Int /\ AllLocks(p) \in Int
      /\ p.pool_treasury \in Int /\ p.recovered_balance \in Int /\ amount \in Int
  BY BookNumbers, Balances, Amounts
<1>4. Excess(q) = Excess(p)
  BY <1>1, <1>2, <1>3 DEF Excess
<1>5. /\ AllPolicies(p) = AllPolicies(p) + 0 /\ AllPremiums(p) = AllPremiums(p) + 0
      /\ AllPayouts(p) = AllPayouts(p) + 0 /\ AllLocks(p) = AllLocks(p) + 0
  BY <1>3
<1> QED
  BY <1>1, <1>2, <1>4, <1>5 DEF Booked

\* register_pool: a pool without policies adds nothing to the books.
LEMMA RegisterBooked ==
    ASSUME NEW p \in FlightPoolType, AllFresh(p), NEW f \in Flights,
           NEW terms \in ResolvedTerms, NEW q \in register_pool(p, f, terms)
    PROVE  /\ Booked(p, q, 0, 0, 0, 0)
           /\ q.pools[f].premium = terms.premium /\ q.pools[f].payoff = terms.payoff
           /\ q.pool_treasury = p.pool_treasury
<1> DEFINE old == p.pools[f]
           pool == [NoPool EXCEPT !.status = "Active", !.premium = terms.premium,
                                  !.payoff = terms.payoff,
                                  !.delay_hours = terms.delay_hours]
<1>1. /\ q \in FlightPoolType /\ old.status = NoAccount
      /\ WroteOnly(p, q, f, pool, p.buyers[f], p.recovered_balance, p.pool_treasury)
  BY RegisterPool DEF PoolStep
<1>2. old \in FlightPoolAccount
  BY PoolFields
<1>3. /\ pool.status = "Active" /\ pool.premium = terms.premium
      /\ pool.payoff = terms.payoff /\ pool.buyer_count = 0 /\ pool.claimed_count = 0
  BY DEF NoPool
<1>4. q.pools[f] = pool /\ q.pool_treasury = p.pool_treasury
  BY <1>1 DEF WroteOnly
<1>5. old.buyer_count = 0 /\ old.premium \in Nat /\ old.payoff \in Nat
  BY <1>1, <1>2, PoolNumbers DEF AllFresh, Fresh
<1>6. /\ Policies(old) = 0 /\ Premiums(old) = 0 /\ Payouts(old) = 0 /\ Locks(old) = 0
      /\ Share(old) = 0
  BY <1>1, <1>5 DEF Policies, Premiums, Payouts, Locks, Share, Payable, NoAccount
<1>7. terms.premium \in Nat /\ terms.payoff \in Nat
  BY Amounts DEF ResolvedTerms
<1>8. /\ Policies(pool) = 0 /\ Premiums(pool) = 0 /\ Payouts(pool) = 0 /\ Locks(pool) = 0
      /\ Share(pool) = 0 /\ Fresh(pool)
  <2> HIDE DEF pool
  <2> QED
    BY <1>3, <1>7
       DEF Policies, Premiums, Payouts, Locks, Share, Payable, NoAccount, Fresh
<1> HIDE DEF pool
<1>9. /\ p.pool_treasury - p.recovered_balance - Share(pool)
            = p.pool_treasury - p.recovered_balance - Share(old)
      /\ Policies(pool) = Policies(old) + 0 /\ Premiums(pool) = Premiums(old) + 0
      /\ Payouts(pool) = Payouts(old) + 0 /\ Locks(pool) = Locks(old) + 0
      /\ 0 \in Int
  BY <1>6, <1>8
<1>10. Booked(p, q, 0, 0, 0, 0)
  BY <1>1, <1>8, <1>9, PoolBooked
<1> QED
  BY <1>3, <1>4, <1>10

\* add_buyer: one policy more, on the terms of the pool.
LEMMA AddBuyerBooked ==
    ASSUME NEW p \in FlightPoolType, AllFresh(p), NEW f \in Flights, NEW t \in Travelers,
           NEW q \in add_buyer(p, f, t)
    PROVE  /\ Booked(p, q, 1, p.pools[f].premium, 0, p.pools[f].payoff)
           /\ q.pools[f].premium = p.pools[f].premium
           /\ q.pools[f].payoff = p.pools[f].payoff
           /\ q.pool_treasury = p.pool_treasury + p.pools[f].premium
<1> DEFINE old == p.pools[f]
           pool == [old EXCEPT !.buyer_count = @ + 1]
           records == [p.buyers[f] EXCEPT ![t] = "HasPolicy"]
           treasury == p.pool_treasury + old.premium
           n == old.buyer_count
           premium == old.premium
           payoff == old.payoff
<1>1. /\ q \in FlightPoolType
      /\ WroteOnly(p, q, f, pool, records, p.recovered_balance, treasury)
  BY AddBuyerPool DEF PoolStep
<1>2. old.status = "Active" /\ old \in FlightPoolAccount /\ Fresh(old)
  BY PoolFields DEF add_buyer, When, AllFresh
<1>3. /\ pool.status = "Active" /\ pool.premium = premium /\ pool.payoff = payoff
      /\ pool.buyer_count = n + 1 /\ pool.claimed_count = old.claimed_count
  BY <1>2 DEF FlightPoolAccount
<1>4. Fresh(pool)
  BY <1>2, <1>3 DEF Fresh, NoAccount
<1>5. premium \in Nat /\ payoff \in Nat /\ n \in Nat
  <2> HIDE DEF old
  <2> QED
    BY <1>2, PoolNumbers
<1>6. /\ Policies(old) = n /\ Premiums(old) = premium * n /\ Payouts(old) = 0
      /\ Locks(old) = payoff * n /\ Share(old) = premium * n
  BY <1>2 DEF Policies, Premiums, Payouts, Locks, Share, Payable
<1>7. /\ Policies(pool) = n + 1 /\ Premiums(pool) = premium * (n + 1) /\ Payouts(pool) = 0
      /\ Locks(pool) = payoff * (n + 1) /\ Share(pool) = premium * (n + 1)
  <2> HIDE DEF pool, n, premium, payoff
  <2> QED
    BY <1>3 DEF Policies, Premiums, Payouts, Locks, Share, Payable
<1>8. treasury = p.pool_treasury + premium
  OBVIOUS
<1> HIDE DEF pool, records, treasury
<1>9. /\ Policies(pool) = Policies(old) + 1 /\ Premiums(pool) = Premiums(old) + premium
      /\ Payouts(pool) = Payouts(old) + 0 /\ Locks(pool) = Locks(old) + payoff
      /\ treasury - p.recovered_balance - Share(pool)
            = p.pool_treasury - p.recovered_balance - Share(old)
  <2> HIDE DEF old, n, premium, payoff
  <2>1. premium * (n + 1) = premium * n + premium /\ payoff * (n + 1) = payoff * n + payoff
           /\ premium * n \in Int /\ payoff * n \in Int
    BY <1>5
  <2>2. p.pool_treasury \in Nat /\ p.recovered_balance \in Nat
    BY Balances
  <2> QED
    BY <1>5, <1>6, <1>7, <1>8, <2>1, <2>2
<1>10. 1 \in Int /\ premium \in Int /\ 0 \in Int /\ payoff \in Int
  BY <1>5
<1>11. q.pools[f] = pool /\ q.pool_treasury = treasury
  BY <1>1 DEF WroteOnly
<1>12. Booked(p, q, 1, premium, 0, payoff)
  BY <1>1, <1>4, <1>9, <1>10, PoolBooked
<1> QED
  BY <1>3, <1>8, <1>11, <1>12

\* The two of them, in buy_insurance: the policy is sold on the terms of the
\* route, or on those of the pool if there is one.
LEMMA SaleBooked ==
    ASSUME NEW p \in FlightPoolType, AllFresh(p), NEW f \in Flights, NEW t \in Travelers,
           NEW terms \in ResolvedTerms, NEW mid \in PoolForBuyer(p, f, terms),
           NEW q \in add_buyer(mid, f, t)
    PROVE  LET sold == IF p.pools[f].status = NoAccount THEN terms ELSE p.pools[f]
           IN  /\ Booked(p, q, 1, sold.premium, 0, sold.payoff)
               /\ q.pools[f].premium = sold.premium /\ q.pools[f].payoff = sold.payoff
               /\ q.pool_treasury = p.pool_treasury + sold.premium
<1>2. CASE p.pools[f].status = NoAccount
  <2>1. mid \in register_pool(p, f, terms)
    BY <1>2 DEF PoolForBuyer
  <2>2. /\ Booked(p, mid, 0, 0, 0, 0)
        /\ mid.pools[f].premium = terms.premium /\ mid.pools[f].payoff = terms.payoff
        /\ mid.pool_treasury = p.pool_treasury
    BY <2>1, RegisterBooked
  <2>3. mid \in FlightPoolType /\ AllFresh(mid)
    BY <2>2 DEF Booked
  <2>4. /\ Booked(mid, q, 1, terms.premium, 0, terms.payoff)
        /\ q.pools[f].premium = terms.premium /\ q.pools[f].payoff = terms.payoff
        /\ q.pool_treasury = p.pool_treasury + terms.premium
    BY <2>2, <2>3, AddBuyerBooked
  <2>5. terms.premium \in Int /\ terms.payoff \in Int /\ 0 \in Int /\ 1 \in Int
    <3>1. terms.premium \in Nat /\ terms.payoff \in Nat
      BY Amounts DEF ResolvedTerms
    <3> QED
      BY <3>1
  <2>6. Booked(p, q, 0 + 1, 0 + terms.premium, 0 + 0, 0 + terms.payoff)
    BY <2>2, <2>4, <2>5, BookedTwice
  <2>7. 0 + 1 = 1 /\ 0 + terms.premium = terms.premium /\ 0 + 0 = 0
           /\ 0 + terms.payoff = terms.payoff
    BY <2>5
  <2>8. Booked(p, q, 1, terms.premium, 0, terms.payoff)
    BY <2>6, <2>7
  <2> QED
    BY <1>2, <2>4, <2>8
<1>3. CASE p.pools[f].status # NoAccount
  <2>1. mid = p
    BY <1>3 DEF PoolForBuyer
  <2> QED
    BY <1>3, <2>1, AddBuyerBooked
<1> QED
  BY <1>2, <1>3

-----------------------------------------------------------------------------
(* execute_settlements: the money that moves with a flight. *)

\* How settle_flight closes a pool, and what a batch does to the pools: each is
\* left alone or closed, and no record changes.
Closed(pool, pool2) ==
    /\ pool.status = "Active"
    /\ \/ pool2 = [pool EXCEPT !.status = "SettledOnTime"]
       \/ \E status \in Payable : pool2 = OpenPool(pool, status, now + CLAIM_EXPIRY_WINDOW)

Closes(p, q) ==
    /\ q.buyers = p.buyers /\ q.recovered_balance = p.recovered_balance
    /\ \A f \in Flights : q.pools[f] = p.pools[f] \/ Closed(p.pools[f], q.pools[f])

\* A closed pool is not active.
LEMMA ClosedOnce ==
    ASSUME NEW pool \in FlightPoolAccount, NEW pool2, Closed(pool, pool2)
    PROVE  pool2.status # "Active" /\ pool2.status # NoAccount
<1>1. CASE pool2 = [pool EXCEPT !.status = "SettledOnTime"]
  BY <1>1 DEF FlightPoolAccount, NoAccount
<1>2. ASSUME NEW status \in Payable,
             pool2 = OpenPool(pool, status, now + CLAIM_EXPIRY_WINDOW)
      PROVE  pool2.status # "Active" /\ pool2.status # NoAccount
  BY <1>2 DEF FlightPoolAccount, OpenPool, Payable, NoAccount
<1> QED
  BY <1>1, <1>2 DEF Closed

\* One pool is enough, and no pool is closed twice.
LEMMA OneCloses ==
    ASSUME NEW p \in FlightPoolType, NEW q \in FlightPoolType, NEW f \in Flights, NEW pool,
           NEW treasury,
           WroteOnly(p, q, f, pool, p.buyers[f], p.recovered_balance, treasury),
           Closed(p.pools[f], pool)
    PROVE  Closes(p, q)
<1>1. q.buyers = p.buyers
  <2>1. \A g \in Flights : q.buyers[g] = p.buyers[g]
    BY DEF WroteOnly
  <2>2. /\ p.buyers \in [Flights -> [Travelers -> BuyerRecord]]
        /\ q.buyers \in [Flights -> [Travelers -> BuyerRecord]]
    BY DEF FlightPoolType
  <2> QED
    BY <2>1, <2>2
<1> QED
  BY <1>1 DEF Closes, WroteOnly

\* Two closings in a row are one.
LEMMA ClosesTwice ==
    ASSUME NEW p \in FlightPoolType, NEW q, NEW r, Closes(p, q), Closes(q, r)
    PROVE  Closes(p, r)
<1>1. ASSUME NEW f \in Flights
      PROVE  r.pools[f] = p.pools[f] \/ Closed(p.pools[f], r.pools[f])
  <2>1. p.pools[f] \in FlightPoolAccount
    BY PoolFields
  <2>2. Closed(p.pools[f], q.pools[f]) => ~Closed(q.pools[f], r.pools[f])
    BY <2>1, ClosedOnce DEF Closed
  <2> QED
    BY <2>2 DEF Closes
<1> QED
  BY <1>1 DEF Closes

\* What the calls of a batch thread through the flights.
InBooks(w) ==
    /\ IsWork(w)
    /\ WellFormed(w.vault)
    /\ AllFresh(w.flight_pool)
    /\ w.paid \in Nat

\* What the settlement of flights does to the books: no holding of an LP moves,
\* no policy or premium appears, payouts are counted as they are paid, capital
\* is released as flights stop being active, the treasury backs what it backed,
\* and what leaves one program's account enters the other's.
Settles(w, x) ==
    /\ MovesNothing(w.vault, x.vault)
    /\ Closes(w.flight_pool, x.flight_pool)
    /\ Excess(x.flight_pool) = Excess(w.flight_pool)
    /\ AllPolicies(x.flight_pool) = AllPolicies(w.flight_pool)
    /\ AllPremiums(x.flight_pool) = AllPremiums(w.flight_pool)
    /\ x.paid - AllPayouts(x.flight_pool) = w.paid - AllPayouts(w.flight_pool)
    /\ x.vault.locked_capital - AllLocks(x.flight_pool)
          = w.vault.locked_capital - AllLocks(w.flight_pool)
    /\ x.vault.vault_tokens + x.flight_pool.pool_treasury
          = w.vault.vault_tokens + w.flight_pool.pool_treasury

\* It is enough that the vault's call and flight_pool's agree on the amounts.
LEMMA CallsSettle ==
    ASSUME NEW w, InBooks(w), NEW x, IsWork(x),
           NEW paid \in Nat, NEW released \in Int, NEW sent \in Int,
           Booked(w.flight_pool, x.flight_pool, 0, 0, paid, -released),
           Closes(w.flight_pool, x.flight_pool),
           ControllerCall(w.vault, x.vault, -released),
           x.paid = w.paid + paid,
           x.vault.vault_tokens = w.vault.vault_tokens - sent,
           x.flight_pool.pool_treasury = w.flight_pool.pool_treasury + sent
    PROVE  InBooks(x) /\ Settles(w, x)
<1> DEFINE p == w.flight_pool
           q == x.flight_pool
<1>1. /\ p \in FlightPoolType /\ w.paid \in Nat
      /\ w.vault.locked_capital \in Int /\ w.vault.vault_tokens \in Int
  BY Numbers DEF InBooks, IsWork
<1>2. /\ AllPolicies(p) \in Int /\ AllPremiums(p) \in Int
      /\ AllPayouts(p) \in Int /\ AllLocks(p) \in Int /\ p.pool_treasury \in Int
  BY <1>1, BookNumbers, Balances
<1>3. /\ Excess(q) = Excess(p) /\ AllPolicies(q) = AllPolicies(p) + 0
      /\ AllPremiums(q) = AllPremiums(p) + 0 /\ AllPayouts(q) = AllPayouts(p) + paid
      /\ AllLocks(q) = AllLocks(p) + (-released) /\ AllFresh(q)
  BY DEF Booked
<1>4. /\ MovesNothing(w.vault, x.vault) /\ WellFormed(x.vault)
      /\ x.vault.locked_capital = w.vault.locked_capital + (-released)
  BY DEF ControllerCall
<1>5. x.paid \in Nat
  BY <1>1
<1>6. /\ AllPolicies(q) = AllPolicies(p) /\ AllPremiums(q) = AllPremiums(p)
      /\ x.paid - AllPayouts(q) = w.paid - AllPayouts(p)
  BY <1>1, <1>2, <1>3
<1>7. x.vault.locked_capital - AllLocks(q) = w.vault.locked_capital - AllLocks(p)
  BY <1>1, <1>2, <1>3, <1>4
<1>8. x.vault.vault_tokens + q.pool_treasury = w.vault.vault_tokens + p.pool_treasury
  BY <1>1, <1>2
<1> QED
  BY <1>3, <1>4, <1>5, <1>6, <1>7, <1>8 DEF InBooks, Settles

\* The totals of a flight's pool, as the controller computes them.
LEMMA TotalNumbers ==
    ASSUME NEW p \in FlightPoolType, NEW f \in Flights
    PROVE  /\ TotalPremium(p, f) = p.pools[f].premium * p.pools[f].buyer_count
           /\ TotalPayoff(p, f) = p.pools[f].payoff * p.pools[f].buyer_count
           /\ TotalPremium(p, f) \in Nat /\ TotalPayoff(p, f) \in Nat
           /\ PayoutDiff(p, f) = TotalPayoff(p, f) - TotalPremium(p, f)
<1>1. p.pools[f] \in FlightPoolAccount
  BY PoolFields
<1> QED
  BY <1>1, PoolNumbers DEF TotalPremium, TotalPayoff, PayoutDiff

\* settle_on_time: the pool's premiums leave the treasury.
LEMMA OnTimeBooked ==
    ASSUME NEW p \in FlightPoolType, AllFresh(p), NEW f \in Flights,
           NEW q \in settle_on_time(p, f)
    PROVE  /\ Booked(p, q, 0, 0, 0, -TotalPayoff(p, f)) /\ Closes(p, q)
           /\ q.pool_treasury = p.pool_treasury - TotalPremium(p, f)
<1> DEFINE old == p.pools[f]
           pool == [old EXCEPT !.status = "SettledOnTime"]
           premiums == TotalPremium(p, f)
           payoffs == TotalPayoff(p, f)
           treasury == p.pool_treasury - premiums
<1>1. /\ q \in FlightPoolType
      /\ WroteOnly(p, q, f, pool, p.buyers[f], p.recovered_balance, treasury)
  BY SettleOnTimePool DEF PoolStep
<1>2. old.status = "Active" /\ old \in FlightPoolAccount
  BY PoolFields DEF settle_on_time, When
<1>3. /\ pool.status = "SettledOnTime" /\ pool.premium = old.premium
      /\ pool.buyer_count = old.buyer_count
  BY <1>2 DEF FlightPoolAccount
<1>4. /\ premiums = old.premium * old.buyer_count
      /\ payoffs = old.payoff * old.buyer_count
      /\ premiums \in Int /\ payoffs \in Int
  BY TotalNumbers
<1>5. old.buyer_count \in Nat
  <2> HIDE DEF old
  <2> QED
    BY <1>2, PoolNumbers
<1>6. /\ Fresh(pool) /\ Policies(pool) = old.buyer_count
      /\ Premiums(pool) = premiums /\ Payouts(pool) = 0 /\ Locks(pool) = 0
      /\ Share(pool) = 0
  <2> HIDE DEF pool, old
  <2> QED
    BY <1>3, <1>4
       DEF Fresh, Policies, Premiums, Payouts, Locks, Share, Payable, NoAccount
<1>7. /\ Policies(old) = old.buyer_count /\ Premiums(old) = premiums
      /\ Payouts(old) = 0 /\ Locks(old) = payoffs /\ Share(old) = premiums
  <2> HIDE DEF old
  <2> QED
    BY <1>2, <1>4 DEF Policies, Premiums, Payouts, Locks, Share, Payable
<1>8. q.pool_treasury = treasury /\ treasury = p.pool_treasury - premiums
  BY <1>1 DEF WroteOnly
<1>12. Closes(p, q)
  <2>1. Closed(old, pool)
    BY <1>2 DEF Closed
  <2> HIDE DEF pool, treasury
  <2> QED
    BY <1>1, <2>1, OneCloses
<1> HIDE DEF pool, premiums, payoffs, treasury
<1>9. /\ Policies(pool) = Policies(old) + 0 /\ Premiums(pool) = Premiums(old) + 0
      /\ Payouts(pool) = Payouts(old) + 0 /\ Locks(pool) = Locks(old) + (-payoffs)
      /\ 0 \in Int /\ -payoffs \in Int
  BY <1>4, <1>5, <1>6, <1>7
<1>10. treasury - p.recovered_balance - Share(pool)
          = p.pool_treasury - p.recovered_balance - Share(old)
  BY <1>4, <1>6, <1>7, <1>8, Balances
<1>11. Booked(p, q, 0, 0, 0, -payoffs)
  BY <1>1, <1>6, <1>9, <1>10, PoolBooked
<1> QED
  BY <1>8, <1>11, <1>12 DEF premiums, payoffs

\* The payout enters the treasury, then settle_delayed or settle_cancelled
\* makes the payoffs of the pool claimable.
LEMMA WindowBooked ==
    ASSUME NEW p \in FlightPoolType, AllFresh(p), NEW f \in Flights,
           p.pools[f].status = "Active", NEW mid \in PayoutReceived(p, f),
           NEW claim_expiry \in Nat, NEW status \in Payable,
           NEW q, q = WindowOpened(mid, f, status, claim_expiry)
    PROVE  /\ Booked(p, q, 0, 0, PayoutDiff(p, f), -TotalPayoff(p, f))
           /\ claim_expiry = now + CLAIM_EXPIRY_WINDOW => Closes(p, q)
           /\ q.pool_treasury = p.pool_treasury + PayoutDiff(p, f)
<1> DEFINE old == p.pools[f]
           pool == OpenPool(old, status, claim_expiry)
           premiums == TotalPremium(p, f)
           payoffs == TotalPayoff(p, f)
           diff == PayoutDiff(p, f)
           treasury == p.pool_treasury + diff
<1>1. /\ mid \in FlightPoolType /\ mid.pools = p.pools /\ mid.buyers = p.buyers
      /\ mid.recovered_balance = p.recovered_balance /\ mid.pool_treasury = treasury
  BY DEF PayoutReceived, When, FlightPoolType
<1>2. /\ q \in FlightPoolType
      /\ WroteOnly(mid, q, f, OpenPool(mid.pools[f], status, claim_expiry),
                   mid.buyers[f], mid.recovered_balance, mid.pool_treasury)
  BY <1>1, OpenWindowPool DEF PoolStep
<1>3. WroteOnly(p, q, f, pool, p.buyers[f], p.recovered_balance, treasury)
  <2> HIDE DEF treasury
  <2> QED
    BY <1>1, <1>2 DEF WroteOnly
<1>4. old.status = "Active" /\ old \in FlightPoolAccount /\ old.claimed_count = 0
  BY PoolFields DEF AllFresh, Fresh
<1>5. /\ pool.status = status /\ pool.premium = old.premium /\ pool.payoff = old.payoff
      /\ pool.buyer_count = old.buyer_count /\ pool.claimed_count = 0
  BY <1>4 DEF OpenPool, FlightPoolAccount
<1>6. /\ premiums = old.premium * old.buyer_count
      /\ payoffs = old.payoff * old.buyer_count
      /\ premiums \in Int /\ payoffs \in Int /\ diff = payoffs - premiums
  BY TotalNumbers
<1>7. old.buyer_count \in Nat /\ old.payoff \in Nat
  <2> HIDE DEF old
  <2> QED
    BY <1>4, PoolNumbers
<1>8. /\ Fresh(pool) /\ Policies(pool) = old.buyer_count
      /\ Premiums(pool) = premiums /\ Payouts(pool) = payoffs - premiums
      /\ Locks(pool) = 0 /\ Share(pool) = (old.buyer_count - 0) * old.payoff
  <2> HIDE DEF pool, old, premiums, payoffs
  <2> QED
    BY <1>5, <1>6
       DEF Fresh, Policies, Premiums, Payouts, Locks, Share, Payable, NoAccount
<1>9. /\ Policies(old) = old.buyer_count /\ Premiums(old) = premiums
      /\ Payouts(old) = 0 /\ Locks(old) = payoffs /\ Share(old) = premiums
  <2> HIDE DEF old
  <2> QED
    BY <1>4, <1>6 DEF Policies, Premiums, Payouts, Locks, Share, Payable
<1>10. Share(pool) = payoffs
  <2> HIDE DEF old, pool, payoffs, premiums
  <2> QED
    BY <1>6, <1>7, <1>8
<1>11. q.pool_treasury = treasury /\ treasury = p.pool_treasury + diff
  BY <1>3 DEF WroteOnly
<1>15. ASSUME claim_expiry = now + CLAIM_EXPIRY_WINDOW PROVE Closes(p, q)
  <2>1. Closed(old, pool)
    BY <1>4, <1>15 DEF Closed
  <2> HIDE DEF pool, treasury
  <2> QED
    BY <1>2, <1>3, <2>1, OneCloses
<1> HIDE DEF pool, premiums, payoffs, diff, treasury
<1>12. /\ Policies(pool) = Policies(old) + 0 /\ Premiums(pool) = Premiums(old) + 0
       /\ Payouts(pool) = Payouts(old) + diff /\ Locks(pool) = Locks(old) + (-payoffs)
       /\ 0 \in Int /\ diff \in Int /\ -payoffs \in Int
  BY <1>6, <1>7, <1>8, <1>9
<1>13. treasury - p.recovered_balance - Share(pool)
          = p.pool_treasury - p.recovered_balance - Share(old)
  BY <1>6, <1>9, <1>10, <1>11, Balances
<1>14. Booked(p, q, 0, 0, diff, -payoffs)
  BY <1>2, <1>3, <1>8, <1>12, <1>13, PoolBooked
<1> QED
  BY <1>11, <1>14, <1>15 DEF payoffs, diff

\* settle_on_time_branch
LEMMA OnTimeSettles ==
    ASSUME NEW w, InBooks(w), NEW f \in Flights, NEW x \in settle_on_time_branch(w, f)
    PROVE  InBooks(x) /\ Settles(w, x)
<1> DEFINE p == w.flight_pool
           premiums == TotalPremium(p, f)
           payoffs == TotalPayoff(p, f)
<1>1. PICK q \in settle_on_time(p, f),
           v \in settle_premium_into_vault(w.vault, premiums, payoffs) :
         x = [w EXCEPT !.flight_pool = q, !.vault = v]
  BY DEF settle_on_time_branch
<1>2. /\ IsWork(w) /\ p \in FlightPoolType /\ AllFresh(p) /\ WellFormed(w.vault)
      /\ w.paid \in Nat
  BY DEF InBooks, IsWork
<1>3. x.flight_pool = q /\ x.vault = v /\ x.paid = w.paid
  BY <1>1, <1>2 DEF IsWork
<1>4. IsWork(x)
  BY <1>2, OnTimeBranch
<1>5. premiums \in Nat /\ payoffs \in Nat
  BY <1>2, TotalNumbers
<1>6. /\ Booked(p, q, 0, 0, 0, -payoffs) /\ Closes(p, q)
      /\ q.pool_treasury = p.pool_treasury - premiums
  BY <1>2, OnTimeBooked
<1>7. /\ ControllerCall(w.vault, v, -payoffs)
      /\ v.vault_tokens = w.vault.vault_tokens + premiums
  <2> HIDE DEF premiums, payoffs
  <2> QED
    BY <1>2, <1>5, SettlePremiumCall
<1> HIDE DEF premiums, payoffs
<1>8. /\ q.pool_treasury = p.pool_treasury + (-premiums)
      /\ v.vault_tokens = w.vault.vault_tokens - (-premiums)
      /\ x.paid = w.paid + 0 /\ -premiums \in Int /\ payoffs \in Int /\ 0 \in Nat
  <2>1. p.pool_treasury \in Int /\ w.vault.vault_tokens \in Int
    BY <1>2, Balances, Numbers
  <2> QED
    BY <1>2, <1>3, <1>5, <1>6, <1>7, <2>1
<1> QED
  BY <1>3, <1>4, <1>6, <1>7, <1>8, CallsSettle

\* settle_payout_branch
LEMMA PayoutSettles ==
    ASSUME NEW w, InBooks(w), NEW f \in Flights, now \in Time,
           PayoutDiff(w.flight_pool, f) >= 0,
           NEW variant \in {"Delayed", "Cancelled"},
           NEW x \in settle_payout_branch(w, f, variant)
    PROVE  InBooks(x) /\ Settles(w, x)
<1> DEFINE p == w.flight_pool
           diff == PayoutDiff(p, f)
           payoffs == TotalPayoff(p, f)
           claim_expiry == now + CLAIM_EXPIRY_WINDOW
           status == IF variant = "Delayed" THEN "SettledDelayed" ELSE "SettledCancelled"
           settle(q) == IF variant = "Delayed" THEN settle_delayed(q, f, claim_expiry)
                                               ELSE settle_cancelled(q, f, claim_expiry)
<1>0. PICK q2 \in UNION {settle(q) : q \in PayoutReceived(p, f)},
           v \in settle_payout_from_vault(w.vault, diff, payoffs) :
         x = [w EXCEPT !.flight_pool = q2, !.vault = v, !.paid = @ + diff]
  BY DEF settle_payout_branch
<1>1. PICK q \in PayoutReceived(p, f) : q2 \in settle(q)
  BY <1>0
<1>2. /\ IsWork(w) /\ p \in FlightPoolType /\ AllFresh(p) /\ WellFormed(w.vault)
      /\ w.paid \in Nat
  BY DEF InBooks, IsWork
<1>3. x.flight_pool = q2 /\ x.vault = v /\ x.paid = w.paid + diff
  BY <1>0, <1>2 DEF IsWork
<1>4. IsWork(x)
  BY <1>2, PayoutBranch
<1>5. diff \in Nat /\ payoffs \in Nat
  <2>1. payoffs \in Nat /\ TotalPremium(p, f) \in Nat /\ diff = payoffs - TotalPremium(p, f)
    BY <1>2, TotalNumbers
  <2> HIDE DEF diff, payoffs
  <2> QED
    BY <2>1 DEF diff
<1>6. p.pools[f].status = "Active"
  <2>1. q.pools = p.pools
    BY <1>1, <1>2, PayoutEnters
  <2>2. q.pools[f].status = "Active"
    BY <1>1 DEF settle_delayed, settle_cancelled, When
  <2> QED
    BY <2>1, <2>2
<1>7. q2 = WindowOpened(q, f, status, claim_expiry)
  BY <1>1 DEF settle_delayed, settle_cancelled, When, WindowOpened
<1>8. claim_expiry \in Nat /\ status \in Payable
  BY ChainAssumption, ControllerAssumption DEF Time, Payable
<1>9. /\ Booked(p, q2, 0, 0, diff, -payoffs) /\ Closes(p, q2)
      /\ q2.pool_treasury = p.pool_treasury + diff
  <2>1. claim_expiry = now + CLAIM_EXPIRY_WINDOW
    OBVIOUS
  <2> HIDE DEF claim_expiry, status
  <2> QED
    BY <1>1, <1>2, <1>6, <1>7, <1>8, <2>1, WindowBooked
<1>10. /\ ControllerCall(w.vault, v, -payoffs)
       /\ v.vault_tokens = w.vault.vault_tokens - diff
  <2> HIDE DEF diff, payoffs
  <2> QED
    BY <1>0, <1>2, <1>5, SettlePayoutCall
<1> HIDE DEF diff, payoffs
<1>11. diff \in Int /\ payoffs \in Int
  BY <1>5
<1> QED
  BY <1>3, <1>4, <1>5, <1>9, <1>10, <1>11, CallsSettle

\* Nothing settles nothing, and settlements add up.
LEMMA SettlesTwice ==
    /\ \A w : InBooks(w) => Settles(w, w)
    /\ \A w, x, y : InBooks(w) /\ InBooks(x) /\ InBooks(y) /\ Settles(w, x) /\ Settles(x, y)
                       => Settles(w, y)
<1>1. ASSUME NEW w, InBooks(w) PROVE Settles(w, w)
  <2>1. w.vault.vault_tokens \in Nat /\ w.vault.total_managed_assets \in Nat
    BY <1>1, Numbers DEF InBooks
  <2>2. MovesNothing(w.vault, w.vault)
    BY <2>1 DEF MovesNothing
  <2>3. Closes(w.flight_pool, w.flight_pool)
    BY DEF Closes
  <2> QED
    BY <2>2, <2>3 DEF Settles
<1>2. ASSUME NEW w, NEW x, NEW y, InBooks(w), InBooks(x), InBooks(y),
             Settles(w, x), Settles(x, y)
      PROVE  Settles(w, y)
  <2>1. MovesNothing(w.vault, y.vault)
    BY <1>2, MovesNothingTwice DEF InBooks, Settles
  <2>2. Closes(w.flight_pool, y.flight_pool)
    BY <1>2, ClosesTwice DEF InBooks, IsWork, Settles
  <2> QED
    BY <1>2, <2>1, <2>2 DEF Settles
<1> QED
  BY <1>1, <1>2

\* settle_flight
LEMMA FlightSettles ==
    ASSUME NEW w, InBooks(w), NEW f \in Flights, now \in Time,
           AllInStep(w.oracle, w.flight_pool), NEW y \in settle_flight(w, f)
    PROVE  /\ InBooks(y) /\ Settles(w, y)
           /\ AllInStep(y.oracle, y.flight_pool)
<1> DEFINE fd == w.oracle[f]
           branch == CASE fd.status = "ToBeSettledOnTime" -> settle_on_time_branch(w, f)
                       [] fd.status = "ToBeSettledDelayed" ->
                             settle_payout_branch(w, f, "Delayed")
                       [] fd.status = "ToBeSettledCancelled" ->
                             settle_payout_branch(w, f, "Cancelled")
                       [] OTHER -> {}
<1>1. /\ PayoutDiff(w.flight_pool, f) >= 0
      /\ \E x \in branch, o2 \in set_settled(w.oracle, f) : y = [x EXCEPT !.oracle = o2]
  BY DEF settle_flight
<1>2. PICK x \in branch, o2 \in set_settled(w.oracle, f) : y = [x EXCEPT !.oracle = o2]
  BY <1>1
<1>3. IsWork(w) /\ w.oracle \in [Flights -> FlightData] /\ w.flight_pool \in FlightPoolType
  BY DEF InBooks, IsWork
<1>4. fd.status \in ToBeSettled
  BY DEF set_settled, When
<1>5. InBooks(x) /\ Settles(w, x)
  <2>1. CASE fd.status = "ToBeSettledOnTime"
    BY <2>1, OnTimeSettles
  <2>2. CASE fd.status = "ToBeSettledDelayed"
    BY <1>1, <2>2, PayoutSettles
  <2>3. CASE fd.status = "ToBeSettledCancelled"
    BY <1>1, <2>3, PayoutSettles
  <2> QED
    BY <1>4, <2>1, <2>2, <2>3 DEF ToBeSettled
<1>6. y.vault = x.vault /\ y.flight_pool = x.flight_pool /\ y.paid = x.paid
  BY <1>2, <1>5 DEF InBooks, IsWork
<1>7. /\ IsWork(y)
      /\ FlightMove(f, w.oracle, w.flight_pool, y.oracle, y.flight_pool)
  BY <1>3, SettleFlightMove
<1>8. AllInStep(y.oracle, y.flight_pool)
  BY <1>3, <1>7, OneFlightMoves
<1> QED
  BY <1>5, <1>6, <1>7, <1>8 DEF InBooks, Settles

\* The flights of a batch, in order.
LEMMA BatchSettles ==
    ASSUME NEW w, InBooks(w), now \in Time, AllInStep(w.oracle, w.flight_pool),
           NEW batch \in Batches, NEW y \in settle_batch(w, batch)
    PROVE  InBooks(y) /\ Settles(w, y)
<1>1. CASE batch = << >> /\ Len(batch) = 0
  <2>1. y = w
    BY <1>1 DEF settle_batch
  <2> QED
    BY <2>1, SettlesTwice
<1>2. CASE batch # << >> /\ Len(batch) = 1 /\ batch[1] \in Flights
  <2>1. y \in settle_flight(w, batch[1])
    BY <1>2 DEF settle_batch
  <2> QED
    BY <1>2, <2>1, FlightSettles
<1>3. CASE /\ batch # << >> /\ Len(batch) = 2
           /\ batch[1] \in Flights /\ batch[2] \in Flights
  <2>1. PICK x \in settle_flight(w, batch[1]) : y \in settle_flight(x, batch[2])
    BY <1>3 DEF settle_batch
  <2>2. InBooks(x) /\ Settles(w, x) /\ AllInStep(x.oracle, x.flight_pool)
    BY <1>3, FlightSettles
  <2>3. InBooks(y) /\ Settles(x, y)
    BY <1>3, <2>1, <2>2, FlightSettles
  <2> QED
    BY <2>2, <2>3, SettlesTwice
<1> QED
  BY <1>1, <1>2, <1>3, BatchCases

-----------------------------------------------------------------------------
(* Every transaction, in the books. *)

Counts(c, policies, premiums, payouts) ==
    /\ c.total_policies_sold = controller.total_policies_sold + policies
    /\ c.total_premiums_collected = controller.total_premiums_collected + premiums
    /\ c.total_payouts_distributed = controller.total_payouts_distributed + payouts
    /\ c.total_policies_sold \in U64 /\ c.total_premiums_collected \in U64
    /\ c.total_payouts_distributed \in U64

\* A sale that is accepted, and a settlement, are counted within u64.
LEMMA CountsSale ==
    ASSUME controller \in ControllerType, NEW list, NEW amount,
           controller' \in CountSale([controller EXCEPT !.active_flights = list], amount)
    PROVE  Counts(controller', 1, amount, 0)
<1> DEFINE c == [controller EXCEPT !.active_flights = list]
<1>1. /\ c.total_policies_sold = controller.total_policies_sold
      /\ c.total_premiums_collected = controller.total_premiums_collected
      /\ c.total_payouts_distributed = controller.total_payouts_distributed
      /\ c = [ active_flights            |-> c.active_flights,
               total_policies_sold       |-> c.total_policies_sold,
               total_premiums_collected  |-> c.total_premiums_collected,
               total_payouts_distributed |-> c.total_payouts_distributed ]
  BY DEF ControllerType
<1> HIDE DEF c
<1>2. /\ c.total_policies_sold + 1 \in U64 /\ c.total_premiums_collected + amount \in U64
      /\ controller' = [c EXCEPT !.total_policies_sold = @ + 1,
                                 !.total_premiums_collected = @ + amount]
  BY DEF CountSale, When, c
<1>3. /\ controller'.total_policies_sold = c.total_policies_sold + 1
      /\ controller'.total_premiums_collected = c.total_premiums_collected + amount
      /\ controller'.total_payouts_distributed = c.total_payouts_distributed
  BY <1>1, <1>2
<1>4. controller.total_payouts_distributed \in U64
  BY DEF ControllerType
<1>5. controller.total_payouts_distributed + 0 = controller.total_payouts_distributed
  BY <1>4, ChainAssumption DEF U64
<1> QED
  BY <1>1, <1>2, <1>3, <1>4, <1>5 DEF Counts

LEMMA CountsPayouts ==
    ASSUME controller \in ControllerType, NEW list, NEW amount,
           controller' \in CountPayouts([controller EXCEPT !.active_flights = list], amount)
    PROVE  Counts(controller', 0, 0, amount)
<1> DEFINE c == [controller EXCEPT !.active_flights = list]
<1>1. /\ c.total_policies_sold = controller.total_policies_sold
      /\ c.total_premiums_collected = controller.total_premiums_collected
      /\ c.total_payouts_distributed = controller.total_payouts_distributed
      /\ c = [ active_flights            |-> c.active_flights,
               total_policies_sold       |-> c.total_policies_sold,
               total_premiums_collected  |-> c.total_premiums_collected,
               total_payouts_distributed |-> c.total_payouts_distributed ]
  BY DEF ControllerType
<1> HIDE DEF c
<1>2. /\ c.total_payouts_distributed + amount \in U64
      /\ controller' = [c EXCEPT !.total_payouts_distributed = @ + amount]
  BY DEF CountPayouts, When, c
<1>3. /\ controller'.total_policies_sold = c.total_policies_sold
      /\ controller'.total_premiums_collected = c.total_premiums_collected
      /\ controller'.total_payouts_distributed = c.total_payouts_distributed + amount
  BY <1>1, <1>2
<1>4. controller.total_policies_sold \in U64 /\ controller.total_premiums_collected \in U64
  BY DEF ControllerType
<1>5. /\ controller.total_policies_sold + 0 = controller.total_policies_sold
      /\ controller.total_premiums_collected + 0 = controller.total_premiums_collected
  BY <1>4, ChainAssumption DEF U64
<1> QED
  BY <1>1, <1>2, <1>3, <1>4, <1>5 DEF Counts

\* The terms a policy is sold on: the route's, or those of the flight's pool if
\* it has one.
SoldOn(f, terms) ==
    IF flight_pool.pools[f].status = NoAccount THEN terms ELSE flight_pool.pools[f]

\* buy_insurance books a policy and its premium, on the terms it is sold on in
\* the pool and on the terms of the route in the vault and in the controller.
SaleBooks(f, terms) ==
    LET sold == SoldOn(f, terms) IN
    /\ Booked(flight_pool, flight_pool', 1, sold.premium, 0, sold.payoff)
    /\ flight_pool'.pools[f].premium = sold.premium
    /\ flight_pool'.pools[f].payoff = sold.payoff
    /\ \A g \in Flights \ {f} : flight_pool'.pools[g] = flight_pool.pools[g]
    /\ flight_pool'.pool_treasury = flight_pool.pool_treasury + sold.premium
    /\ ControllerCall(vault, vault', terms.payoff)
    /\ vault'.vault_tokens = vault.vault_tokens
    /\ Counts(controller', 1, terms.premium, 0)

\* execute_settlements books what the flights of its batch settle.
SettlementBooks(w) ==
    /\ InBooks(w) /\ Settles(Settling, w)
    /\ ControllerCall(w.vault, vault', 0) /\ vault'.vault_tokens = w.vault.vault_tokens
    /\ flight_pool' = w.flight_pool
    /\ Counts(controller', 0, 0, w.paid)

\* The books themselves: the vault's token account holds what it manages and
\* owes, the treasury what the pools and the owner have in it, and the
\* controller counts the policies and the payouts of the pools.
MoneyInv ==
    /\ WellFormed(vault) /\ Surplus(vault) = 0
    /\ AllFresh(flight_pool) /\ Excess(flight_pool) = 0
    /\ controller \in ControllerType
    /\ controller.total_policies_sold = AllPolicies(flight_pool)
    /\ controller.total_payouts_distributed = AllPayouts(flight_pool)

\* buy_insurance
LEMMA SaleStep ==
    ASSUME FlightsInv, MoneyInv, NEW t \in Travelers, NEW f \in Flights, NEW r \in Routes,
           buy_insurance(t, f, r)
    PROVE  \E terms \in get_route_terms(governance, r) : SaleBooks(f, terms)
<1>1. PICK terms \in get_route_terms(governance, r) :
        /\ \E mid \in PoolForBuyer(flight_pool, f, terms) :
              flight_pool' \in add_buyer(mid, f, t)
        /\ vault' \in increase_locked(vault, Collateral(terms))
        /\ controller' \in
              CountSale([controller EXCEPT
                            !.active_flights = IF flight_pool.pools[f].status = NoAccount
                                               THEN Append(controller.active_flights, f)
                                               ELSE controller.active_flights],
                        terms.premium)
  BY DEF buy_insurance
<1>2. PICK mid \in PoolForBuyer(flight_pool, f, terms) :
         flight_pool' \in add_buyer(mid, f, t)
  BY <1>1
<1>3. /\ flight_pool \in FlightPoolType /\ AllFresh(flight_pool) /\ WellFormed(vault)
      /\ controller \in ControllerType
      /\ governance \in GovernanceType /\ DelaysBounded(governance)
  BY DEF FlightsInv, FlightsTypeOK, MoneyInv
<1>4. terms \in ResolvedTerms
  BY <1>3, TermsResolved
<1>5. Collateral(terms) = terms.payoff /\ terms.payoff \in U64
  BY <1>4 DEF Collateral, ResolvedTerms
<1>6. ControllerCall(vault, vault', terms.payoff) /\ vault'.vault_tokens = vault.vault_tokens
  BY <1>1, <1>3, <1>5, IncreaseLockedCall
<1>7. Counts(controller', 1, terms.premium, 0)
  BY <1>1, <1>3, CountsSale
<1>8. LET sold == SoldOn(f, terms)
      IN  /\ Booked(flight_pool, flight_pool', 1, sold.premium, 0, sold.payoff)
          /\ flight_pool'.pools[f].premium = sold.premium
          /\ flight_pool'.pools[f].payoff = sold.payoff
          /\ flight_pool'.pool_treasury = flight_pool.pool_treasury + sold.premium
  BY <1>2, <1>3, <1>4, SaleBooked DEF SoldOn
<1>9. \A g \in Flights \ {f} : flight_pool'.pools[g] = flight_pool.pools[g]
  <2>1. CASE flight_pool.pools[f].status = NoAccount
    <3>1. PoolStep(flight_pool, mid, f)
      BY <1>2, <1>3, <1>4, <2>1, RegisterPool DEF PoolForBuyer
    <3>2. PoolStep(mid, flight_pool', f)
      BY <1>2, <3>1, AddBuyerPool DEF PoolStep
    <3> QED
      BY <3>1, <3>2 DEF PoolStep
  <2>2. CASE flight_pool.pools[f].status # NoAccount
    <3>1. mid = flight_pool
      BY <1>2, <2>2 DEF PoolForBuyer
    <3>2. PoolStep(flight_pool, flight_pool', f)
      BY <1>2, <1>3, <3>1, AddBuyerPool
    <3> QED
      BY <3>2 DEF PoolStep
  <2> QED
    BY <2>1, <2>2
<1> QED
  BY <1>6, <1>7, <1>8, <1>9 DEF SaleBooks

\* execute_settlements
LEMMA SettlementStep ==
    ASSUME FlightsInv, MoneyInv, NEW batch \in Batches, NEW claimables,
           execute_settlements(batch, claimables, Day(now))
    PROVE  \E w : SettlementBooks(w)
<1>1. PICK w \in settle_batch(Settling, batch) :
        /\ vault' \in housekeeping(w.vault, claimables, Day(now))
        /\ flight_pool' = w.flight_pool
        /\ controller' \in
              CountPayouts([controller EXCEPT
                               !.active_flights = RemoveFlights(controller.active_flights, batch)],
                           w.paid)
  BY DEF execute_settlements
<1>2. /\ now \in Time /\ oracle \in [Flights -> FlightData]
      /\ flight_pool \in FlightPoolType /\ AllInStep(oracle, flight_pool)
      /\ AllFresh(flight_pool) /\ WellFormed(vault) /\ controller \in ControllerType
  BY DEF FlightsInv, FlightsTypeOK, AllInStep, MoneyInv
<1>3. InBooks(Settling) /\ AllInStep(Settling.oracle, Settling.flight_pool)
  BY <1>2 DEF InBooks, IsWork, Settling
<1>4. InBooks(w) /\ Settles(Settling, w)
  BY <1>2, <1>3, BatchSettles
<1>5. ControllerCall(w.vault, vault', 0) /\ vault'.vault_tokens = w.vault.vault_tokens
  BY <1>1, <1>2, <1>4, HousekeepingCall DEF InBooks
<1>6. Counts(controller', 0, 0, w.paid)
  BY <1>1, <1>2, CountsPayouts
<1> QED
  BY <1>1, <1>4, <1>5, <1>6 DEF SettlementBooks

\* A transaction of an LP.
LEMMA LpStep ==
    ASSUME FlightsInv, MoneyInv, LpNext
    PROVE  LpCall(vault, vault') /\ UNCHANGED <<flight_pool, controller>>
<1>1. PICK lp \in LPs :
        \/ \E amount \in LpAmounts :
              \/ Deposit(lp, amount)
              \/ Redeem(lp, amount)
              \/ RequestWithdrawal(lp, amount)
        \/ \E i \in 1 .. MaxQueue : CancelWithdrawal(lp, i)
        \/ Collect(lp)
  BY DEF LpNext
<1>2. WellFormed(vault) /\ now \in Time /\ LpAmounts \subseteq U64
  BY SentinelAssumption DEF MoneyInv, FlightsInv, FlightsTypeOK
<1>3. \A i \in 1 .. MaxQueue : i \in Nat
  BY VaultAssumption
<1>4. ASSUME NEW amount \in LpAmounts, Deposit(lp, amount) PROVE LpCall(vault, vault')
  BY <1>2, <1>4, DepositCall DEF Deposit
<1>5. ASSUME NEW amount \in LpAmounts, Redeem(lp, amount) PROVE LpCall(vault, vault')
  BY <1>2, <1>5, RedeemCall DEF Redeem
<1>6. ASSUME NEW amount \in LpAmounts, RequestWithdrawal(lp, amount)
      PROVE  LpCall(vault, vault')
  BY <1>2, <1>6, RequestWithdrawalCall DEF RequestWithdrawal
<1>7. ASSUME NEW i \in 1 .. MaxQueue, CancelWithdrawal(lp, i) PROVE LpCall(vault, vault')
  BY <1>2, <1>3, <1>7, CancelWithdrawalCall DEF CancelWithdrawal
<1>8. CASE Collect(lp)
  BY <1>2, <1>8, CollectCall DEF Collect
<1>9. UNCHANGED <<flight_pool, controller>>
  BY <1>1 DEF Deposit, Redeem, RequestWithdrawal, CancelWithdrawal, Collect
<1> QED
  BY <1>1, <1>4, <1>5, <1>6, <1>7, <1>8, <1>9

\* A claim, a sweep or a withdrawal: the treasury backs what it backed, and no
\* pool is opened or closed.
Repays(p, q) ==
    /\ Booked(p, q, 0, 0, 0, 0)
    /\ \A f \in Flights : q.pools[f].status = p.pools[f].status

\* A claim counted in a pool leaves the status of every pool.
LEMMA WroteStatus ==
    ASSUME NEW p \in FlightPoolType, NEW q, NEW f \in Flights, NEW count, NEW records,
           NEW recovered, NEW treasury,
           WroteOnly(p, q, f, [p.pools[f] EXCEPT !.claimed_count = count], records,
                     recovered, treasury)
    PROVE  \A g \in Flights : q.pools[g].status = p.pools[g].status
<1>1. p.pools[f] \in FlightPoolAccount
  BY PoolFields
<1>2. [p.pools[f] EXCEPT !.claimed_count = count].status = p.pools[f].status
  BY <1>1 DEF FlightPoolAccount
<1> QED
  BY <1>2 DEF WroteOnly

\* claim
LEMMA ClaimRepays ==
    ASSUME NEW p \in FlightPoolType, AllFresh(p), NEW f \in Flights, NEW t \in Travelers,
           NEW q \in claim(p, f, t)
    PROVE  Repays(p, q)
<1> DEFINE count == p.pools[f].claimed_count + 1
<1>1. [p.pools[f] EXCEPT !.claimed_count = @ + 1] = [p.pools[f] EXCEPT !.claimed_count = count]
  OBVIOUS
<1>2. WroteOnly(p, q, f, [p.pools[f] EXCEPT !.claimed_count = @ + 1],
                [p.buyers[f] EXCEPT ![t] = "Claimed"], p.recovered_balance,
                p.pool_treasury - p.pools[f].payoff)
  BY ClaimPool
<1>3. WroteOnly(p, q, f, [p.pools[f] EXCEPT !.claimed_count = count],
                [p.buyers[f] EXCEPT ![t] = "Claimed"], p.recovered_balance,
                p.pool_treasury - p.pools[f].payoff)
  BY <1>1, <1>2
<1> HIDE DEF count
<1>4. \A g \in Flights : q.pools[g].status = p.pools[g].status
  BY <1>3, WroteStatus
<1> QED
  BY <1>4, ClaimBooked DEF Repays

\* sweep_expired
LEMMA SweepRepays ==
    ASSUME NEW p \in FlightPoolType, AllFresh(p), NEW f \in Flights,
           NEW q \in sweep_expired(p, f)
    PROVE  Repays(p, q)
<1>1. \A g \in Flights : q.pools[g].status = p.pools[g].status
  BY SweepPool, WroteStatus
<1> QED
  BY <1>1, SweepBooked DEF Repays

\* withdraw_recovered
LEMMA WithdrawRepays ==
    ASSUME NEW p \in FlightPoolType, AllFresh(p), NEW amount \in U64,
           NEW q \in withdraw_recovered(p, amount)
    PROVE  Repays(p, q)
<1>1. q.pools = p.pools
  BY WithdrawPool
<1> QED
  BY <1>1, WithdrawBooked DEF Repays

\* A transaction changes no book, or moves an LP's own holdings, or pool money
\* that stays backed, or it is a sale, or a settlement.
LEMMA EveryStepBooks ==
    ASSUME FlightsInv, MoneyInv, [SentinelNext]_vars
    PROVE  \/ UNCHANGED <<vault, flight_pool, controller>>
           \/ LpCall(vault, vault') /\ UNCHANGED <<flight_pool, controller>>
           \/ Repays(flight_pool, flight_pool') /\ UNCHANGED <<vault, controller>>
           \/ \E f \in Flights, r \in Routes :
                 \E terms \in get_route_terms(governance, r) : SaleBooks(f, terms)
           \/ \E w : SettlementBooks(w)
<1>1. CASE LpNext
  BY <1>1, LpStep
<1>2. CASE PoolNext
  <2>1. flight_pool \in FlightPoolType /\ AllFresh(flight_pool)
    BY DEF FlightsInv, FlightsTypeOK, MoneyInv
  <2>2. ASSUME NEW t \in Travelers, NEW f \in Flights, NEW r \in Routes,
               buy_insurance(t, f, r)
        PROVE  \E terms \in get_route_terms(governance, r) : SaleBooks(f, terms)
    BY <2>2, SaleStep
  <2>3. ASSUME NEW t \in Travelers, NEW f \in Flights, Claim(t, f)
        PROVE  Repays(flight_pool, flight_pool') /\ UNCHANGED <<vault, controller>>
    BY <2>1, <2>3, ClaimRepays DEF Claim
  <2>4. ASSUME NEW f \in Flights, SweepExpired(f)
        PROVE  Repays(flight_pool, flight_pool') /\ UNCHANGED <<vault, controller>>
    BY <2>1, <2>4, SweepRepays DEF SweepExpired
  <2>5. ASSUME NEW amount \in RecoveredAmounts, WithdrawRecovered(amount)
        PROVE  Repays(flight_pool, flight_pool') /\ UNCHANGED <<vault, controller>>
    <3>1. amount \in U64
      BY SentinelAssumption
    <3> QED
      BY <2>1, <2>5, <3>1, WithdrawRepays DEF WithdrawRecovered
  <2> QED
    BY <1>2, <2>2, <2>3, <2>4, <2>5 DEF PoolNext
<1>3. CASE OracleNext
  BY <1>3 DEF OracleNext, SetEstimatedArrival, SetLanded, SetCancelled
<1>4. CASE KeeperNext
  <2>1. PICK batch \in Batches :
          \/ classify_flights(batch)
          \/ \E claimables \in Claimables :
                execute_settlements(batch, claimables, Day(now))
    BY <1>4 DEF KeeperNext
  <2>2. CASE classify_flights(batch)
    BY <2>2 DEF classify_flights
  <2>3. ASSUME NEW claimables, execute_settlements(batch, claimables, Day(now))
        PROVE  \E w : SettlementBooks(w)
    BY <2>3, SettlementStep
  <2> QED
    BY <2>1, <2>2, <2>3
<1>5. CASE GovernanceNext
  BY <1>5 DEF GovernanceNext, WhitelistRoute, DisableRoute, UpdateRouteTerms
<1>6. CASE ClockNext
  BY <1>6 DEF ClockNext
<1>7. CASE UNCHANGED vars
  BY <1>7 DEF vars
<1> QED
  BY <1>1, <1>2, <1>3, <1>4, <1>5, <1>6, <1>7 DEF SentinelNext

-----------------------------------------------------------------------------
(* The books balance. *)

\* With no pool there is nothing to book.
LEMMA EmptyBooks ==
    ASSUME NEW p, p = initialize_flight_pool
    PROVE  /\ AllFresh(p) /\ Excess(p) = 0 /\ AllPolicies(p) = 0 /\ AllPremiums(p) = 0
           /\ AllPayouts(p) = 0 /\ AllLocks(p) = 0
<1> DEFINE none == [f \in Flights |-> 0]
<1>1. /\ \A f \in Flights : p.pools[f] = NoPool
      /\ p.pool_treasury = 0 /\ p.recovered_balance = 0
  BY DEF initialize_flight_pool
<1>2. /\ Share(NoPool) = 0 /\ Policies(NoPool) = 0 /\ Premiums(NoPool) = 0
      /\ Payouts(NoPool) = 0 /\ Locks(NoPool) = 0 /\ Fresh(NoPool)
  BY DEF NoPool, NoAccount, Payable, Share, Policies, Premiums, Payouts, Locks, Fresh
<1>3. /\ [f \in Flights |-> Share(p.pools[f])] = none
      /\ [f \in Flights |-> Policies(p.pools[f])] = none
      /\ [f \in Flights |-> Premiums(p.pools[f])] = none
      /\ [f \in Flights |-> Payouts(p.pools[f])] = none
      /\ [f \in Flights |-> Locks(p.pools[f])] = none
  <2> HIDE DEF NoPool
  <2> QED
    BY <1>1, <1>2
<1>4. none \in [Flights -> Int] /\ \A f \in Flights : none[f] = 0
  OBVIOUS
<1>5. SumFunction(none) = 0
  <2> HIDE DEF none
  <2> QED
    BY <1>4, SumOfZeros, FlightsAssumption
<1>6. AllFresh(p)
  BY <1>1, <1>2 DEF AllFresh
<1> HIDE DEF none
<1> QED
  BY <1>1, <1>3, <1>5, <1>6
     DEF Excess, Shares, AllPolicies, AllPremiums, AllPayouts, AllLocks

\* All books are empty at first.
LEMMA MoneyInit == SentinelInit => MoneyInv
<1> SUFFICES ASSUME SentinelInit PROVE MoneyInv
  OBVIOUS
<1>1. [lp \in LPs |-> LpFunds] \in [LPs -> U64]
  BY SentinelAssumption
<1>2. WellFormed(vault) /\ Surplus(vault) = 0
  BY <1>1, InitialVault DEF SentinelInit
<1>3. /\ AllFresh(flight_pool) /\ Excess(flight_pool) = 0
      /\ AllPolicies(flight_pool) = 0 /\ AllPayouts(flight_pool) = 0
  BY EmptyBooks DEF SentinelInit
<1>4. /\ controller \in ControllerType /\ controller.total_policies_sold = 0
      /\ controller.total_payouts_distributed = 0
  <2>1. << >> \in Seq(Flights) /\ 0 \in U64
    BY ChainAssumption DEF U64
  <2> QED
    BY <2>1 DEF SentinelInit, initialize_controller, ControllerType
<1> QED
  BY <1>2, <1>3, <1>4 DEF MoneyInv

\* The controller's account stays of its type.
LEMMA ControllerTyped ==
    ASSUME NEW policies \in Nat, NEW premiums \in Nat, NEW payouts \in Nat,
           controller \in ControllerType, ListInv', Counts(controller', policies, premiums, payouts)
    PROVE  controller' \in ControllerType
<1>1. controller'.active_flights \in Seq(Flights)
  BY DEF ListInv, Listing
<1>2. /\ controller'.total_policies_sold \in U64
      /\ controller'.total_premiums_collected \in U64
      /\ controller'.total_payouts_distributed \in U64
  BY DEF Counts
<1>3. controller' = [ active_flights            |-> controller'.active_flights,
                      total_policies_sold       |-> controller'.total_policies_sold,
                      total_premiums_collected  |-> controller'.total_premiums_collected,
                      total_payouts_distributed |-> controller'.total_payouts_distributed ]
  BY DEF ListInv, ControllerFields
<1> QED
  BY <1>1, <1>2, <1>3 DEF ControllerType

\* MoneyInv is inductive: a case for each transaction.
LEMMA MoneyStep ==
    FlightsInv /\ ListInv /\ MoneyInv /\ [SentinelNext]_vars => MoneyInv'
<1> SUFFICES ASSUME FlightsInv, ListInv, MoneyInv, [SentinelNext]_vars
             PROVE  MoneyInv'
  OBVIOUS
<1>0. /\ WellFormed(vault) /\ Surplus(vault) = 0
      /\ AllFresh(flight_pool) /\ Excess(flight_pool) = 0
      /\ controller \in ControllerType /\ flight_pool \in FlightPoolType
      /\ controller.total_policies_sold = AllPolicies(flight_pool)
      /\ controller.total_payouts_distributed = AllPayouts(flight_pool)
  BY DEF MoneyInv, FlightsInv, FlightsTypeOK
<1>1. /\ AllPolicies(flight_pool) \in Int /\ AllPayouts(flight_pool) \in Int
  BY <1>0, BookNumbers
<1>2. ListInv'
  BY ListStep
<1>3. CASE UNCHANGED <<vault, flight_pool, controller>>
  BY <1>0, <1>3 DEF MoneyInv
<1>4. CASE LpCall(vault, vault') /\ UNCHANGED <<flight_pool, controller>>
  <2>1. WellFormed(vault') /\ Surplus(vault') = 0
    BY <1>0, <1>4, BooksFollow DEF LpCall
  <2> QED
    BY <1>0, <1>4, <2>1 DEF MoneyInv
<1>5. CASE Repays(flight_pool, flight_pool') /\ UNCHANGED <<vault, controller>>
  <2>1. /\ AllFresh(flight_pool') /\ Excess(flight_pool') = 0
        /\ AllPolicies(flight_pool') = AllPolicies(flight_pool)
        /\ AllPayouts(flight_pool') = AllPayouts(flight_pool)
    BY <1>0, <1>1, <1>5 DEF Repays, Booked
  <2> QED
    BY <1>0, <1>5, <2>1 DEF MoneyInv
<1>6. ASSUME NEW f \in Flights, NEW r \in Routes,
             NEW terms \in get_route_terms(governance, r), SaleBooks(f, terms)
      PROVE  MoneyInv'
  <2>1. terms \in ResolvedTerms
    BY TermsResolved DEF FlightsInv, FlightsTypeOK
  <2>2. terms.premium \in Nat
    BY <2>1, Amounts DEF ResolvedTerms
  <2>3. WellFormed(vault') /\ Surplus(vault') = 0
    BY <1>0, <1>6, BooksFollow DEF SaleBooks, ControllerCall
  <2>4. /\ AllFresh(flight_pool') /\ Excess(flight_pool') = 0
        /\ AllPolicies(flight_pool') = AllPolicies(flight_pool) + 1
        /\ AllPayouts(flight_pool') = AllPayouts(flight_pool) + 0
    BY <1>0, <1>6 DEF SaleBooks, Booked
  <2>5. Counts(controller', 1, terms.premium, 0)
    BY <1>6 DEF SaleBooks
  <2>6. controller' \in ControllerType
    BY <1>0, <1>2, <2>2, <2>5, ControllerTyped
  <2> QED
    BY <1>0, <2>3, <2>4, <2>5, <2>6 DEF MoneyInv, Counts
<1>7. ASSUME NEW w, SettlementBooks(w)
      PROVE  MoneyInv'
  <2>1. /\ InBooks(w) /\ Settles(Settling, w) /\ Counts(controller', 0, 0, w.paid)
        /\ ControllerCall(w.vault, vault', 0) /\ flight_pool' = w.flight_pool
    BY <1>7 DEF SettlementBooks
  <2>2. Surplus(w.vault) = Surplus(vault) /\ Surplus(vault') = Surplus(w.vault)
    BY <1>0, <2>1, BooksFollow DEF InBooks, Settles, ControllerCall, Settling
  <2>3. /\ AllFresh(flight_pool') /\ Excess(flight_pool') = 0
        /\ AllPolicies(flight_pool') = AllPolicies(flight_pool)
        /\ w.paid - AllPayouts(flight_pool') = 0 - AllPayouts(flight_pool)
        /\ w.paid \in Nat /\ flight_pool' \in FlightPoolType /\ WellFormed(vault')
    BY <1>0, <2>1 DEF InBooks, IsWork, Settles, Settling, ControllerCall
  <2>4. AllPayouts(flight_pool') = AllPayouts(flight_pool) + w.paid
    <3>1. AllPayouts(flight_pool') \in Int
      BY <2>3, BookNumbers
    <3> QED
      BY <1>1, <2>3, <3>1
  <2>5. controller' \in ControllerType
    <3>1. 0 \in Nat
      OBVIOUS
    <3> QED
      BY <1>0, <1>2, <2>1, <2>3, <3>1, ControllerTyped
  <2>6. controller'.total_policies_sold = AllPolicies(flight_pool')
    BY <1>0, <1>1, <2>1, <2>3 DEF Counts
  <2>7. controller'.total_payouts_distributed = AllPayouts(flight_pool')
    BY <1>0, <2>1, <2>4 DEF Counts
  <2> QED
    BY <1>0, <2>2, <2>3, <2>5, <2>6, <2>7 DEF MoneyInv
<1> QED
  BY <1>3, <1>4, <1>5, <1>6, <1>7, EveryStepBooks

\* The three parts of the invariant, together.
LEMMA SentinelInvariant == SentinelSpec => [](FlightsInv /\ ListInv /\ MoneyInv)
BY FlightsInit, FlightsStep, ListInit, ListStep, MoneyInit, MoneyStep, PTL
   DEF SentinelSpec

\* Every account of the five programs holds values of its type, in range: no
\* order of transactions overflows a u64 or the withdrawal queue.
THEOREM SentinelTypeCorrect == SentinelSpec => []TypeOK
<1>1. FlightsInv /\ MoneyInv => TypeOK
  BY DEF FlightsInv, FlightsTypeOK, MoneyInv, WellFormed, TypeOK
<1> QED
  BY <1>1, SentinelInvariant, PTL

\* The treasury account, shared by all pools, holds what each of them owes and
\* what was recovered, and nothing else: for any number of flights and of
\* travelers, no flight is paid out of another's money.
THEOREM TreasuryAlwaysBacks == SentinelSpec => []TreasuryBacksEveryPool
<1>1. ASSUME FlightsInv, MoneyInv PROVE TreasuryBacksEveryPool
  <2> DEFINE share == [f \in Flights |-> Share(flight_pool.pools[f])]
  <2>1. flight_pool \in FlightPoolType /\ Excess(flight_pool) = 0
    BY <1>1 DEF FlightsInv, FlightsTypeOK, MoneyInv
  <2>2. \A f \in Flights : TreasuryShare(f) = Share(flight_pool.pools[f])
    <3> TAKE f \in Flights
    <3>1. flight_pool.pools[f] \in FlightPoolAccount
      BY <2>1, PoolFields
    <3>2. "Active" \notin Payable
      BY DEF Payable
    <3> QED
      BY <3>1, <3>2 DEF TreasuryShare, Share, Pool, TotalPremium
  <2>3. SumOver(Flights, [f \in Flights |-> TreasuryShare(f)]) = Shares(flight_pool)
    <3>1. [f \in Flights |-> [g \in Flights |-> TreasuryShare(g)][f]] = share
      BY <2>2
    <3> QED
      BY <3>1 DEF SumOver, Shares
  <2>4. /\ Shares(flight_pool) \in Int /\ flight_pool.pool_treasury \in Int
        /\ flight_pool.recovered_balance \in Int
    BY <2>1, BookNumbers, Balances
  <2>5. flight_pool.pool_treasury = flight_pool.recovered_balance + Shares(flight_pool)
    BY <2>1, <2>4 DEF Excess
  <2> QED
    BY <2>3, <2>5 DEF TreasuryBacksEveryPool
<1> QED
  BY <1>1, SentinelInvariant, PTL

-----------------------------------------------------------------------------
(* Every transaction, in the pools and their records. *)

\* A policy of f is sold to t, and pool is the flight's pool after the sale.
PoolSold(f, t, pool) ==
    /\ flight_pool.pools[f].status \in {NoAccount, "Active"}
    /\ flight_pool.buyers[f][t] = NoAccount
    /\ pool.status = "Active" /\ pool.claimed_count = 0
    /\ pool.buyer_count = flight_pool.pools[f].buyer_count + 1
    /\ flight_pool.pools[f].status = "Active" => SameTerms(flight_pool.pools[f], pool)
    /\ WroteOnly(flight_pool, flight_pool', f, pool,
                 [flight_pool.buyers[f] EXCEPT ![t] = "HasPolicy"],
                 flight_pool.recovered_balance, flight_pool.pool_treasury + pool.premium)

PoolClaimed(f, t) ==
    LET pool == flight_pool.pools[f] IN
    /\ pool.status \in Payable /\ now <= pool.claim_expiry
    /\ flight_pool.buyers[f][t] = "HasPolicy"
    /\ WroteOnly(flight_pool, flight_pool', f, [pool EXCEPT !.claimed_count = @ + 1],
                 [flight_pool.buyers[f] EXCEPT ![t] = "Claimed"],
                 flight_pool.recovered_balance, flight_pool.pool_treasury - pool.payoff)

PoolSwept(f) ==
    LET pool == flight_pool.pools[f] IN
    /\ pool.status \in Payable /\ now > pool.claim_expiry
    /\ WroteOnly(flight_pool, flight_pool', f,
                 [pool EXCEPT !.claimed_count = pool.buyer_count], flight_pool.buyers[f],
                 flight_pool.recovered_balance
                   + (pool.buyer_count - pool.claimed_count) * pool.payoff,
                 flight_pool.pool_treasury)

OwnerPaid(amount) ==
    /\ amount \in U64 /\ amount > 0 /\ amount <= flight_pool.recovered_balance
    /\ flight_pool'.pools = flight_pool.pools /\ flight_pool'.buyers = flight_pool.buyers
    /\ flight_pool'.recovered_balance = flight_pool.recovered_balance - amount
    /\ flight_pool'.pool_treasury = flight_pool.pool_treasury - amount

PoolsClosed ==
    /\ Closes(flight_pool, flight_pool')
    /\ Excess(flight_pool') = Excess(flight_pool)

\* Two writes of the same pool, the last of which counts.
LEMMA WroteTwice ==
    ASSUME NEW p, NEW q, NEW r, NEW f \in Flights, NEW pool, NEW records, NEW recovered,
           NEW treasury, NEW pool2, NEW records2, NEW recovered2, NEW treasury2,
           WroteOnly(p, q, f, pool, records, recovered, treasury),
           WroteOnly(q, r, f, pool2, records2, recovered2, treasury2)
    PROVE  WroteOnly(p, r, f, pool2, records2, recovered2, treasury2)
BY DEF WroteOnly

\* buy_insurance
LEMMA SaleOfPool ==
    ASSUME FlightsInv, MoneyInv, NEW t \in Travelers, NEW f \in Flights, NEW r \in Routes,
           buy_insurance(t, f, r)
    PROVE  \E pool \in FlightPoolAccount : PoolSold(f, t, pool)
<1> DEFINE p == flight_pool
           old == flight_pool.pools[f]
           records == [p.buyers[f] EXCEPT ![t] = "HasPolicy"]
<1>1. PICK terms \in get_route_terms(governance, r) :
         \E mid \in PoolForBuyer(p, f, terms) : flight_pool' \in add_buyer(mid, f, t)
  BY DEF buy_insurance
<1>2. PICK mid \in PoolForBuyer(p, f, terms) : flight_pool' \in add_buyer(mid, f, t)
  BY <1>1
<1>3. /\ p \in FlightPoolType /\ AllFresh(p) /\ old \in FlightPoolAccount /\ Fresh(old)
      /\ terms \in ResolvedTerms
  BY TermsResolved, PoolFields DEF FlightsInv, FlightsTypeOK, MoneyInv, AllFresh
<1>4. CASE old.status = NoAccount
  <2> DEFINE opened == [NoPool EXCEPT !.status = "Active", !.premium = terms.premium,
                                      !.payoff = terms.payoff,
                                      !.delay_hours = terms.delay_hours]
             pool == [opened EXCEPT !.buyer_count = @ + 1]
  <2>1. /\ mid \in FlightPoolType
        /\ WroteOnly(p, mid, f, opened, p.buyers[f], p.recovered_balance, p.pool_treasury)
    BY <1>2, <1>3, <1>4, RegisterPool DEF PoolForBuyer, PoolStep
  <2>2. /\ flight_pool' \in FlightPoolType
        /\ WroteOnly(mid, flight_pool', f, [mid.pools[f] EXCEPT !.buyer_count = @ + 1],
                     [mid.buyers[f] EXCEPT ![t] = "HasPolicy"],
                     mid.recovered_balance, mid.pool_treasury + mid.pools[f].premium)
    BY <1>2, <2>1, AddBuyerPool DEF PoolStep
  <2>3. /\ mid.pools[f] = opened /\ mid.buyers[f] = p.buyers[f]
        /\ mid.recovered_balance = p.recovered_balance
        /\ mid.pool_treasury = p.pool_treasury
    BY <2>1 DEF WroteOnly
  <2>4. /\ opened.premium = pool.premium /\ pool.status = "Active"
        /\ pool.claimed_count = 0 /\ pool.buyer_count = 0 + 1
    BY DEF NoPool
  <2>5. old.buyer_count = 0
    BY <1>3, <1>4 DEF Fresh
  <2>6. WroteOnly(p, flight_pool', f, pool, records, p.recovered_balance,
                  p.pool_treasury + pool.premium)
    <3>1. /\ [mid.pools[f] EXCEPT !.buyer_count = @ + 1] = pool
          /\ [mid.buyers[f] EXCEPT ![t] = "HasPolicy"] = records
          /\ mid.pool_treasury + mid.pools[f].premium = p.pool_treasury + pool.premium
      <4> HIDE DEF opened
      <4>1. opened.premium = pool.premium
        BY <2>4 DEF opened
      <4> QED
        BY <2>3, <4>1
    <3>2. WroteOnly(mid, flight_pool', f, pool, records, p.recovered_balance,
                    p.pool_treasury + pool.premium)
      <4> HIDE DEF pool, records
      <4> QED
        BY <2>2, <2>3, <3>1
    <3> HIDE DEF pool, records, opened
    <3> QED
      BY <2>1, <3>2, WroteTwice
  <2>7. pool \in FlightPoolAccount
    <3>1. flight_pool'.pools[f] = pool
      BY <2>6 DEF WroteOnly
    <3> HIDE DEF pool
    <3> QED
      BY <2>2, <3>1, PoolFields
  <2>8. p.buyers[f][t] = NoAccount
    BY <1>2, <2>3 DEF add_buyer, When
  <2> HIDE DEF pool
  <2>9. PoolSold(f, t, pool)
    BY <1>4, <2>4, <2>5, <2>6, <2>8 DEF PoolSold, NoAccount
  <2> QED
    BY <2>7, <2>9
<1>5. CASE old.status # NoAccount
  <2> DEFINE pool == [old EXCEPT !.buyer_count = @ + 1]
  <2>1. mid = p
    BY <1>2, <1>5 DEF PoolForBuyer
  <2>2. /\ flight_pool' \in FlightPoolType
        /\ WroteOnly(p, flight_pool', f, pool, records, p.recovered_balance,
                     p.pool_treasury + old.premium)
    BY <1>2, <1>3, <2>1, AddBuyerPool DEF PoolStep
  <2>3. old.status = "Active" /\ p.buyers[f][t] = NoAccount
    BY <1>2, <2>1 DEF add_buyer, When
  <2>4. /\ pool.status = "Active" /\ pool.claimed_count = 0
        /\ pool.buyer_count = old.buyer_count + 1
        /\ SameTerms(old, pool) /\ pool.premium = old.premium
    BY <1>3, <2>3 DEF FlightPoolAccount, Fresh, SameTerms
  <2>5. pool \in FlightPoolAccount
    <3>1. flight_pool'.pools[f] = pool
      BY <2>2 DEF WroteOnly
    <3> HIDE DEF pool
    <3> QED
      BY <2>2, <3>1, PoolFields
  <2> HIDE DEF pool
  <2>6. PoolSold(f, t, pool)
    BY <2>2, <2>3, <2>4 DEF PoolSold
  <2> QED
    BY <2>5, <2>6
<1> QED
  BY <1>4, <1>5

\* What a transaction does to the pools and to their records.
LEMMA EveryStepPools ==
    ASSUME FlightsInv, MoneyInv, [SentinelNext]_vars
    PROVE  \/ flight_pool' = flight_pool
           \/ \E f \in Flights, t \in Travelers, pool \in FlightPoolAccount :
                 PoolSold(f, t, pool)
           \/ \E f \in Flights, t \in Travelers : PoolClaimed(f, t)
           \/ \E f \in Flights : PoolSwept(f)
           \/ \E amount \in RecoveredAmounts : OwnerPaid(amount)
           \/ PoolsClosed
<1>0. flight_pool \in FlightPoolType
  BY DEF FlightsInv, FlightsTypeOK
<1>1. CASE LpNext
  BY <1>1, LpStep
<1>2. CASE PoolNext
  <2>1. ASSUME NEW t \in Travelers, NEW f \in Flights, NEW r \in Routes,
               buy_insurance(t, f, r)
        PROVE  \E pool \in FlightPoolAccount : PoolSold(f, t, pool)
    BY <2>1, SaleOfPool
  <2>2. ASSUME NEW t \in Travelers, NEW f \in Flights, Claim(t, f)
        PROVE  PoolClaimed(f, t)
    <3>1. flight_pool' \in claim(flight_pool, f, t)
      BY <2>2 DEF Claim
    <3>2. /\ flight_pool.pools[f].status \in Payable
          /\ now <= flight_pool.pools[f].claim_expiry
          /\ flight_pool.buyers[f][t] = "HasPolicy"
      BY <3>1 DEF claim, When
    <3>3. WroteOnly(flight_pool, flight_pool', f,
                    [flight_pool.pools[f] EXCEPT !.claimed_count = @ + 1],
                    [flight_pool.buyers[f] EXCEPT ![t] = "Claimed"],
                    flight_pool.recovered_balance,
                    flight_pool.pool_treasury - flight_pool.pools[f].payoff)
      BY <1>0, <3>1, ClaimPool
    <3> QED
      BY <3>2, <3>3 DEF PoolClaimed
  <2>3. ASSUME NEW f \in Flights, SweepExpired(f)
        PROVE  PoolSwept(f)
    <3>1. flight_pool' \in sweep_expired(flight_pool, f)
      BY <2>3 DEF SweepExpired
    <3>2. /\ flight_pool.pools[f].status \in Payable
          /\ now > flight_pool.pools[f].claim_expiry
      BY <3>1 DEF sweep_expired, When
    <3>3. WroteOnly(flight_pool, flight_pool', f,
                    [flight_pool.pools[f] EXCEPT
                        !.claimed_count = flight_pool.pools[f].buyer_count],
                    flight_pool.buyers[f],
                    flight_pool.recovered_balance
                      + (flight_pool.pools[f].buyer_count - flight_pool.pools[f].claimed_count)
                          * flight_pool.pools[f].payoff,
                    flight_pool.pool_treasury)
      BY <1>0, <3>1, SweepPool
    <3> QED
      BY <3>2, <3>3 DEF PoolSwept
  <2>4. ASSUME NEW amount \in RecoveredAmounts, WithdrawRecovered(amount)
        PROVE  OwnerPaid(amount)
    <3>1. amount \in U64 /\ flight_pool' \in withdraw_recovered(flight_pool, amount)
      BY <2>4, SentinelAssumption DEF WithdrawRecovered
    <3>2. amount > 0 /\ amount <= flight_pool.recovered_balance
      BY <3>1 DEF withdraw_recovered, When
    <3> QED
      BY <1>0, <3>1, <3>2, WithdrawPool DEF OwnerPaid
  <2> QED
    BY <1>2, <2>1, <2>2, <2>3, <2>4 DEF PoolNext
<1>3. CASE OracleNext
  BY <1>3 DEF OracleNext, SetEstimatedArrival, SetLanded, SetCancelled
<1>4. CASE KeeperNext
  <2>1. PICK batch \in Batches :
          \/ classify_flights(batch)
          \/ \E claimables \in Claimables :
                execute_settlements(batch, claimables, Day(now))
    BY <1>4 DEF KeeperNext
  <2>2. CASE classify_flights(batch)
    BY <2>2 DEF classify_flights
  <2>3. ASSUME NEW claimables, execute_settlements(batch, claimables, Day(now))
        PROVE  PoolsClosed
    <3>1. PICK w : SettlementBooks(w)
      BY <2>3, SettlementStep
    <3> QED
      BY <3>1 DEF SettlementBooks, Settles, Settling, PoolsClosed
  <2> QED
    BY <2>1, <2>2, <2>3
<1>5. CASE GovernanceNext
  BY <1>5 DEF GovernanceNext, WhitelistRoute, DisableRoute, UpdateRouteTerms
<1>6. CASE ClockNext
  BY <1>6 DEF ClockNext
<1>7. CASE UNCHANGED vars
  BY <1>7 DEF vars
<1> QED
  BY <1>1, <1>2, <1>3, <1>4, <1>5, <1>6, <1>7 DEF SentinelNext

-----------------------------------------------------------------------------
(* The records behind the counters of a pool. *)

Held(records) == {t \in Travelers : records[t] # NoAccount}
Paid(records) == {t \in Travelers : records[t] = "Claimed"}

\* buyer_count counts the records, and claimed_count the claimed ones, until a
\* sweep has counted all of them as claimed, when no claim is accepted any more.
\* A pool has a buyer from its first transaction on.
Counted(pool, records, time) ==
    /\ pool.buyer_count = Cardinality(Held(records))
    /\ pool.status # NoAccount => Held(records) # {}
    /\ pool.status \notin Payable => Paid(records) = {} /\ pool.claimed_count = 0
    /\ pool.status \in Payable =>
          \/ pool.claimed_count = Cardinality(Paid(records))
          \/ pool.claimed_count = pool.buyer_count /\ time > pool.claim_expiry

CountedInv == \A f \in Flights : Counted(flight_pool.pools[f], flight_pool.buyers[f], now)

\* Sets of travelers, in numbers.
LEMMA Travelling ==
    ASSUME NEW S \in SUBSET Travelers
    PROVE  /\ IsFiniteSet(S) /\ Cardinality(S) \in Nat
           /\ Cardinality(S) = 0 <=> S = {}
           /\ \A t \in Travelers \ S : Cardinality(S \cup {t}) = Cardinality(S) + 1
           /\ \A R \in SUBSET S : /\ Cardinality(R) <= Cardinality(S)
                                  /\ Cardinality(R) = Cardinality(S) => R = S
<1>1. IsFiniteSet(S)
  BY TravelersAssumption, FS_Subset
<1>2. Cardinality(S) \in Nat
  BY <1>1, FS_CardinalityType
<1>3. Cardinality(S) = 0 <=> S = {}
  BY <1>1, FS_EmptySet
<1>4. \A t \in Travelers \ S : Cardinality(S \cup {t}) = Cardinality(S) + 1
  BY <1>1, FS_AddElement
<1>5. ASSUME NEW R \in SUBSET S
      PROVE  Cardinality(R) <= Cardinality(S) /\ (Cardinality(R) = Cardinality(S) => R = S)
  BY <1>1, FS_Subset
<1> QED
  BY <1>1, <1>2, <1>3, <1>4, <1>5

\* The numbers of a counted pool: no more policies are claimed than sold.
LEMMA CountedNumbers ==
    ASSUME NEW pool \in FlightPoolAccount, NEW records \in [Travelers -> BuyerRecord],
           NEW time, Counted(pool, records, time)
    PROVE  /\ Paid(records) \in SUBSET Held(records) /\ Held(records) \in SUBSET Travelers
           /\ pool.claimed_count <= pool.buyer_count
           /\ pool.buyer_count - pool.claimed_count \in Nat
<1>1. Paid(records) \in SUBSET Held(records) /\ Held(records) \in SUBSET Travelers
  BY DEF Paid, Held, NoAccount
<1>2. Cardinality(Paid(records)) <= Cardinality(Held(records))
  BY <1>1, Travelling
<1>3. Cardinality(Held(records)) \in Nat /\ Cardinality(Paid(records)) \in Nat
  BY <1>1, Travelling
<1>4. pool.claimed_count <= pool.buyer_count
  BY <1>2, <1>3 DEF Counted
<1>5. pool.claimed_count \in Nat /\ pool.buyer_count \in Nat
  BY PoolNumbers
<1> QED
  BY <1>1, <1>4, <1>5

\* A sale.
LEMMA SaleCounted ==
    ASSUME FlightsInv, CountedInv, NEW f \in Flights, NEW t \in Travelers,
           NEW pool \in FlightPoolAccount, PoolSold(f, t, pool), NEW time
    PROVE  \A g \in Flights : flight_pool'.pools[g] # flight_pool.pools[g]
              => Counted(flight_pool'.pools[g], flight_pool'.buyers[g], time)
<1> DEFINE old == flight_pool.pools[f]
           before == flight_pool.buyers[f]
           after == [before EXCEPT ![t] = "HasPolicy"]
<1>1. /\ old.status \in {NoAccount, "Active"} /\ before[t] = NoAccount
      /\ pool.status = "Active" /\ pool.claimed_count = 0
      /\ pool.buyer_count = old.buyer_count + 1
      /\ flight_pool'.pools[f] = pool /\ flight_pool'.buyers[f] = after
      /\ \A g \in Flights \ {f} : flight_pool'.pools[g] = flight_pool.pools[g]
  BY DEF PoolSold, WroteOnly
<1>2. before \in [Travelers -> BuyerRecord] /\ Counted(old, before, now)
  BY PoolFields DEF FlightsInv, FlightsTypeOK, CountedInv
<1>3. Held(after) = Held(before) \cup {t} /\ t \notin Held(before)
  BY <1>1, <1>2 DEF Held, NoAccount
<1>4. Paid(after) = Paid(before)
  BY <1>1, <1>2 DEF Paid, NoAccount
<1>5. /\ old.buyer_count = Cardinality(Held(before)) /\ Paid(before) = {}
  BY <1>1, <1>2 DEF Counted, Payable, NoAccount
<1>6. Cardinality(Held(before) \cup {t}) = Cardinality(Held(before)) + 1
  <2>1. Held(before) \in SUBSET Travelers
    BY DEF Held
  <2> QED
    BY <1>3, <2>1, Travelling
<1> HIDE DEF after
<1>7. Counted(pool, after, time)
  BY <1>1, <1>3, <1>4, <1>5, <1>6 DEF Counted, Payable, NoAccount
<1> QED
  BY <1>1, <1>7

\* A claim.
LEMMA ClaimCounted ==
    ASSUME FlightsInv, CountedInv, NEW f \in Flights, NEW t \in Travelers,
           PoolClaimed(f, t)
    PROVE  LET pool == flight_pool.pools[f]
               records == flight_pool.buyers[f]
           IN  /\ Counted(flight_pool'.pools[f], flight_pool'.buyers[f], now)
               /\ pool.claimed_count = Cardinality(Paid(records))
               /\ pool.claimed_count < pool.buyer_count
<1> DEFINE old == flight_pool.pools[f]
           pool == [old EXCEPT !.claimed_count = @ + 1]
           before == flight_pool.buyers[f]
           after == [before EXCEPT ![t] = "Claimed"]
<1>1. /\ old.status \in Payable /\ now <= old.claim_expiry /\ before[t] = "HasPolicy"
      /\ flight_pool'.pools[f] = pool /\ flight_pool'.buyers[f] = after
  BY DEF PoolClaimed, WroteOnly
<1>2. /\ old \in FlightPoolAccount /\ before \in [Travelers -> BuyerRecord]
      /\ Counted(old, before, now) /\ now \in Time
  BY PoolFields DEF FlightsInv, FlightsTypeOK, CountedInv
<1>3. /\ pool.status = old.status /\ pool.buyer_count = old.buyer_count
      /\ pool.claimed_count = old.claimed_count + 1
      /\ pool.claim_expiry = old.claim_expiry
  BY <1>2 DEF FlightPoolAccount
<1>4. old.claimed_count = Cardinality(Paid(before))
  <2>1. old.claim_expiry \in Nat /\ now \in Nat
    BY <1>2, ChainAssumption DEF FlightPoolAccount, Time
  <2> QED
    BY <1>1, <1>2, <2>1 DEF Counted
<1>5. /\ Held(after) = Held(before) /\ Paid(after) = Paid(before) \cup {t}
      /\ t \in Held(before) \ Paid(before)
  BY <1>1, <1>2 DEF Held, Paid, NoAccount
<1>6. /\ Paid(before) \in SUBSET Held(before) /\ Held(before) \in SUBSET Travelers
      /\ Paid(before) \in SUBSET Travelers
  BY <1>2, CountedNumbers
<1>7. Cardinality(Paid(before) \cup {t}) = Cardinality(Paid(before)) + 1
  BY <1>5, <1>6, Travelling
<1>8. Cardinality(Paid(before)) < Cardinality(Held(before))
  <2>1. /\ Cardinality(Paid(before)) <= Cardinality(Held(before))
        /\ Cardinality(Paid(before)) # Cardinality(Held(before))
    BY <1>5, <1>6, Travelling
  <2>2. Cardinality(Paid(before)) \in Nat /\ Cardinality(Held(before)) \in Nat
    BY <1>6, Travelling
  <2> QED
    BY <2>1, <2>2
<1>9. old.buyer_count = Cardinality(Held(before)) /\ Held(before) # {}
  BY <1>2, <1>5 DEF Counted
<1> HIDE DEF pool, after
<1>10. Counted(pool, after, now)
  BY <1>1, <1>3, <1>4, <1>5, <1>7, <1>9 DEF Counted
<1> QED
  BY <1>1, <1>4, <1>8, <1>9, <1>10

\* A pool that is closed counts on.
LEMMA ClosedCounted ==
    ASSUME NEW pool \in FlightPoolAccount, NEW pool2, Closed(pool, pool2),
           NEW records \in [Travelers -> BuyerRecord], NEW time,
           Counted(pool, records, time)
    PROVE  /\ Counted(pool2, records, time)
           /\ pool2.buyer_count = pool.buyer_count /\ pool2.claimed_count = 0
           /\ SameTerms(pool, pool2)
           /\ pool2.status \in Payable \cup {"SettledOnTime"}
<1>0. /\ pool.status = "Active" /\ pool.claimed_count = 0 /\ Paid(records) = {}
  BY DEF Closed, Counted, Payable
<1>1. /\ pool2.buyer_count = pool.buyer_count /\ pool2.claimed_count = 0
      /\ pool2.status \in Payable \cup {"SettledOnTime"} /\ SameTerms(pool, pool2)
  <2>1. CASE pool2 = [pool EXCEPT !.status = "SettledOnTime"]
    BY <1>0, <2>1 DEF FlightPoolAccount, SameTerms
  <2>2. ASSUME NEW status \in Payable,
               pool2 = OpenPool(pool, status, now + CLAIM_EXPIRY_WINDOW)
        PROVE  /\ pool2.buyer_count = pool.buyer_count /\ pool2.claimed_count = 0
               /\ pool2.status \in Payable \cup {"SettledOnTime"} /\ SameTerms(pool, pool2)
    BY <1>0, <2>2 DEF FlightPoolAccount, OpenPool, SameTerms
  <2> QED
    BY <2>1, <2>2 DEF Closed
<1>2. Cardinality(Paid(records)) = 0
  BY <1>0, FS_EmptySet
<1>3. pool2.status # NoAccount
  BY <1>1 DEF Payable, NoAccount
<1> QED
  BY <1>0, <1>1, <1>2, <1>3 DEF Counted, NoAccount

\* What is counted stays counted as time passes.
LEMMA CountedLater ==
    ASSUME NEW pool \in FlightPoolAccount, NEW records, NEW time \in Nat, NEW later \in Nat,
           time <= later, Counted(pool, records, time)
    PROVE  Counted(pool, records, later)
<1>1. pool.claim_expiry \in Nat
  BY DEF FlightPoolAccount
<1> QED
  BY <1>1 DEF Counted

\* Time passes.
LEMMA TimeMoves ==
    ASSUME now \in Time, [SentinelNext]_vars
    PROVE  now \in Nat /\ now' \in Nat /\ now <= now'
<1>0. now \in Nat
  BY ChainAssumption DEF Time
<1>1. ASSUME now' = now
      PROVE  now' \in Nat /\ now <= now'
  BY <1>0, <1>1
<1>2. CASE LpNext
  BY <1>2, <1>1 DEF LpNext, Deposit, Redeem, RequestWithdrawal, CancelWithdrawal, Collect
<1>3. CASE PoolNext
  BY <1>3, <1>1 DEF PoolNext, buy_insurance, Claim, SweepExpired, WithdrawRecovered
<1>4. CASE OracleNext
  BY <1>4, <1>1 DEF OracleNext, SetEstimatedArrival, SetLanded, SetCancelled
<1>5. CASE KeeperNext
  BY <1>5, <1>1 DEF KeeperNext, classify_flights, execute_settlements
<1>6. CASE GovernanceNext
  BY <1>6, <1>1 DEF GovernanceNext, WhitelistRoute, DisableRoute, UpdateRouteTerms
<1>7. CASE ClockNext
  BY <1>0, <1>7, ChainAssumption DEF ClockNext, Tick
<1>8. CASE UNCHANGED vars
  BY <1>8, <1>1 DEF vars
<1> QED
  BY <1>0, <1>2, <1>3, <1>4, <1>5, <1>6, <1>7, <1>8 DEF SentinelNext

\* A sweep.
LEMMA SweepCounted ==
    ASSUME FlightsInv, CountedInv, NEW f \in Flights, PoolSwept(f)
    PROVE  Counted(flight_pool'.pools[f], flight_pool'.buyers[f], now)
<1> DEFINE old == flight_pool.pools[f]
           pool == [old EXCEPT !.claimed_count = old.buyer_count]
<1>1. /\ old.status \in Payable /\ now > old.claim_expiry
      /\ flight_pool'.pools[f] = pool /\ flight_pool'.buyers[f] = flight_pool.buyers[f]
  BY DEF PoolSwept, WroteOnly
<1>2. old \in FlightPoolAccount /\ Counted(old, flight_pool.buyers[f], now)
  BY PoolFields DEF FlightsInv, FlightsTypeOK, CountedInv
<1>3. /\ pool.status = old.status /\ pool.buyer_count = old.buyer_count
      /\ pool.claimed_count = old.buyer_count /\ pool.claim_expiry = old.claim_expiry
  BY <1>2 DEF FlightPoolAccount
<1> HIDE DEF pool
<1> QED
  BY <1>1, <1>2, <1>3 DEF Counted

\* No pool has a buyer at first.
LEMMA CountedInit == SentinelInit => CountedInv
<1> SUFFICES ASSUME SentinelInit, NEW f \in Flights
             PROVE  Counted(flight_pool.pools[f], flight_pool.buyers[f], now)
  BY DEF CountedInv
<1>1. /\ flight_pool.pools[f] = NoPool
      /\ \A t \in Travelers : flight_pool.buyers[f][t] = NoAccount
  BY DEF SentinelInit, initialize_flight_pool
<1>2. Held(flight_pool.buyers[f]) = {} /\ Paid(flight_pool.buyers[f]) = {}
  BY <1>1 DEF Held, Paid, NoAccount
<1>3. Cardinality({}) = 0
  BY FS_EmptySet
<1> QED
  BY <1>1, <1>2, <1>3 DEF Counted, NoPool, Payable, NoAccount

\* Every transaction keeps the records behind the counters.
LEMMA CountedStep == FlightsInv /\ MoneyInv /\ CountedInv /\ [SentinelNext]_vars => CountedInv'
<1> SUFFICES ASSUME FlightsInv, MoneyInv, CountedInv, [SentinelNext]_vars
             PROVE  CountedInv'
  OBVIOUS
<1> DEFINE Kept(f) == /\ flight_pool'.pools[f] = flight_pool.pools[f]
                      /\ flight_pool'.buyers[f] = flight_pool.buyers[f]
           Fine(f) == Counted(flight_pool'.pools[f], flight_pool'.buyers[f], now)
<1>0. /\ now \in Time /\ flight_pool \in FlightPoolType /\ flight_pool' \in FlightPoolType
      /\ \A f \in Flights : Counted(flight_pool.pools[f], flight_pool.buyers[f], now)
      /\ \A f \in Flights : Kept(f) => Fine(f)
  BY FlightsStep DEF FlightsInv, FlightsTypeOK, CountedInv
<1>1. \A f \in Flights : Fine(f)
  <2>1. CASE flight_pool' = flight_pool
    BY <1>0, <2>1
  <2>2. ASSUME NEW f \in Flights, NEW t \in Travelers, NEW pool \in FlightPoolAccount,
               PoolSold(f, t, pool)
        PROVE  \A g \in Flights : Fine(g)
    <3>1. /\ flight_pool'.pools[f] = pool
          /\ pool.buyer_count = flight_pool.pools[f].buyer_count + 1
          /\ \A g \in Flights \ {f} : Kept(g)
      BY <2>2 DEF PoolSold, WroteOnly
    <3>2. flight_pool.pools[f].buyer_count \in Nat
      BY <1>0, PoolFields, PoolNumbers
    <3>3. flight_pool'.pools[f] # flight_pool.pools[f]
      BY <3>1, <3>2
    <3>4. Fine(f)
      BY <2>2, <3>3, SaleCounted
    <3> HIDE DEF Kept, Fine
    <3> QED
      BY <1>0, <3>1, <3>4
  <2>3. ASSUME NEW f \in Flights, NEW t \in Travelers, PoolClaimed(f, t)
        PROVE  \A g \in Flights : Fine(g)
    <3>1. \A g \in Flights \ {f} : Kept(g)
      BY <2>3 DEF PoolClaimed, WroteOnly
    <3>2. Fine(f)
      BY <2>3, ClaimCounted
    <3> HIDE DEF Kept, Fine
    <3> QED
      BY <1>0, <3>1, <3>2
  <2>4. ASSUME NEW f \in Flights, PoolSwept(f)
        PROVE  \A g \in Flights : Fine(g)
    <3>1. \A g \in Flights \ {f} : Kept(g)
      BY <2>4 DEF PoolSwept, WroteOnly
    <3>2. Fine(f)
      BY <2>4, SweepCounted
    <3> HIDE DEF Kept, Fine
    <3> QED
      BY <1>0, <3>1, <3>2
  <2>5. ASSUME NEW amount, OwnerPaid(amount)
        PROVE  \A f \in Flights : Fine(f)
    BY <1>0, <2>5 DEF OwnerPaid
  <2>6. CASE PoolsClosed
    <3> SUFFICES ASSUME NEW f \in Flights PROVE Fine(f)
      OBVIOUS
    <3>1. /\ flight_pool'.buyers[f] = flight_pool.buyers[f]
          /\ \/ flight_pool'.pools[f] = flight_pool.pools[f]
             \/ Closed(flight_pool.pools[f], flight_pool'.pools[f])
      BY <2>6 DEF PoolsClosed, Closes
    <3>2. /\ flight_pool.pools[f] \in FlightPoolAccount
          /\ flight_pool.buyers[f] \in [Travelers -> BuyerRecord]
      BY <1>0, PoolFields
    <3> QED
      BY <1>0, <3>1, <3>2, ClosedCounted
  <2> HIDE DEF Fine, Kept
  <2> QED
    BY <2>1, <2>2, <2>3, <2>4, <2>5, <2>6, EveryStepPools
<1>2. now \in Nat /\ now' \in Nat /\ now <= now'
  BY <1>0, TimeMoves
<1>3. ASSUME NEW f \in Flights
      PROVE  Counted(flight_pool'.pools[f], flight_pool'.buyers[f], now')
  <2>1. flight_pool'.pools[f] \in FlightPoolAccount
    BY <1>0, PoolFields
  <2> QED
    BY <1>1, <1>2, <2>1, CountedLater
<1> QED
  BY <1>3 DEF CountedInv

\* The invariant with its last part.
LEMMA RecordsInvariant == SentinelSpec => [](FlightsInv /\ ListInv /\ MoneyInv /\ CountedInv)
BY FlightsInit, FlightsStep, ListInit, ListStep, MoneyInit, MoneyStep, CountedInit, CountedStep,
   PTL DEF SentinelSpec

-----------------------------------------------------------------------------
(* While the owner leaves the prices alone. *)

\* No update of a route's terms names a premium or a payoff: the owner may keep
\* them, go back to the defaults, or change the delay.
PricesKept ==
    \A update \in TermUpdates :
        update.premium \in {Keep, RevertToDefault} /\ update.payoff \in {Keep, RevertToDefault}

Unpriced(route) == route.premium = None /\ route.payoff = None

UsualPrices(g) ==
    /\ g.default_terms = DefaultTerms
    /\ \A r \in Routes : Unpriced(g.routes[r])

Usual(terms) == terms.premium = DefaultTerms.premium /\ terms.payoff = DefaultTerms.payoff

\* Every pool then sells and locks at the default terms, and the two books that
\* are kept at a route's terms on one side and at the pool's on the other agree.
PricesInv ==
    /\ UsualPrices(governance)
    /\ \A f \in Flights :
          flight_pool.pools[f].status # NoAccount => Usual(flight_pool.pools[f])
    /\ controller.total_premiums_collected = AllPremiums(flight_pool)
    /\ vault.locked_capital = AllLocks(flight_pool)

\* The terms of every route are the defaults.
LEMMA UsualTerms ==
    ASSUME NEW g \in GovernanceType, UsualPrices(g), NEW r \in Routes,
           NEW terms \in get_route_terms(g, r)
    PROVE  Usual(terms)
<1>1. Unpriced(g.routes[r]) /\ g.default_terms = DefaultTerms
  BY DEF UsualPrices
<1>2. terms = [ premium |-> unwrap_or(g.routes[r].premium, g.default_terms.premium),
                payoff |-> unwrap_or(g.routes[r].payoff, g.default_terms.payoff),
                delay_hours |-> unwrap_or(g.routes[r].delay_hours,
                                          g.default_terms.delay_hours) ]
  BY DEF get_route_terms, When
<1> QED
  BY <1>1, <1>2 DEF Unpriced, unwrap_or, Usual

\* They stay the defaults.
LEMMA PricesStay ==
    ASSUME PricesKept, FlightsInv, UsualPrices(governance), [SentinelNext]_vars
    PROVE  UsualPrices(governance')
<1>0. /\ governance \in GovernanceType /\ governance.routes \in [Routes -> RouteAccount]
      /\ governance.default_terms = DefaultTerms
      /\ \A s \in Routes : Unpriced(governance.routes[s])
  BY DEF FlightsInv, FlightsTypeOK, GovernanceType, UsualPrices
<1>1. ASSUME governance' = governance
      PROVE  UsualPrices(governance')
  BY <1>1
<1>2. CASE LpNext
  BY <1>2, <1>1 DEF LpNext, Deposit, Redeem, RequestWithdrawal, CancelWithdrawal, Collect
<1>3. CASE PoolNext
  BY <1>3, <1>1 DEF PoolNext, buy_insurance, Claim, SweepExpired, WithdrawRecovered
<1>4. CASE OracleNext
  BY <1>4, <1>1 DEF OracleNext, SetEstimatedArrival, SetLanded, SetCancelled
<1>5. CASE KeeperNext
  BY <1>5, <1>1 DEF KeeperNext, classify_flights, execute_settlements
<1>6. CASE GovernanceNext
  <2>1. PICK r \in Routes :
          \/ WhitelistRoute(Owner, r)
          \/ DisableRoute(Owner, r)
          \/ \E update \in TermUpdates : UpdateRouteTerms(Owner, r, update)
    BY <1>6 DEF GovernanceNext
  <2>2. ASSUME NEW route, NEW count, Unpriced(route),
               governance' = [governance EXCEPT !.routes[r] = route, !.route_count = count]
        PROVE  UsualPrices(governance')
    <3>1. /\ governance'.routes = [governance.routes EXCEPT ![r] = route]
          /\ governance'.default_terms = governance.default_terms
      BY <1>0, <2>2 DEF GovernanceType
    <3> QED
      BY <1>0, <2>2, <3>1 DEF UsualPrices
  <2>3. CASE WhitelistRoute(Owner, r)
    <3> DEFINE route == [ exists |-> TRUE, approved |-> TRUE, premium |-> None,
                          payoff |-> None, delay_hours |-> None ]
               count == IF governance.routes[r].exists THEN governance.route_count
                        ELSE governance.route_count + 1
    <3>1. governance' = [governance EXCEPT !.routes[r] = route, !.route_count = count]
      BY <2>3 DEF WhitelistRoute, whitelist_route, Whitelisted, When, NoOverrides
    <3>2. Unpriced(route)
      BY DEF Unpriced
    <3> HIDE DEF route, count
    <3> QED
      BY <2>2, <3>1, <3>2
  <2>4. CASE DisableRoute(Owner, r)
    <3> DEFINE route == [governance.routes[r] EXCEPT !.approved = FALSE]
               count == governance.route_count
    <3>1. governance' = [governance EXCEPT !.routes[r].approved = FALSE]
      BY <2>4 DEF DisableRoute, disable_route, When
    <3>2. governance' = [governance EXCEPT !.routes[r] = route, !.route_count = count]
      BY <1>0, <3>1 DEF GovernanceType
    <3>3. Unpriced(route)
      BY <1>0 DEF Unpriced, RouteAccount
    <3> HIDE DEF route, count
    <3> QED
      BY <2>2, <3>2, <3>3
  <2>5. ASSUME NEW update \in TermUpdates, UpdateRouteTerms(Owner, r, update)
        PROVE  UsualPrices(governance')
    <3> DEFINE route == Updated(governance.routes[r], update)
               count == governance.route_count
    <3>1. governance' = [governance EXCEPT !.routes[r] = Updated(@, update)]
      BY <2>5 DEF UpdateRouteTerms, update_route_terms, When
    <3>2. governance' = [governance EXCEPT !.routes[r] = route, !.route_count = count]
      <4> HIDE DEF Updated
      <4> QED
        BY <1>0, <3>1 DEF GovernanceType
    <3>3. /\ route.premium = Applied(update.premium, governance.routes[r].premium)
          /\ route.payoff = Applied(update.payoff, governance.routes[r].payoff)
      BY <1>0 DEF Updated, RouteAccount
    <3>4. Unpriced(route)
      BY <1>0, <3>3 DEF Unpriced, Applied, PricesKept, RevertToDefault
    <3> HIDE DEF route, count
    <3> QED
      BY <2>2, <3>2, <3>4
  <2> QED
    BY <2>1, <2>3, <2>4, <2>5
<1>7. CASE ClockNext
  BY <1>7, <1>1 DEF ClockNext
<1>8. CASE UNCHANGED vars
  BY <1>8, <1>1 DEF vars
<1> QED
  BY <1>2, <1>3, <1>4, <1>5, <1>6, <1>7, <1>8 DEF SentinelNext

\* The routes and the pools of the initial state have the usual prices.
LEMMA PricesInit == SentinelInit => PricesInv
<1> SUFFICES ASSUME SentinelInit PROVE PricesInv
  OBVIOUS
<1>1. UsualPrices(governance)
  BY DEF SentinelInit, initialize_governance, NoRoute, UsualPrices, Unpriced
<1>2. /\ \A f \in Flights : flight_pool.pools[f].status = NoAccount
      /\ AllPremiums(flight_pool) = 0 /\ AllLocks(flight_pool) = 0
  BY EmptyBooks DEF SentinelInit, initialize_flight_pool, NoPool
<1>3. controller.total_premiums_collected = 0 /\ vault.locked_capital = 0
  BY DEF SentinelInit, initialize_controller, initialize_vault
<1> QED
  BY <1>1, <1>2, <1>3 DEF PricesInv

\* A pool that a transaction leaves in the status it had keeps its prices.
LEMMA PricesFrozen ==
    ASSUME FlightsInv, [SentinelNext]_vars, NEW f \in Flights,
           flight_pool.pools[f].status # NoAccount, Usual(flight_pool.pools[f])
    PROVE  Usual(flight_pool'.pools[f])
<1>1. SameTerms(flight_pool.pools[f], flight_pool'.pools[f])
  BY EveryStepMoves DEF FlightsMove, FlightStep
<1> QED
  BY <1>1 DEF SameTerms, Usual

\* PricesInv is inductive where updates leave the prices alone.
LEMMA PricesStep ==
    ASSUME PricesKept
    PROVE  FlightsInv /\ MoneyInv /\ PricesInv /\ [SentinelNext]_vars => PricesInv'
<1> SUFFICES ASSUME FlightsInv, MoneyInv, PricesInv, [SentinelNext]_vars
             PROVE  PricesInv'
  OBVIOUS
<1> DEFINE Priced(f) == flight_pool'.pools[f].status # NoAccount => Usual(flight_pool'.pools[f])
<1>0. /\ flight_pool \in FlightPoolType /\ governance \in GovernanceType
      /\ WellFormed(vault) /\ UsualPrices(governance)
      /\ \A f \in Flights :
            flight_pool.pools[f].status # NoAccount => Usual(flight_pool.pools[f])
      /\ controller.total_premiums_collected = AllPremiums(flight_pool)
      /\ vault.locked_capital = AllLocks(flight_pool)
      /\ AllPremiums(flight_pool) \in Int /\ AllLocks(flight_pool) \in Int
  BY BookNumbers DEF FlightsInv, FlightsTypeOK, MoneyInv, PricesInv
<1>1. UsualPrices(governance')
  BY <1>0, PricesStay
<1>2. ASSUME NEW f \in Flights, flight_pool.pools[f].status # NoAccount
      PROVE  Priced(f)
  BY <1>0, <1>2, PricesFrozen
<1>3. ASSUME \A f \in Flights : flight_pool'.pools[f].status = flight_pool.pools[f].status
      PROVE  \A f \in Flights : Priced(f)
  <2> SUFFICES ASSUME NEW f \in Flights PROVE Priced(f)
    OBVIOUS
  <2>1. CASE flight_pool.pools[f].status = NoAccount
    BY <1>3, <2>1
  <2> QED
    BY <1>2, <2>1
<1> HIDE DEF Priced
<1>4. ASSUME \A f \in Flights : Priced(f),
             controller'.total_premiums_collected = AllPremiums(flight_pool'),
             vault'.locked_capital = AllLocks(flight_pool')
      PROVE  PricesInv'
  BY <1>1, <1>4 DEF PricesInv, Priced
<1>5. CASE UNCHANGED <<vault, flight_pool, controller>>
  BY <1>0, <1>3, <1>4, <1>5
<1>6. CASE LpCall(vault, vault') /\ UNCHANGED <<flight_pool, controller>>
  BY <1>0, <1>3, <1>4, <1>6 DEF LpCall
<1>7. CASE Repays(flight_pool, flight_pool') /\ UNCHANGED <<vault, controller>>
  <2>1. /\ AllPremiums(flight_pool') = AllPremiums(flight_pool)
        /\ AllLocks(flight_pool') = AllLocks(flight_pool)
    BY <1>0, <1>7 DEF Repays, Booked
  <2> QED
    BY <1>0, <1>3, <1>4, <1>7, <2>1 DEF Repays
<1>8. ASSUME NEW f \in Flights, NEW r \in Routes,
             NEW terms \in get_route_terms(governance, r), SaleBooks(f, terms)
      PROVE  PricesInv'
  <2> DEFINE sold == SoldOn(f, terms)
  <2>1. Usual(terms)
    BY <1>0, UsualTerms
  <2>2. sold.premium = terms.premium /\ sold.payoff = terms.payoff
    BY <1>0, <2>1 DEF SoldOn, Usual
  <2> HIDE DEF sold
  <2>3. /\ AllPremiums(flight_pool') = AllPremiums(flight_pool) + sold.premium
        /\ AllLocks(flight_pool') = AllLocks(flight_pool) + sold.payoff
        /\ flight_pool'.pools[f].premium = sold.premium
        /\ flight_pool'.pools[f].payoff = sold.payoff
        /\ \A g \in Flights \ {f} : flight_pool'.pools[g] = flight_pool.pools[g]
    BY <1>8 DEF SaleBooks, Booked, sold
  <2>4. /\ vault'.locked_capital = vault.locked_capital + terms.payoff
        /\ controller'.total_premiums_collected
              = controller.total_premiums_collected + terms.premium
    BY <1>8 DEF SaleBooks, ControllerCall, Counts
  <2>5. Usual(flight_pool'.pools[f])
    BY <2>1, <2>2, <2>3 DEF Usual
  <2>6. \A g \in Flights : Priced(g)
    BY <1>0, <2>3, <2>5 DEF Priced
  <2> QED
    BY <1>0, <1>4, <2>2, <2>3, <2>4, <2>6
<1>9. ASSUME NEW w, SettlementBooks(w)
      PROVE  PricesInv'
  <2>1. /\ InBooks(w) /\ Settles(Settling, w) /\ Counts(controller', 0, 0, w.paid)
        /\ ControllerCall(w.vault, vault', 0) /\ flight_pool' = w.flight_pool
    BY <1>9 DEF SettlementBooks
  <2>2. /\ AllPremiums(flight_pool') = AllPremiums(flight_pool)
        /\ w.vault.locked_capital - AllLocks(flight_pool')
              = vault.locked_capital - AllLocks(flight_pool)
        /\ vault'.locked_capital = w.vault.locked_capital + 0
        /\ Closes(flight_pool, flight_pool')
        /\ controller'.total_premiums_collected = controller.total_premiums_collected + 0
    BY <2>1 DEF Settles, Settling, ControllerCall, Counts
  <2>3. /\ flight_pool' \in FlightPoolType /\ WellFormed(w.vault)
    BY <2>1 DEF InBooks, IsWork
  <2>4. w.vault.locked_capital \in Int /\ AllLocks(flight_pool') \in Int
    BY <2>3, Numbers, BookNumbers
  <2>5. vault'.locked_capital = AllLocks(flight_pool')
    <3>1. \A m, n, k \in Int : m - n = k - k => m + 0 = n
      OBVIOUS
    <3> QED
      <4> DEFINE m == w.vault.locked_capital
                 n == AllLocks(flight_pool')
                 k == AllLocks(flight_pool)
      <4>1. m - n = k - k /\ m \in Int /\ n \in Int /\ k \in Int
        BY <1>0, <2>2, <2>4
      <4>2. vault'.locked_capital = m + 0
        BY <2>2
      <4> HIDE DEF m, n, k
      <4>3. m + 0 = n
        BY <3>1, <4>1
      <4> QED
        BY <4>2, <4>3 DEF n
  <2>6. \A f \in Flights : Priced(f)
    <3> SUFFICES ASSUME NEW f \in Flights PROVE Priced(f)
      OBVIOUS
    <3>1. CASE flight_pool'.pools[f] = flight_pool.pools[f]
      BY <1>0, <3>1 DEF Priced
    <3>2. CASE Closed(flight_pool.pools[f], flight_pool'.pools[f])
      BY <1>2, <3>2 DEF Closed, NoAccount
    <3> QED
      BY <2>2, <3>1, <3>2 DEF Closes
  <2> QED
    BY <1>0, <1>4, <2>2, <2>5, <2>6
<1> QED
  BY <1>5, <1>6, <1>7, <1>8, <1>9, EveryStepBooks

\* The invariant of the unchanged prices.
LEMMA PricesInvariant ==
    ASSUME PricesKept
    PROVE  SentinelSpec => [](FlightsInv /\ ListInv /\ MoneyInv /\ CountedInv /\ PricesInv)
BY FlightsInit, FlightsStep, ListInit, ListStep, MoneyInit, MoneyStep, CountedInit, CountedStep,
   PricesInit, PricesStep, PTL DEF SentinelSpec

\* The vault keeps locked what the unsettled policies would cost it, and no
\* more, when no update of a route names a price (it does not otherwise).
THEOREM CollateralStaysExact ==
    ASSUME PricesKept
    PROVE  SentinelSpec => []CollateralTracksPolicies
<1>1. ASSUME FlightsInv, PricesInv PROVE CollateralTracksPolicies
  <2> DEFINE all == [f \in Flights |-> Locks(flight_pool.pools[f])]
             open == [f \in Unsettled |-> TotalPayoff(flight_pool, f)]
  <2>1. /\ flight_pool \in FlightPoolType
        /\ vault.locked_capital = SumFunction(all)
    BY <1>1 DEF FlightsInv, FlightsTypeOK, PricesInv, AllLocks
  <2>2. \A f \in Flights : Locks(flight_pool.pools[f]) \in Int
    BY <2>1, PoolFields, SummandNumbers
  <2>3. all \in [Flights -> Int]
    BY <2>2
  <2>4. /\ Unsettled \in SUBSET Flights
        /\ \A f \in Flights : all[f] = IF f \in Unsettled THEN open[f] ELSE 0
    BY DEF Unsettled, Locks, Pool, TotalPayoff
  <2>5. open \in [Unsettled -> Int]
    <3>1. \A f \in Unsettled : open[f] \in Int
      BY <2>2, <2>4
    <3> QED
      BY <3>1
  <2>6. [f \in Unsettled |-> [g \in Unsettled |-> TotalPayoff(flight_pool, g)][f]] = open
    OBVIOUS
  <2> HIDE DEF all, open
  <2>7. SumFunction(all) = SumFunction(open)
    BY <2>3, <2>4, <2>5, SumPart, FlightsAssumption
  <2> QED
    BY <2>1, <2>6, <2>7 DEF CollateralTracksPolicies, SumOver, open
<1> QED
  BY <1>1, PricesInvariant, PTL

\* The counters of the controller are those of the pools: the policies and the
\* payouts always are, the premiums when no update of a route names a price.
THEOREM CountersStayExact ==
    ASSUME PricesKept
    PROVE  SentinelSpec => []CountersMatchPools
<1>1. ASSUME FlightsInv, MoneyInv, PricesInv PROVE CountersMatchPools
  <2> DEFINE late == {f \in Flights : Pool(f).status \in Payable}
             all == [f \in Flights |-> Payouts(flight_pool.pools[f])]
             due == [f \in late |-> PayoutDiff(flight_pool, f)]
  <2>1. /\ flight_pool \in FlightPoolType
        /\ controller.total_policies_sold = AllPolicies(flight_pool)
        /\ controller.total_premiums_collected = AllPremiums(flight_pool)
        /\ controller.total_payouts_distributed = AllPayouts(flight_pool)
    BY <1>1 DEF FlightsInv, FlightsTypeOK, MoneyInv, PricesInv
  <2>2. AllPolicies(flight_pool) = SumOver(Flights, [f \in Flights |-> Pool(f).buyer_count])
    <3>1. [f \in Flights |-> [g \in Flights |-> Pool(g).buyer_count][f]]
             = [f \in Flights |-> Policies(flight_pool.pools[f])]
      BY DEF Policies, Pool
    <3> QED
      BY <3>1 DEF AllPolicies, SumOver
  <2>3. AllPremiums(flight_pool)
           = SumOver(Flights, [f \in Flights |-> TotalPremium(flight_pool, f)])
    <3>1. [f \in Flights |-> [g \in Flights |-> TotalPremium(flight_pool, g)][f]]
             = [f \in Flights |-> Premiums(flight_pool.pools[f])]
      BY DEF Premiums, TotalPremium
    <3> QED
      BY <3>1 DEF AllPremiums, SumOver
  <2>4. AllPayouts(flight_pool) = SumOver(late, [f \in Flights |-> PayoutDiff(flight_pool, f)])
    <3>1. \A f \in Flights : Payouts(flight_pool.pools[f]) \in Int
      BY <2>1, PoolFields, SummandNumbers
    <3>2. all \in [Flights -> Int]
      BY <3>1
    <3>3. /\ late \in SUBSET Flights
          /\ \A f \in Flights : all[f] = IF f \in late THEN due[f] ELSE 0
      BY DEF Payouts, Pool, PayoutDiff, TotalPayoff, TotalPremium
    <3>4. due \in [late -> Int]
      <4>1. \A f \in late : due[f] \in Int
        BY <3>1, <3>3
      <4> QED
        BY <4>1
    <3>5. [f \in late |-> [g \in Flights |-> PayoutDiff(flight_pool, g)][f]] = due
      BY <3>3
    <3>6. SumFunction(all) = SumFunction(due)
      <4> HIDE DEF all, due, late
      <4> QED
        BY <3>2, <3>3, <3>4, SumPart, FlightsAssumption
    <3> QED
      BY <3>5, <3>6 DEF AllPayouts, SumOver
  <2> HIDE DEF late
  <2> QED
    BY <2>1, <2>2, <2>3, <2>4 DEF CountersMatchPools, late
<1> QED
  BY <1>1, PricesInvariant, PTL

-----------------------------------------------------------------------------
(* A classified flight can always be settled. *)

\* The calls of a flight on time go through.
LEMMA PremiumAccepted ==
    ASSUME NEW v, WellFormed(v), NEW premium \in Nat, NEW payoff \in Nat,
           v.vault_tokens + premium \in U64, v.total_managed_assets + premium \in U64,
           payoff <= v.locked_capital
    PROVE  \E w \in settle_premium_into_vault(v, premium, payoff) :
              /\ w.total_managed_assets = v.total_managed_assets + premium
              /\ w.locked_capital = v.locked_capital - payoff
<1> DEFINE arrived == [v EXCEPT !.vault_tokens = @ + premium]
           booked == [arrived EXCEPT !.total_managed_assets = @ + premium]
           released == [booked EXCEPT !.locked_capital = @ - payoff]
<1>1. /\ arrived.total_managed_assets = v.total_managed_assets
      /\ arrived.locked_capital = v.locked_capital
      /\ booked.total_managed_assets = v.total_managed_assets + premium
      /\ booked.locked_capital = v.locked_capital
      /\ released.total_managed_assets = v.total_managed_assets + premium
      /\ released.locked_capital = v.locked_capital - payoff
  BY DEF WellFormed, VaultType
<1>2. v.locked_capital \in Nat
  BY Numbers
<1>3. booked \in record_premium_income(arrived, premium)
  <2> HIDE DEF arrived
  <2> QED
    BY <1>1 DEF record_premium_income, When
<1>4. released \in decrease_locked(booked, payoff)
  <2> HIDE DEF booked
  <2> QED
    BY <1>1, <1>2 DEF decrease_locked, When
<1>5. released \in settle_premium_into_vault(v, premium, payoff)
  <2>1. settle_premium_into_vault(v, premium, payoff)
           = UNION {decrease_locked(b, payoff) : b \in record_premium_income(arrived, premium)}
    BY DEF settle_premium_into_vault
  <2> HIDE DEF arrived, booked, released
  <2> QED
    BY <1>3, <1>4, <2>1
<1> HIDE DEF arrived, booked, released
<1> QED
  BY <1>1, <1>5

\* The calls of a flight delayed or cancelled go through.
LEMMA PayoutAccepted ==
    ASSUME NEW v, WellFormed(v), NEW payout_diff \in Nat, NEW payoff \in Nat,
           payout_diff <= v.vault_tokens, payout_diff <= v.total_managed_assets,
           payoff <= v.locked_capital
    PROVE  \E w \in settle_payout_from_vault(v, payout_diff, payoff) :
              /\ w.total_managed_assets = v.total_managed_assets - payout_diff
              /\ w.locked_capital = v.locked_capital - payoff
<1> DEFINE sent == [v EXCEPT !.vault_tokens = @ - payout_diff,
                             !.total_managed_assets = @ - payout_diff]
           paid == IF payout_diff > 0 THEN sent ELSE v
           released == [paid EXCEPT !.locked_capital = @ - payoff]
<1>1. v.locked_capital \in Nat /\ v.total_managed_assets \in Nat
  BY Numbers
<1>2. /\ sent.total_managed_assets = v.total_managed_assets - payout_diff
      /\ sent.locked_capital = v.locked_capital
  BY DEF WellFormed, VaultType
<1>3. /\ paid.total_managed_assets = v.total_managed_assets - payout_diff
      /\ paid.locked_capital = v.locked_capital
  BY <1>1, <1>2
<1>4. /\ released.total_managed_assets = paid.total_managed_assets
      /\ released.locked_capital = paid.locked_capital - payoff
  <2>1. CASE payout_diff > 0
    BY <2>1 DEF WellFormed, VaultType
  <2>2. CASE ~(payout_diff > 0)
    BY <2>2 DEF WellFormed, VaultType
  <2> QED
    BY <2>1, <2>2
<1>5. paid \in IF payout_diff > 0 THEN send_payout(v, payout_diff) ELSE {v}
  BY DEF send_payout, When
<1>6. released \in decrease_locked(paid, payoff)
  <2> HIDE DEF paid
  <2> QED
    BY <1>1, <1>3 DEF decrease_locked, When
<1> HIDE DEF sent, paid, released
<1>7. released \in settle_payout_from_vault(v, payout_diff, payoff)
  BY <1>5, <1>6 DEF settle_payout_from_vault
<1> QED
  BY <1>3, <1>4, <1>7

\* So do the drain and the snapshot, without claimable accounts, while what is
\* locked does not exceed what is managed; but on a day without a snapshot the
\* share price must fit.
LEMMA HousekeepingAccepted ==
    ASSUME NEW v, WellFormed(v), v.locked_capital <= v.total_managed_assets,
           SnapshotTaken(v) \/ PriceFits(v)
    PROVE  housekeeping(v, << >>, Day(now)) # {}
<1> DEFINE credited == [lp \in LPs |-> v.claimable[lp] + OwedBy(v.requests, 0, {lp})]
           drained == [v EXCEPT !.claimable = credited,
                                !.requests = SubSeq(@, 0 + 1, Len(@)),
                                !.withdrawal_queue_count = @ - 0]
<1>1. /\ v.requests \in Seq(WithdrawalRequest) /\ Len(v.requests) \in Nat
      /\ v.claimable \in [LPs -> U64]
      /\ v.locked_capital \in Nat /\ v.total_managed_assets \in Nat
      /\ v.withdrawal_queue_count \in Nat
  BY Fields, Numbers, LenProperties, VaultAssumption DEF WellFormed
<1>2. OwedBy(v.requests, 0, LPs) = 0 /\ \A lp \in LPs : OwedBy(v.requests, 0, {lp}) = 0
  BY <1>1, OwedNothing
<1>3. 0 \in Fillable(v, << >>)
  <2>1. Len(<< >>) = 0
    OBVIOUS
  <2>2. 0 <= v.total_managed_assets - v.locked_capital
    BY <1>1
  <2> QED
    BY <1>1, <1>2, <2>1, <2>2 DEF Fillable
<1>4. credited \in [LPs -> U64]
  <2>1. ASSUME NEW lp \in LPs
        PROVE  v.claimable[lp] + OwedBy(v.requests, 0, {lp}) = v.claimable[lp]
    <3>1. v.claimable[lp] \in Nat /\ OwedBy(v.requests, 0, {lp}) = 0
      BY <1>2, Numbers
    <3> QED
      BY <3>1
  <2> QED
    BY <1>1, <2>1
<1>5. drained \in process_withdrawal_queue(v, << >>)
  <2>1. ~(v.locked_capital > v.total_managed_assets)
    BY <1>1
  <2>2. 0 <= v.withdrawal_queue_count /\ \A i \in 1 .. 0 : << >>[i] = v.requests[i].owner
    BY <1>1
  <2> QED
    BY <1>3, <1>4, <2>1, <2>2 DEF process_withdrawal_queue, When
<1>7. /\ drained.last_snapshot_time = v.last_snapshot_time
      /\ drained.supply = v.supply
      /\ drained.total_managed_assets = v.total_managed_assets
  BY DEF WellFormed, VaultType
<1> HIDE DEF drained
<1>8. SnapshotTaken(drained) \/ PriceFits(drained)
  BY <1>7 DEF SnapshotTaken, PriceFits
<1>6. PICK after : after \in snapshot(drained, Day(now))
  BY <1>8 DEF snapshot, When
<1> QED
  BY <1>5, <1>6 DEF housekeeping

\* The stablecoin is one mint, whose supply is a u64: no two accounts hold more.
OneMint == vault.vault_tokens + flight_pool.pool_treasury \in U64

\* What a pool holds and has locked for it, in numbers.
LEMMA PoolCovered ==
    ASSUME FlightsInv, MoneyInv, CountedInv, PricesInv, OneMint,
           DefaultTerms.premium <= DefaultTerms.payoff,
           NEW f \in Flights, flight_pool.pools[f].status = "Active"
    PROVE  LET premium == TotalPremium(flight_pool, f)
               payoff == TotalPayoff(flight_pool, f)
           IN  /\ premium \in Nat /\ payoff \in Nat
               /\ premium <= payoff
               /\ premium <= flight_pool.pool_treasury
               /\ payoff <= vault.locked_capital
               /\ vault.total_managed_assets <= vault.vault_tokens
<1> DEFINE pool == flight_pool.pools[f]
           premium == pool.premium * pool.buyer_count
           payoff == pool.payoff * pool.buyer_count
<1>0. /\ flight_pool \in FlightPoolType /\ WellFormed(vault) /\ Surplus(vault) = 0
      /\ Excess(flight_pool) = 0
      /\ pool \in FlightPoolAccount
      /\ \A g \in Flights : Counted(flight_pool.pools[g], flight_pool.buyers[g], now)
      /\ Usual(pool) /\ vault.locked_capital = AllLocks(flight_pool)
  BY PoolFields DEF FlightsInv, FlightsTypeOK, MoneyInv, CountedInv, PricesInv, NoAccount
<1>1. premium \in Nat /\ payoff \in Nat
  BY <1>0, PoolNumbers
<1>2. premium <= payoff
  <2>1. pool.premium <= pool.payoff
    BY <1>0 DEF Usual
  <2> QED
    BY <1>0, <2>1, PoolNumbers, ProductMonotonic
<1>3. payoff <= vault.locked_capital
  BY <1>0, BookNumbers DEF Locks
<1>4. premium <= flight_pool.pool_treasury
  <2> DEFINE share == [g \in Flights |-> Share(flight_pool.pools[g])]
  <2>1. ASSUME NEW g \in Flights PROVE Share(flight_pool.pools[g]) \in Nat
    <3> DEFINE q == flight_pool.pools[g]
    <3>1. /\ q \in FlightPoolAccount /\ flight_pool.buyers[g] \in [Travelers -> BuyerRecord]
          /\ Counted(q, flight_pool.buyers[g], now)
      BY <1>0, PoolFields
    <3> HIDE DEF q
    <3>2. q.buyer_count - q.claimed_count \in Nat /\ q.payoff \in Nat
          /\ q.premium * q.buyer_count \in Nat
      BY <3>1, CountedNumbers, PoolNumbers
    <3>3. (q.buyer_count - q.claimed_count) * q.payoff \in Nat
      BY <3>2, Products
    <3> QED
      BY <3>2, <3>3 DEF Share, q
  <2>2. share \in [Flights -> Nat] /\ share[f] = premium /\ Shares(flight_pool) = SumFunction(share)
    BY <2>1 DEF Share, Shares
  <2> HIDE DEF share, premium
  <2>3. premium <= Shares(flight_pool) /\ Shares(flight_pool) \in Nat
    BY <2>2, SumOfNaturals, FlightsAssumption
  <2>4. /\ flight_pool.pool_treasury - flight_pool.recovered_balance - Shares(flight_pool) = 0
        /\ flight_pool.pool_treasury \in Nat /\ flight_pool.recovered_balance \in Nat
    BY <1>0, Balances DEF Excess
  <2> QED
    BY <1>1, <2>3, <2>4
<1>5. vault.total_managed_assets <= vault.vault_tokens
  <2> DEFINE due == [lp \in LPs |-> Due(vault, lp)]
             owed == SumFunction(due)
  <2>1. due \in [LPs -> Nat]
    BY <1>0, Numbers
  <2>2. owed \in Nat
    <3> HIDE DEF due
    <3> QED
      BY <2>1, SumOfNaturals, VaultAssumption
  <2>3. vault.vault_tokens - vault.total_managed_assets - owed = 0
    BY <1>0 DEF Surplus
  <2> HIDE DEF owed
  <2>4. vault.vault_tokens \in Nat /\ vault.total_managed_assets \in Nat
    BY <1>0, Numbers
  <2> QED
    BY <2>2, <2>3, <2>4
<1> QED
  BY <1>1, <1>2, <1>3, <1>4, <1>5 DEF TotalPremium, TotalPayoff

\* settle_flight, while the locked capital does not exceed the managed assets.
LEMMA FlightSettlable ==
    ASSUME FlightsInv, MoneyInv, CountedInv, PricesInv, OneMint,
           DefaultTerms.premium <= DefaultTerms.payoff,
           vault.locked_capital <= vault.total_managed_assets,
           NEW f \in Flights, oracle[f].status \in ToBeSettled
    PROVE  \E w \in settle_flight(Settling, f) :
              WellFormed(w.vault) /\ w.vault.locked_capital <= w.vault.total_managed_assets
<1> DEFINE p == flight_pool
           premium == TotalPremium(p, f)
           payoff == TotalPayoff(p, f)
           o == [oracle EXCEPT ![f].status = "Settled"]
           Fits(v) == WellFormed(v) /\ v.locked_capital <= v.total_managed_assets
<1>1. /\ oracle[f] \in FlightData /\ InStep(oracle[f], p.pools[f])
      /\ p \in FlightPoolType /\ p.pools[f] \in FlightPoolAccount
      /\ WellFormed(vault)
  BY PoolFields DEF FlightsInv, FlightsTypeOK, MoneyInv
<1>2. p.pools[f].status = "Active"
  BY <1>1 DEF InStep, ToBeSettled, NoAccount, FlightPoolAccount
<1>3. /\ premium \in Nat /\ payoff \in Nat /\ premium <= payoff
      /\ premium <= p.pool_treasury /\ payoff <= vault.locked_capital
      /\ vault.total_managed_assets <= vault.vault_tokens
  BY <1>2, PoolCovered
<1>4. /\ p.pool_treasury \in Nat /\ vault.vault_tokens \in Nat
      /\ vault.locked_capital \in Nat /\ vault.total_managed_assets \in Nat
      /\ vault.vault_tokens + p.pool_treasury <= U64_MAX
  BY <1>1, Balances, Numbers DEF OneMint, U64
<1> HIDE DEF premium, payoff
<1>5. /\ payoff - premium \in Nat
      /\ payoff - premium <= vault.vault_tokens
      /\ payoff - premium <= vault.total_managed_assets
      /\ payoff <= U64_MAX /\ premium <= U64_MAX
      /\ vault.vault_tokens + premium <= U64_MAX
      /\ vault.total_managed_assets + premium <= U64_MAX
      /\ p.pool_treasury + (payoff - premium) <= U64_MAX
  <2> DEFINE treasury == p.pool_treasury
             tokens == vault.vault_tokens
             locked == vault.locked_capital
             managed == vault.total_managed_assets
  <2>0. vault.locked_capital <= vault.total_managed_assets /\ U64_MAX \in Nat
    BY ChainAssumption
  <2>1. /\ treasury \in Int /\ tokens \in Int /\ locked \in Int /\ managed \in Int
        /\ premium \in Int /\ payoff \in Int /\ U64_MAX \in Int
        /\ 0 <= premium /\ premium <= payoff /\ premium <= treasury /\ payoff <= locked
        /\ locked <= managed /\ managed <= tokens /\ tokens + treasury <= U64_MAX
    BY <1>3, <1>4, <2>0
  <2> HIDE DEF treasury, tokens, locked, managed
  <2>2. /\ payoff - premium \in Nat /\ payoff - premium <= tokens
        /\ payoff - premium <= managed
    BY <2>1
  <2>3. payoff <= U64_MAX /\ premium <= U64_MAX /\ tokens + premium <= U64_MAX
    BY <2>1
  <2>4. managed + premium <= U64_MAX /\ treasury + (payoff - premium) <= U64_MAX
    BY <2>1
  <2> QED
    BY <2>2, <2>3, <2>4 DEF treasury, tokens, locked, managed
<1>6. /\ premium \in U64 /\ payoff \in U64
      /\ vault.vault_tokens + premium \in U64
      /\ vault.total_managed_assets + premium \in U64
      /\ p.pool_treasury + (payoff - premium) \in U64
  <2>1. \A n \in Nat : n <= U64_MAX => n \in U64
    BY ChainAssumption DEF U64
  <2>2. /\ vault.vault_tokens + premium \in Nat
        /\ vault.total_managed_assets + premium \in Nat
        /\ p.pool_treasury + (payoff - premium) \in Nat
    BY <1>3, <1>4, <1>5
  <2> QED
    BY <1>3, <1>5, <2>1, <2>2
<1>7. o \in set_settled(oracle, f)
  BY DEF set_settled, When
<1>8. PayoutDiff(p, f) = payoff - premium
  BY DEF PayoutDiff, payoff, premium
<1> HIDE DEF o
<1>9. ASSUME NEW x, NEW v, NEW q, NEW paid,
             x = [ vault |-> v, flight_pool |-> q, oracle |-> oracle, paid |-> paid ],
             Fits(v),
             \/ /\ oracle[f].status = "ToBeSettledOnTime"
                /\ x \in settle_on_time_branch(Settling, f)
             \/ /\ oracle[f].status = "ToBeSettledDelayed"
                /\ x \in settle_payout_branch(Settling, f, "Delayed")
             \/ /\ oracle[f].status = "ToBeSettledCancelled"
                /\ x \in settle_payout_branch(Settling, f, "Cancelled")
      PROVE  \E w \in settle_flight(Settling, f) : Fits(w.vault)
  <2> DEFINE branch == CASE oracle[f].status = "ToBeSettledOnTime" ->
                              settle_on_time_branch(Settling, f)
                         [] oracle[f].status = "ToBeSettledDelayed" ->
                              settle_payout_branch(Settling, f, "Delayed")
                         [] oracle[f].status = "ToBeSettledCancelled" ->
                              settle_payout_branch(Settling, f, "Cancelled")
                         [] OTHER -> {}
             With(a, b) == [a EXCEPT !.oracle = b]
             w == With(x, o)
  <2>1. x \in branch
    BY <1>9
  <2>2. /\ Settling.oracle = oracle /\ Settling.flight_pool = p
    BY DEF Settling
  <2>3. /\ p.pools[f].status # NoAccount /\ premium \in U64 /\ payoff \in U64
        /\ PayoutDiff(p, f) >= 0
    BY <1>2, <1>5, <1>6, <1>8 DEF NoAccount
  <2>4. settle_flight(Settling, f)
           = {With(settled[1], settled[2]) :
                 settled \in branch \X set_settled(oracle, f)}
    BY <2>2, <2>3 DEF settle_flight, premium, payoff
  <2> HIDE DEF branch
  <2>5. \E settled \in branch \X set_settled(oracle, f) : settled[1] = x /\ settled[2] = o
    <3>1. <<x, o>> \in branch \X set_settled(oracle, f)
      BY <1>7, <2>1
    <3> QED
      BY <3>1
  <2>6. w.vault = v
    BY <1>9
  <2> HIDE DEF With
  <2>7. w \in settle_flight(Settling, f)
    BY <2>4, <2>5
  <2> HIDE DEF w, Fits
  <2> QED
    BY <1>9, <2>6, <2>7
<1>10. CASE oracle[f].status = "ToBeSettledOnTime"
  <2>1. PICK v \in settle_premium_into_vault(vault, premium, payoff) :
           /\ v.total_managed_assets = vault.total_managed_assets + premium
           /\ v.locked_capital = vault.locked_capital - payoff
    BY <1>1, <1>3, <1>6, PremiumAccepted
  <2>2. Fits(v)
    <3>1. v.locked_capital <= v.total_managed_assets
      BY <1>3, <1>4, <2>1
    <3> QED
      BY <1>1, <1>3, <3>1, SettlePremiumWellFormed
  <2>3. PICK q : q \in settle_on_time(p, f)
    BY <1>2, <1>3 DEF settle_on_time, When, premium
  <2> DEFINE x == [ vault |-> v, flight_pool |-> q, oracle |-> oracle, paid |-> 0 ]
  <2>4. x \in settle_on_time_branch(Settling, f)
    <3> DEFINE Placed(a, b) == [Settling EXCEPT !.flight_pool = a, !.vault = b]
    <3>0. PICK y : y = Placed(q, v)
      OBVIOUS
    <3>1. y = x
      BY <3>0 DEF Settling
    <3>2. settle_on_time_branch(Settling, f)
             = {Placed(pair[1], pair[2]) :
                   pair \in settle_on_time(p, f)
                              \X settle_premium_into_vault(vault, premium, payoff)}
      BY DEF settle_on_time_branch, Settling, premium, payoff
    <3> HIDE DEF Placed, x
    <3>3. <<q, v>> \in settle_on_time(p, f)
                         \X settle_premium_into_vault(vault, premium, payoff)
      BY <2>1, <2>3
    <3>4. /\ <<q, v>>[1] = q /\ <<q, v>>[2] = v
      OBVIOUS
    <3>5. \E pair \in settle_on_time(p, f)
                       \X settle_premium_into_vault(vault, premium, payoff) : pair[1] = q /\ pair[2] = v
      BY <3>3, <3>4
    <3> QED
      BY <3>0, <3>1, <3>2, <3>5
  <2>5. x = [ vault |-> v, flight_pool |-> q, oracle |-> oracle, paid |-> 0 ]
    OBVIOUS
  <2> HIDE DEF Fits, x
  <2>6. /\ oracle[f].status = "ToBeSettledOnTime"
        /\ x \in settle_on_time_branch(Settling, f)
    BY <1>10, <2>4
  <2>7. \E w \in settle_flight(Settling, f) : Fits(w.vault)
    BY <1>9, <2>2, <2>5, <2>6
  <2> QED
    BY <2>7 DEF Fits
<1>11. ASSUME NEW variant \in {"Delayed", "Cancelled"}
       PROVE  \E x \in settle_payout_branch(Settling, f, variant) :
                 \E v, q, paid :
                    /\ x = [ vault |-> v, flight_pool |-> q, oracle |-> oracle, paid |-> paid ]
                    /\ Fits(v)
  <2> DEFINE claim_expiry == now + CLAIM_EXPIRY_WINDOW
             settle(r) == IF variant = "Delayed" THEN settle_delayed(r, f, claim_expiry)
                                                 ELSE settle_cancelled(r, f, claim_expiry)
             received == [p EXCEPT !.pool_treasury = @ + PayoutDiff(p, f)]
             opened == UNION {settle(r) : r \in PayoutReceived(p, f)}
             calls == settle_payout_from_vault(vault, PayoutDiff(p, f), payoff)
  <2>1. PICK v \in calls :
           /\ v.total_managed_assets = vault.total_managed_assets - (payoff - premium)
           /\ v.locked_capital = vault.locked_capital - payoff
    BY <1>1, <1>3, <1>5, <1>8, PayoutAccepted
  <2>2. Fits(v)
    <3>1. v.locked_capital <= v.total_managed_assets
      BY <1>3, <1>4, <1>5, <2>1
    <3> QED
      BY <1>1, <1>3, <1>5, <1>8, <3>1, SettlePayoutWellFormed
  <2>3. received \in PayoutReceived(p, f)
    BY <1>6, <1>8 DEF PayoutReceived, When
  <2>4. received.pools = p.pools
    BY <1>1 DEF FlightPoolType
  <2> HIDE DEF received
  <2>5. PICK q : q \in settle(received)
    BY <1>2, <2>4 DEF settle_delayed, settle_cancelled, When
  <2>6. q \in opened
    BY <2>3, <2>5
  <2> DEFINE x == [ vault |-> v, flight_pool |-> q, oracle |-> oracle,
                    paid |-> Settling.paid + PayoutDiff(p, f) ]
  <2>7. x \in settle_payout_branch(Settling, f, variant)
    <3> DEFINE Placed(a, b) == [Settling EXCEPT !.flight_pool = a, !.vault = b,
                                                !.paid = @ + PayoutDiff(p, f)]
    <3>0. PICK y : y = Placed(q, v)
      OBVIOUS
    <3>1. y = x
      BY <3>0 DEF Settling
    <3>2. settle_payout_branch(Settling, f, variant)
             = {Placed(pair[1], pair[2]) : pair \in opened \X calls}
      BY DEF settle_payout_branch, Settling, payoff
    <3> HIDE DEF opened, calls, Placed, x
    <3>3. <<q, v>> \in opened \X calls
      BY <2>1, <2>6
    <3>4. /\ <<q, v>>[1] = q /\ <<q, v>>[2] = v
      OBVIOUS
    <3>5. \E pair \in opened \X calls : pair[1] = q /\ pair[2] = v
      BY <3>3, <3>4
    <3> QED
      BY <3>0, <3>1, <3>2, <3>5
  <2> HIDE DEF Fits
  <2> QED
    BY <2>2, <2>7
<1>12. CASE oracle[f].status = "ToBeSettledDelayed"
  BY <1>9, <1>11, <1>12
<1>13. CASE oracle[f].status = "ToBeSettledCancelled"
  BY <1>9, <1>11, <1>13
<1> QED
  BY <1>10, <1>12, <1>13 DEF ToBeSettled

\* No classified flight is ever wedged by the money: in every reachable state
\* where the locked capital does not exceed the managed assets, its settlement
\* goes through all its calls, alone and without claimable accounts - when no
\* update names a price, the default payoff is not below the default premium,
\* and the two token accounts together fit their mint.  Only the two records
\* nothing reads back may refuse it, by outgrowing their u64: the share price
\* after the settlement, on a day without a snapshot, and the total of payouts.
THEOREM NeverWedged ==
    ASSUME PricesKept, DefaultTerms.premium <= DefaultTerms.payoff
    PROVE  SentinelSpec /\ []OneMint => []SettlementNeverWedged
<1>1. ASSUME FlightsInv, MoneyInv, CountedInv, PricesInv, OneMint
      PROVE  SettlementNeverWedged
  <2> SUFFICES ASSUME NEW f \in Flights, oracle[f].status \in ToBeSettled,
                      vault.locked_capital <= vault.total_managed_assets
               PROVE  \E w \in settle_batch(Settling, <<f>>) :
                         \/ /\ housekeeping(w.vault, << >>, Day(now)) # {}
                            /\ CountPayouts(controller, w.paid) # {}
                         \/ ~SnapshotTaken(w.vault) /\ ~PriceFits(w.vault)
                         \/ controller.total_payouts_distributed + w.paid \notin U64
    BY DEF SettlementNeverWedged
  <2>1. PICK w \in settle_flight(Settling, f) :
          WellFormed(w.vault) /\ w.vault.locked_capital <= w.vault.total_managed_assets
    BY <1>1, FlightSettlable
  <2>2. w \in settle_batch(Settling, <<f>>)
    BY DEF settle_batch
  <2>3. ASSUME SnapshotTaken(w.vault) \/ PriceFits(w.vault)
        PROVE  housekeeping(w.vault, << >>, Day(now)) # {}
    BY <2>1, <2>3, HousekeepingAccepted
  <2>4. ASSUME controller.total_payouts_distributed + w.paid \in U64
        PROVE  CountPayouts(controller, w.paid) # {}
    BY <2>4 DEF CountPayouts, When
  <2> QED
    BY <2>2, <2>3, <2>4
<1> QED
  BY <1>1, PricesInvariant, PTL

-----------------------------------------------------------------------------
(* The programs implement the ledger of policies. *)

\* The ledger's view of a policy, from its record and its flight's pool.
PolicyIn(pool, record) ==
    IF record = "HasPolicy"
    THEN CASE pool.status = "Active" -> "live"
           [] pool.status = "SettledOnTime" -> "expired"
           [] OTHER -> IF pool.claimed_count = pool.buyer_count THEN "recovered"
                                                                ELSE "payable"
    ELSE IF record = "Claimed" THEN "paid" ELSE "none"

TermsIn(pool) == [premium |-> pool.premium, payoff |-> pool.payoff]

\* Its cases.
LEMMA PolicyCases ==
    ASSUME NEW pool, NEW record
    PROVE  /\ record = NoAccount => PolicyIn(pool, record) = "none"
           /\ record = "Claimed" => PolicyIn(pool, record) = "paid"
           /\ record = "HasPolicy" =>
                /\ pool.status = "Active" => PolicyIn(pool, record) = "live"
                /\ pool.status = "SettledOnTime" => PolicyIn(pool, record) = "expired"
                /\ pool.status \in Payable =>
                      PolicyIn(pool, record)
                         = IF pool.claimed_count = pool.buyer_count THEN "recovered"
                                                                    ELSE "payable"
<1>1. record = NoAccount => PolicyIn(pool, record) = "none"
  BY DEF PolicyIn, NoAccount
<1>2. record = "Claimed" => PolicyIn(pool, record) = "paid"
  BY DEF PolicyIn, NoAccount
<1>3. record = "HasPolicy" /\ pool.status = "Active" => PolicyIn(pool, record) = "live"
  BY DEF PolicyIn, NoAccount
<1>4. record = "HasPolicy" /\ pool.status = "SettledOnTime"
         => PolicyIn(pool, record) = "expired"
  BY DEF PolicyIn, NoAccount
<1>5. record = "HasPolicy" /\ pool.status \in Payable
         => PolicyIn(pool, record)
               = IF pool.claimed_count = pool.buyer_count THEN "recovered" ELSE "payable"
  BY DEF PolicyIn, NoAccount, Payable
<1> QED
  BY <1>1, <1>2, <1>3, <1>4, <1>5

\* The ledger's variables, by the pools and their records.
LEMMA LedgerView ==
    /\ \A f \in Flights, t \in Travelers :
          PolicyOf(f, t) = PolicyIn(flight_pool.pools[f], flight_pool.buyers[f][t])
    /\ \A f \in Flights, t \in Travelers :
          PolicyOf(f, t)' = PolicyIn(flight_pool'.pools[f], flight_pool'.buyers[f][t])
<1>1. \A f \in Flights, t \in Travelers :
          PolicyOf(f, t) = PolicyIn(flight_pool.pools[f], flight_pool.buyers[f][t])
  BY DEF PolicyOf, PolicyIn, Pool
<1>2. \A f \in Flights, t \in Travelers :
          PolicyOf(f, t)' = PolicyIn(flight_pool'.pools[f], flight_pool'.buyers[f][t])
  BY DEF PolicyOf, PolicyIn, Pool
<1> QED
  BY <1>1, <1>2

\* What the ledger asks of a flight's policies.
LEMMA LedgerParts ==
    /\ \A f \in Flights : \A s :
          Ledger!With(f, s) = {t \in Travelers :
               PolicyIn(flight_pool.pools[f], flight_pool.buyers[f][t]) = s}
    /\ \A f \in Flights : Ledger!Open(f) <=>
          \A t \in Travelers :
             PolicyIn(flight_pool.pools[f], flight_pool.buyers[f][t]) \in {"none", "live"}
<1>1. ASSUME NEW f \in Flights, NEW s
      PROVE  Ledger!With(f, s) = {t \in Travelers :
               PolicyIn(flight_pool.pools[f], flight_pool.buyers[f][t]) = s}
  BY LedgerView DEF Ledger!With
<1>2. ASSUME NEW f \in Flights
      PROVE  Ledger!Open(f) <=>
          \A t \in Travelers :
             PolicyIn(flight_pool.pools[f], flight_pool.buyers[f][t]) \in {"none", "live"}
  BY LedgerView DEF Ledger!Open
<1> QED
  BY <1>1, <1>2

\* A flight's policy, as the ledger has it before and after a transaction.
Was(f, t) == PolicyIn(flight_pool.pools[f], flight_pool.buyers[f][t])
Becomes(f, t) == PolicyIn(flight_pool'.pools[f], flight_pool'.buyers[f][t])

\* The ledger's terms and policies before and after, as functions.
LEMMA LedgerValues ==
    /\ [f \in Flights |-> [t \in Travelers |-> PolicyOf(f, t)]]
          = [f \in Flights |-> [t \in Travelers |-> Was(f, t)]]
    /\ [f \in Flights |-> [t \in Travelers |-> PolicyOf(f, t)]]'
          = [f \in Flights |-> [t \in Travelers |-> Becomes(f, t)]]
    /\ [f \in Flights |-> [premium |-> Pool(f).premium, payoff |-> Pool(f).payoff]]
          = [f \in Flights |-> TermsIn(flight_pool.pools[f])]
    /\ [f \in Flights |-> [premium |-> Pool(f).premium, payoff |-> Pool(f).payoff]]'
          = [f \in Flights |-> TermsIn(flight_pool'.pools[f])]
<1>1. [f \in Flights |-> [t \in Travelers |-> PolicyOf(f, t)]]
         = [f \in Flights |-> [t \in Travelers |-> Was(f, t)]]
  BY LedgerView DEF Was
<1>2. [f \in Flights |-> [t \in Travelers |-> PolicyOf(f, t)]]'
         = [f \in Flights |-> [t \in Travelers |-> Becomes(f, t)]]
  BY LedgerView DEF Becomes
<1>3. [f \in Flights |-> [premium |-> Pool(f).premium, payoff |-> Pool(f).payoff]]
          = [f \in Flights |-> TermsIn(flight_pool.pools[f])]
  BY DEF TermsIn, Pool
<1>4. [f \in Flights |-> [premium |-> Pool(f).premium, payoff |-> Pool(f).payoff]]'
          = [f \in Flights |-> TermsIn(flight_pool'.pools[f])]
  BY DEF TermsIn, Pool
<1> QED
  BY <1>1, <1>2, <1>3, <1>4

\* A sale is the ledger's Sell.
LEMMA SaleSells ==
    ASSUME FlightsInv, MoneyInv, CountedInv, NEW f \in Flights, NEW t \in Travelers,
           NEW pool \in FlightPoolAccount, PoolSold(f, t, pool)
    PROVE  Ledger!Sell(f, t)
<1> DEFINE old == flight_pool.pools[f]
           before == flight_pool.buyers[f]
           after == [before EXCEPT ![t] = "HasPolicy"]
           live == {h \in Travelers : Was(f, h) = "live"}
<1>0. /\ old \in FlightPoolAccount /\ before \in [Travelers -> BuyerRecord]
      /\ Counted(old, before, now) /\ Fresh(old)
  BY PoolFields DEF FlightsInv, FlightsTypeOK, CountedInv, MoneyInv, AllFresh
<1>1. /\ old.status \in {NoAccount, "Active"} /\ before[t] = NoAccount
      /\ pool.status = "Active"
      /\ old.status = "Active" => SameTerms(old, pool)
      /\ flight_pool'.pools[f] = pool /\ flight_pool'.buyers[f] = after
      /\ \A g \in Flights \ {f} : /\ flight_pool'.pools[g] = flight_pool.pools[g]
                                  /\ flight_pool'.buyers[g] = flight_pool.buyers[g]
      /\ flight_pool'.recovered_balance = flight_pool.recovered_balance
      /\ flight_pool'.pool_treasury = flight_pool.pool_treasury + pool.premium
  BY DEF PoolSold, WroteOnly
<1>2. old.status = NoAccount => Held(before) = {}
  <2>1. Held(before) \in SUBSET Travelers
    BY DEF Held
  <2> QED
    BY <1>0, <2>1, Travelling DEF Counted, Fresh
<1>3. /\ Paid(before) = {} /\ (old.status = "Active" => Held(before) # {})
  BY <1>0, <1>1 DEF Counted, Payable, NoAccount
<1>4. ASSUME NEW h \in Travelers
      PROVE  /\ before[h] \in {NoAccount, "HasPolicy"}
             /\ before[h] = "HasPolicy" => old.status = "Active"
             /\ Was(f, h) = IF before[h] = NoAccount THEN "none" ELSE "live"
             /\ Becomes(f, h) = IF h = t THEN "live" ELSE Was(f, h)
  <2>1. before[h] \in {NoAccount, "HasPolicy"}
    BY <1>0, <1>3 DEF Paid, BuyerRecord
  <2>2. before[h] = "HasPolicy" => old.status = "Active"
    BY <1>1, <1>2 DEF Held, NoAccount
  <2>3. Was(f, h) = IF before[h] = NoAccount THEN "none" ELSE "live"
    BY <2>1, <2>2, PolicyCases DEF Was
  <2>4. after[h] = IF h = t THEN "HasPolicy" ELSE before[h]
    BY <1>0
  <2> HIDE DEF after
  <2>5. Becomes(f, h) = IF h = t THEN "live" ELSE Was(f, h)
    BY <1>1, <2>1, <2>3, <2>4, PolicyCases DEF Becomes, NoAccount
  <2> QED
    BY <2>1, <2>2, <2>3, <2>5
<1>5. \A g \in Flights, h \in Travelers :
         Becomes(g, h) = IF g = f /\ h = t THEN "live" ELSE Was(g, h)
  BY <1>1, <1>4 DEF Becomes, Was
<1>6. Ledger!Open(f)
  BY <1>4, LedgerParts DEF Was
<1>7. Ledger!With(f, "live") = live
  BY LedgerParts DEF Was
<1>8. live = {} <=> old.status = NoAccount
  <2>1. live = Held(before)
    BY <1>4 DEF Held, NoAccount
  <2> QED
    BY <1>1, <1>2, <1>3, <2>1 DEF NoAccount
<1>9. [g \in Flights |-> [h \in Travelers |-> Becomes(g, h)]]
         = [[g \in Flights |-> [h \in Travelers |-> Was(g, h)]] EXCEPT ![f][t] = "live"]
  BY <1>5
<1>10. /\ TermsIn(pool) \in [premium : U64, payoff : U64]
       /\ \A g \in Flights : TermsIn(flight_pool'.pools[g])
             = IF g = f THEN TermsIn(pool) ELSE TermsIn(flight_pool.pools[g])
       /\ old.status = "Active" => TermsIn(pool) = TermsIn(old)
  BY <1>1 DEF TermsIn, SameTerms, FlightPoolAccount
<1>11. TermsIn(pool).premium = pool.premium
  BY DEF TermsIn
<1> DEFINE terms == [g \in Flights |-> TermsIn(flight_pool.pools[g])]
           terms2 == [g \in Flights |-> TermsIn(flight_pool'.pools[g])]
<1>12. /\ terms2[f] = TermsIn(pool)
       /\ terms2 = [terms EXCEPT ![f] = terms2[f]]
       /\ old.status = "Active" => terms2 = terms
  BY <1>10
<1>13. Was(f, t) = "none"
  BY <1>1, <1>4
<1> HIDE DEF live, terms, terms2
<1>14. IF live = {}
       THEN terms2[f] \in [premium : U64, payoff : U64] /\ terms2 = [terms EXCEPT ![f] = terms2[f]]
       ELSE terms2 = terms
  BY <1>1, <1>8, <1>10, <1>12
<1>15. flight_pool'.pool_treasury = flight_pool.pool_treasury + terms2[f].premium
  BY <1>1, <1>11, <1>12
<1>16. [g \in Flights |-> [h \in Travelers |-> PolicyOf(g, h)]]'
          = [[g \in Flights |-> [h \in Travelers |-> PolicyOf(g, h)]] EXCEPT ![f][t] = "live"]
  BY <1>9, LedgerValues
<1>17. /\ [g \in Flights |-> [premium |-> Pool(g).premium, payoff |-> Pool(g).payoff]] = terms
       /\ [g \in Flights |-> [premium |-> Pool(g).premium, payoff |-> Pool(g).payoff]]' = terms2
  BY LedgerValues DEF terms, terms2
<1>18. IF Ledger!With(f, "live") = {}
       THEN /\ [g \in Flights |-> [premium |-> Pool(g).premium, payoff |-> Pool(g).payoff]]'[f]
                   \in Ledger!Terms
            /\ [g \in Flights |-> [premium |-> Pool(g).premium, payoff |-> Pool(g).payoff]]'
                  = [[g \in Flights |-> [premium |-> Pool(g).premium,
                                         payoff |-> Pool(g).payoff]]
                     EXCEPT ![f] = [g \in Flights |-> [premium |-> Pool(g).premium,
                                                       payoff |-> Pool(g).payoff]]'[f]]
       ELSE [g \in Flights |-> [premium |-> Pool(g).premium, payoff |-> Pool(g).payoff]]'
               = [g \in Flights |-> [premium |-> Pool(g).premium, payoff |-> Pool(g).payoff]]
  BY ONLY <1>7, <1>14, <1>17 DEF Ledger!Terms
<1>19. flight_pool.pool_treasury' = flight_pool.pool_treasury
          + [g \in Flights |-> [premium |-> Pool(g).premium, payoff |-> Pool(g).payoff]]'[f].premium
  BY <1>15, <1>17
<1>20. [g \in Flights |-> [h \in Travelers |-> PolicyOf(g, h)]][f][t] = "none"
  BY <1>13, LedgerView DEF Was
<1> QED
  BY <1>1, <1>6, <1>16, <1>18, <1>19, <1>20, Zenon DEF Ledger!Sell

\* Pools that keep their terms leave the ledger's terms alone.
LEMMA TermsKeep ==
    ASSUME \A g \in Flights :
              TermsIn(flight_pool'.pools[g]) = TermsIn(flight_pool.pools[g])
    PROVE  [g \in Flights |-> [premium |-> Pool(g).premium, payoff |-> Pool(g).payoff]]'
              = [g \in Flights |-> [premium |-> Pool(g).premium, payoff |-> Pool(g).payoff]]
<1>1. [g \in Flights |-> TermsIn(flight_pool'.pools[g])]
         = [g \in Flights |-> TermsIn(flight_pool.pools[g])]
  OBVIOUS
<1> QED
  BY <1>1, LedgerValues

\* A claim is the ledger's Pay.
LEMMA ClaimPays ==
    ASSUME FlightsInv, CountedInv, NEW f \in Flights, NEW t \in Travelers, PoolClaimed(f, t)
    PROVE  Ledger!Pay(f, t)
<1> DEFINE old == flight_pool.pools[f]
           pool == [old EXCEPT !.claimed_count = @ + 1]
           before == flight_pool.buyers[f]
           after == [before EXCEPT ![t] = "Claimed"]
<1>0. /\ old \in FlightPoolAccount /\ before \in [Travelers -> BuyerRecord]
      /\ Counted(old, before, now)
  BY PoolFields DEF FlightsInv, FlightsTypeOK, CountedInv
<1>1. /\ old.status \in Payable /\ before[t] = "HasPolicy"
      /\ flight_pool'.pools[f] = pool /\ flight_pool'.buyers[f] = after
      /\ \A g \in Flights \ {f} : /\ flight_pool'.pools[g] = flight_pool.pools[g]
                                  /\ flight_pool'.buyers[g] = flight_pool.buyers[g]
      /\ flight_pool'.recovered_balance = flight_pool.recovered_balance
      /\ flight_pool'.pool_treasury = flight_pool.pool_treasury - old.payoff
  BY DEF PoolClaimed, WroteOnly
<1>2. /\ pool.status = old.status /\ pool.buyer_count = old.buyer_count
      /\ pool.claimed_count = old.claimed_count + 1 /\ TermsIn(pool) = TermsIn(old)
  BY <1>0 DEF FlightPoolAccount, TermsIn
<1>3. /\ old.claimed_count = Cardinality(Paid(before))
      /\ old.claimed_count < old.buyer_count
      /\ old.buyer_count = Cardinality(Held(before))
  BY <1>0, ClaimCounted DEF Counted
<1>4. old.claimed_count \in Nat /\ old.buyer_count \in Nat
  BY <1>0, PoolNumbers
<1>5. ASSUME NEW h \in Travelers, h # t, before[h] = "HasPolicy"
      PROVE  pool.claimed_count # pool.buyer_count
  <2> DEFINE S == Paid(before) \cup {t}
  <2>1. /\ Paid(before) \in SUBSET Travelers /\ t \in Travelers \ Paid(before)
        /\ Held(before) \in SUBSET Travelers
        /\ S \in SUBSET Held(before) /\ S # Held(before)
    BY <1>0, <1>1, <1>5 DEF Paid, Held, NoAccount
  <2>2. Cardinality(S) = Cardinality(Paid(before)) + 1
    BY <2>1, Travelling
  <2>3. Cardinality(S) # Cardinality(Held(before))
    BY <2>1, Travelling
  <2> HIDE DEF S, pool
  <2> QED
    BY <1>2, <1>3, <2>2, <2>3
<1>6. \A h \in Travelers :
         /\ before[h] = "HasPolicy" => Was(f, h) = "payable"
         /\ Becomes(f, h) = IF h = t THEN "paid" ELSE Was(f, h)
  <2> SUFFICES ASSUME NEW h \in Travelers
               PROVE  /\ before[h] = "HasPolicy" => Was(f, h) = "payable"
                      /\ Becomes(f, h) = IF h = t THEN "paid" ELSE Was(f, h)
    OBVIOUS
  <2>1. before[h] = "HasPolicy" => Was(f, h) = "payable"
    BY <1>1, <1>3, <1>4, PolicyCases DEF Was
  <2>2. after[h] = IF h = t THEN "Claimed" ELSE before[h]
    BY <1>0
  <2>3. before[h] \in {NoAccount, "HasPolicy", "Claimed"}
    BY <1>0 DEF BuyerRecord, NoAccount
  <2> HIDE DEF after, pool
  <2>4. CASE h = t
    BY <1>1, <2>1, <2>2, <2>4, PolicyCases DEF Becomes
  <2>5. CASE h # t /\ before[h] = "HasPolicy"
    BY <1>1, <1>2, <1>5, <2>1, <2>2, <2>5, PolicyCases DEF Becomes
  <2>6. CASE h # t /\ before[h] \in {NoAccount, "Claimed"}
    BY <1>1, <2>2, <2>6, PolicyCases DEF Becomes, Was
  <2> QED
    BY <2>1, <2>3, <2>4, <2>5, <2>6
<1> HIDE DEF pool, after
<1>7. \A g \in Flights, h \in Travelers :
         Becomes(g, h) = IF g = f /\ h = t THEN "paid" ELSE Was(g, h)
  BY <1>1, <1>6 DEF Becomes, Was
<1>8. [g \in Flights |-> [h \in Travelers |-> Becomes(g, h)]]
         = [[g \in Flights |-> [h \in Travelers |-> Was(g, h)]] EXCEPT ![f][t] = "paid"]
  BY <1>7
<1>9. [g \in Flights |-> [h \in Travelers |-> PolicyOf(g, h)]]'
          = [[g \in Flights |-> [h \in Travelers |-> PolicyOf(g, h)]] EXCEPT ![f][t] = "paid"]
  BY <1>8, LedgerValues
<1>10. [g \in Flights |-> [h \in Travelers |-> PolicyOf(g, h)]][f][t] = "payable"
  BY <1>1, <1>6, LedgerView DEF Was
<1>11. [g \in Flights |-> [premium |-> Pool(g).premium, payoff |-> Pool(g).payoff]]'
          = [g \in Flights |-> [premium |-> Pool(g).premium, payoff |-> Pool(g).payoff]]
  <2>1. \A g \in Flights : TermsIn(flight_pool'.pools[g]) = TermsIn(flight_pool.pools[g])
    BY <1>1, <1>2
  <2> QED
    BY <2>1, TermsKeep
<1>12. flight_pool.pool_treasury' = flight_pool.pool_treasury
          - [g \in Flights |-> [premium |-> Pool(g).premium, payoff |-> Pool(g).payoff]][f].payoff
  BY <1>1 DEF Pool
<1>13. flight_pool.recovered_balance' = flight_pool.recovered_balance
  BY <1>1
<1> QED
  BY <1>9, <1>10, <1>11, <1>12, <1>13, Zenon DEF Ledger!Pay

\* A withdrawal of what was recovered is the ledger's Withdraw.
LEMMA OwnerWithdraws ==
    ASSUME FlightsInv, NEW amount \in RecoveredAmounts, OwnerPaid(amount)
    PROVE  amount \in U64 /\ Ledger!Withdraw(amount)
<1>1. /\ amount \in 1 .. flight_pool.recovered_balance
      /\ flight_pool'.recovered_balance = flight_pool.recovered_balance - amount
      /\ flight_pool'.pool_treasury = flight_pool.pool_treasury - amount
  BY Balances, Amounts DEF OwnerPaid, FlightsInv, FlightsTypeOK
<1>2. [g \in Flights |-> [h \in Travelers |-> PolicyOf(g, h)]]'
         = [g \in Flights |-> [h \in Travelers |-> PolicyOf(g, h)]]
  BY LedgerView DEF OwnerPaid
<1>3. [g \in Flights |-> [premium |-> Pool(g).premium, payoff |-> Pool(g).payoff]]'
         = [g \in Flights |-> [premium |-> Pool(g).premium, payoff |-> Pool(g).payoff]]
  BY DEF Pool, OwnerPaid
<1> QED
  BY <1>1, <1>2, <1>3 DEF Ledger!Withdraw, OwnerPaid

\* The ledger counts and adds as the library does.
LEMMA LedgerCounts == \A S : Ledger!Cardinality(S) = Cardinality(S)
BY DEF Ledger!Cardinality, Cardinality

\* The ledger's sums are the sums of this module.
LEMMA LedgerAdds == \A f : Ledger!SumFunction(f) = SumFunction(f)
BY DEF Ledger!SumFunction, SumFunction, Ledger!SumFunctionOnSet, SumFunctionOnSet,
   Ledger!FoldFunctionOnSet, FoldFunctionOnSet, Ledger!MapThenFoldSet, MapThenFoldSet

\* What is left of a set of travelers.
LEMMA TravelersLeft ==
    ASSUME NEW S \in SUBSET Travelers, NEW R \in SUBSET S
    PROVE  Cardinality(S \ R) = Cardinality(S) - Cardinality(R)
<1>1. IsFiniteSet(S) /\ IsFiniteSet(R) /\ R \in SUBSET Travelers
  BY TravelersAssumption, FS_Subset
<1>2. Cardinality(S \ R) = Cardinality(S) - Cardinality(S \cap R)
  BY <1>1, FS_Difference
<1>3. S \cap R = R
  OBVIOUS
<1> QED
  BY <1>2, <1>3

\* A sweep is the ledger's Recover.
LEMMA SweepRecovers ==
    ASSUME FlightsInv, CountedInv, NEW f \in Flights, PoolSwept(f)
    PROVE  Ledger!Recover(f)
<1> DEFINE old == flight_pool.pools[f]
           pool == [old EXCEPT !.claimed_count = old.buyer_count]
           records == flight_pool.buyers[f]
           left == {h \in Travelers : Was(f, h) = "payable"}
<1>0. /\ old \in FlightPoolAccount /\ records \in [Travelers -> BuyerRecord]
      /\ Counted(old, records, now)
  BY PoolFields DEF FlightsInv, FlightsTypeOK, CountedInv
<1>1. /\ old.status \in Payable
      /\ flight_pool'.pools[f] = pool /\ flight_pool'.buyers[f] = records
      /\ \A g \in Flights \ {f} : /\ flight_pool'.pools[g] = flight_pool.pools[g]
                                  /\ flight_pool'.buyers[g] = flight_pool.buyers[g]
      /\ flight_pool'.recovered_balance
            = flight_pool.recovered_balance
                 + (old.buyer_count - old.claimed_count) * old.payoff
      /\ flight_pool'.pool_treasury = flight_pool.pool_treasury
  BY DEF PoolSwept, WroteOnly
<1>2. /\ pool.status = old.status /\ pool.buyer_count = old.buyer_count
      /\ pool.claimed_count = old.buyer_count /\ TermsIn(pool) = TermsIn(old)
  BY <1>0 DEF FlightPoolAccount, TermsIn
<1>3. old.claimed_count \in Nat /\ old.buyer_count \in Nat /\ old.payoff \in Nat
  BY <1>0, PoolNumbers
<1>4. ASSUME NEW h \in Travelers
      PROVE  /\ records[h] = "HasPolicy" =>
                   Was(f, h) = IF old.claimed_count = old.buyer_count THEN "recovered"
                                                                      ELSE "payable"
             /\ records[h] # "HasPolicy" => Was(f, h) \in {"none", "paid"}
             /\ Becomes(f, h) = IF Was(f, h) = "payable" THEN "recovered" ELSE Was(f, h)
  <2>1. records[h] = "HasPolicy" =>
            Was(f, h) = IF old.claimed_count = old.buyer_count THEN "recovered"
                                                               ELSE "payable"
    BY <1>1, PolicyCases DEF Was
  <2>2. records[h] \in {NoAccount, "HasPolicy", "Claimed"}
    BY <1>0 DEF BuyerRecord, NoAccount
  <2> HIDE DEF pool
  <2>3. CASE records[h] = "HasPolicy"
    <3>1. Becomes(f, h) = "recovered"
      BY <1>1, <1>2, <2>3, PolicyCases DEF Becomes
    <3> QED
      BY <2>1, <2>3, <3>1
  <2>4. CASE records[h] = NoAccount
    <3>1. Becomes(f, h) = "none" /\ Was(f, h) = "none"
      BY <1>1, <2>4, PolicyCases DEF Becomes, Was
    <3> QED
      BY <2>4, <3>1 DEF NoAccount
  <2>5. CASE records[h] = "Claimed"
    <3>1. Becomes(f, h) = "paid" /\ Was(f, h) = "paid"
      BY <1>1, <2>5, PolicyCases DEF Becomes, Was
    <3> QED
      BY <2>5, <3>1
  <2> QED
    BY <2>2, <2>3, <2>4, <2>5
<1> HIDE DEF pool
<1>5. Cardinality(left) = old.buyer_count - old.claimed_count
  <2>1. CASE old.claimed_count = old.buyer_count
    <3>1. left = {}
      BY <1>4, <2>1
    <3>2. Cardinality(left) = 0
      BY <3>1, FS_EmptySet
    <3> QED
      BY <1>3, <2>1, <3>2
  <2>2. CASE old.claimed_count # old.buyer_count
    <3>1. left = Held(records) \ Paid(records)
      BY <1>0, <1>4, <2>2 DEF Held, Paid, BuyerRecord, NoAccount
    <3>2. /\ old.claimed_count = Cardinality(Paid(records))
          /\ old.buyer_count = Cardinality(Held(records))
      BY <1>0, <1>1, <2>2 DEF Counted
    <3>3. Held(records) \in SUBSET Travelers /\ Paid(records) \in SUBSET Held(records)
      BY <1>0, CountedNumbers
    <3> HIDE DEF left
    <3> QED
      BY <3>1, <3>2, <3>3, TravelersLeft
  <2> QED
    BY <2>1, <2>2
<1>6. Ledger!With(f, "payable") = left
  BY LedgerParts DEF Was
<1>7. \A g \in Flights \ {f}, h \in Travelers : Becomes(g, h) = Was(g, h)
  BY <1>1 DEF Becomes, Was
<1>8. [g \in Flights |-> [h \in Travelers |-> PolicyOf(g, h)]]'
          = [[g \in Flights |-> [h \in Travelers |-> PolicyOf(g, h)]] EXCEPT ![f] =
               [h \in Travelers |->
                  IF [g \in Flights |-> [x \in Travelers |-> PolicyOf(g, x)]][f][h] = "payable"
                  THEN "recovered"
                  ELSE [g \in Flights |-> [x \in Travelers |-> PolicyOf(g, x)]][f][h]]]
  <2> DEFINE was == [g \in Flights |-> [h \in Travelers |-> Was(g, h)]]
             becomes == [g \in Flights |-> [h \in Travelers |-> Becomes(g, h)]]
  <2>1. becomes = [was EXCEPT ![f] = [h \in Travelers |->
                      IF was[f][h] = "payable" THEN "recovered" ELSE was[f][h]]]
    BY <1>4, <1>7
  <2> DEFINE policy == [g \in Flights |-> [h \in Travelers |-> PolicyOf(g, h)]]
  <2>2. policy = was /\ policy' = becomes
    BY LedgerValues
  <2> HIDE DEF was, becomes, policy
  <2>3. policy' = [policy EXCEPT ![f] = [h \in Travelers |->
                      IF policy[f][h] = "payable" THEN "recovered" ELSE policy[f][h]]]
    BY <2>1, <2>2, Zenon
  <2> QED
    BY <2>3 DEF policy
<1>9. [g \in Flights |-> [premium |-> Pool(g).premium, payoff |-> Pool(g).payoff]]'
          = [g \in Flights |-> [premium |-> Pool(g).premium, payoff |-> Pool(g).payoff]]
  <2>1. \A g \in Flights : TermsIn(flight_pool'.pools[g]) = TermsIn(flight_pool.pools[g])
    BY <1>1, <1>2
  <2> QED
    BY <2>1, TermsKeep
<1> HIDE DEF left
<1>10. flight_pool.recovered_balance' = flight_pool.recovered_balance
          + Ledger!Cardinality(Ledger!With(f, "payable"))
              * [g \in Flights |-> [premium |-> Pool(g).premium,
                                    payoff |-> Pool(g).payoff]][f].payoff
  BY <1>1, <1>5, <1>6, LedgerCounts DEF Pool
<1>11. flight_pool.pool_treasury' = flight_pool.pool_treasury
  BY <1>1
<1> QED
  BY <1>8, <1>9, <1>10, <1>11, Zenon DEF Ledger!Recover

\* What becomes of the policies of a flight that a batch closes.
Outcome(pool) == IF pool.status = "SettledOnTime" THEN "expired" ELSE "payable"

\* A pool that is closed, in the ledger's view.
LEMMA ClosedResolves ==
    ASSUME FlightsInv, CountedInv, Closes(flight_pool, flight_pool'), NEW f \in Flights,
           flight_pool'.pools[f] # flight_pool.pools[f]
    PROVE  LET pool == flight_pool.pools[f]
               pool2 == flight_pool'.pools[f]
           IN  /\ \A t \in Travelers :
                     /\ Was(f, t) \in {"none", "live"}
                     /\ Becomes(f, t) = IF Was(f, t) = "live" THEN Outcome(pool2) ELSE Was(f, t)
               /\ Ledger!With(f, "live") # {}
               /\ Cardinality(Ledger!With(f, "live")) = pool.buyer_count
               /\ TermsIn(pool2) = TermsIn(pool)
               /\ Share(pool2) - Share(pool) = pool.buyer_count *
                     (IF Outcome(pool2) = "payable" THEN pool.payoff - pool.premium
                                                    ELSE -pool.premium)
<1> DEFINE pool == flight_pool.pools[f]
           pool2 == flight_pool'.pools[f]
           records == flight_pool.buyers[f]
           live == {t \in Travelers : Was(f, t) = "live"}
<1>0. /\ pool \in FlightPoolAccount /\ records \in [Travelers -> BuyerRecord]
      /\ Counted(pool, records, now)
  BY PoolFields DEF FlightsInv, FlightsTypeOK, CountedInv
<1>1. /\ Closed(pool, pool2) /\ pool.status = "Active"
      /\ flight_pool'.buyers[f] = records
  BY DEF Closes, Closed
<1>2. /\ pool2.buyer_count = pool.buyer_count /\ pool2.claimed_count = 0
      /\ pool2.premium = pool.premium /\ pool2.payoff = pool.payoff
      /\ pool2.status \in Payable \cup {"SettledOnTime"}
  BY <1>0, <1>1, ClosedCounted DEF SameTerms
<1>3. /\ pool.buyer_count = Cardinality(Held(records)) /\ Held(records) # {}
      /\ Paid(records) = {} /\ pool.claimed_count = 0
  BY <1>0, <1>1 DEF Counted, Payable, NoAccount
<1>4. /\ pool.premium \in Nat /\ pool.payoff \in Nat
      /\ pool.buyer_count \in Nat \ {0}
  <2>1. pool.premium \in Nat /\ pool.payoff \in Nat /\ pool.buyer_count \in Nat
    BY <1>0, PoolNumbers
  <2>2. Held(records) \in SUBSET Travelers
    BY DEF Held
  <2>3. Cardinality(Held(records)) # 0
    BY <1>3, <2>2, Travelling
  <2> QED
    BY <1>3, <2>1, <2>3
<1> HIDE DEF pool, pool2
<1>5. ASSUME NEW t \in Travelers
      PROVE  /\ Was(f, t) = IF records[t] = NoAccount THEN "none" ELSE "live"
             /\ Becomes(f, t) = IF Was(f, t) = "live" THEN Outcome(pool2) ELSE Was(f, t)
  <2>1. records[t] \in {NoAccount, "HasPolicy"}
    BY <1>0, <1>3 DEF Paid, BuyerRecord, NoAccount
  <2>2. Was(f, t) = PolicyIn(pool, records[t]) /\ Becomes(f, t) = PolicyIn(pool2, records[t])
    BY <1>1 DEF Was, Becomes, pool, pool2
  <2>3. CASE records[t] = NoAccount
    <3>1. PolicyIn(pool, records[t]) = "none" /\ PolicyIn(pool2, records[t]) = "none"
      BY <2>3, PolicyCases
    <3> QED
      BY <2>2, <2>3, <3>1
  <2>4. CASE records[t] = "HasPolicy"
    <3>1. PolicyIn(pool, records[t]) = "live"
      BY <1>1, <2>4, PolicyCases
    <3>2. PolicyIn(pool2, records[t]) = Outcome(pool2)
      <4>1. CASE pool2.status = "SettledOnTime"
        BY <2>4, <4>1, PolicyCases DEF Outcome
      <4>2. CASE pool2.status \in Payable
        <5>1. pool2.claimed_count # pool2.buyer_count
          BY <1>2, <1>4
        <5>2. PolicyIn(pool2, records[t]) = "payable"
          BY <2>4, <4>2, <5>1, PolicyCases
        <5> QED
          BY <4>2, <5>2 DEF Outcome, Payable
      <4> QED
        BY <1>2, <4>1, <4>2
    <3> QED
      BY <2>2, <2>4, <3>1, <3>2 DEF NoAccount
  <2> QED
    BY <2>1, <2>3, <2>4
<1>6. live = Held(records)
  BY <1>5 DEF Held
<1>7. Ledger!With(f, "live") = live
  BY LedgerParts DEF Was
<1>8. TermsIn(pool2) = TermsIn(pool)
  BY <1>2 DEF TermsIn
<1>9. Share(pool2) - Share(pool) = pool.buyer_count *
         (IF Outcome(pool2) = "payable" THEN pool.payoff - pool.premium ELSE -pool.premium)
  <2>1. \A n, a, b \in Nat : /\ (n - 0) * b - a * n = n * (b - a)
                             /\ 0 - a * n = n * (-a)
    OBVIOUS
  <2>2. Share(pool) = pool.premium * pool.buyer_count
    BY <1>1 DEF Share
  <2>3. CASE pool2.status = "SettledOnTime"
    <3>1. Share(pool2) = 0
      BY <2>3 DEF Share, Payable
    <3>2. Outcome(pool2) = "expired"
      BY <2>3 DEF Outcome
    <3> QED
      BY <1>4, <2>1, <2>2, <3>1, <3>2
  <2>4. CASE pool2.status \in Payable
    <3>1. Share(pool2) = (pool.buyer_count - 0) * pool.payoff
      BY <1>2, <2>4 DEF Share, Payable
    <3>2. Outcome(pool2) = "payable"
      BY <2>4 DEF Outcome, Payable
    <3> QED
      BY <1>4, <2>1, <2>2, <3>1, <3>2
  <2> QED
    BY <1>2, <2>3, <2>4
<1> HIDE DEF live
<1> QED
  BY <1>3, <1>5, <1>6, <1>7, <1>8, <1>9 DEF pool, pool2

\* The pools a batch closed, and the outcomes of their flights.
ClosedPools == {f \in Flights : flight_pool'.pools[f] # flight_pool.pools[f]}
Outcomes == [f \in ClosedPools |-> Outcome(flight_pool'.pools[f])]

\* The money a batch moves is what the outcomes of its flights say.
LEMMA BatchMoney ==
    ASSUME FlightsInv, CountedInv, flight_pool' \in FlightPoolType, PoolsClosed
    PROVE  flight_pool'.pool_treasury = flight_pool.pool_treasury
              + Ledger!SumFunction([f \in DOMAIN Outcomes |->
                                      Ledger!MoneyMoved(f, Outcomes[f])])
<1> DEFINE old == [f \in Flights |-> Share(flight_pool.pools[f])]
           new == [f \in Flights |-> Share(flight_pool'.pools[f])]
           change == [f \in Flights |-> Share(flight_pool'.pools[f])
                                          - Share(flight_pool.pools[f])]
           moved == [f \in ClosedPools |-> Share(flight_pool'.pools[f])
                                             - Share(flight_pool.pools[f])]
<1>0. flight_pool \in FlightPoolType
  BY DEF FlightsInv, FlightsTypeOK
<1>1. \A f \in Flights : /\ Share(flight_pool.pools[f]) \in Int
                         /\ Share(flight_pool'.pools[f]) \in Int
  BY <1>0, PoolFields, SummandNumbers
<1>2. ClosedPools \in SUBSET Flights
  BY DEF ClosedPools
<1>3. /\ old \in [Flights -> Int] /\ new \in [Flights -> Int] /\ change \in [Flights -> Int]
      /\ moved \in [ClosedPools -> Int]
      /\ \A f \in Flights : new[f] = old[f] + change[f]
  BY <1>1, <1>2
<1>4. \A f \in Flights : change[f] = IF f \in ClosedPools THEN moved[f] ELSE 0
  BY <1>1 DEF ClosedPools
<1>5. DOMAIN Outcomes = ClosedPools
  BY DEF Outcomes
<1>6. ASSUME NEW f \in ClosedPools
      PROVE  Ledger!MoneyMoved(f, Outcomes[f])
                = Share(flight_pool'.pools[f]) - Share(flight_pool.pools[f])
  <2> DEFINE pool == flight_pool.pools[f]
             n == Cardinality(Ledger!With(f, "live"))
  <2>1. /\ Outcomes[f] = Outcome(flight_pool'.pools[f]) /\ f \in Flights
        /\ flight_pool'.pools[f] # flight_pool.pools[f]
    BY DEF Outcomes, ClosedPools
  <2>2. /\ n = pool.buyer_count
        /\ Share(flight_pool'.pools[f]) - Share(pool) = pool.buyer_count *
              (IF Outcome(flight_pool'.pools[f]) = "payable" THEN pool.payoff - pool.premium
                                                             ELSE -pool.premium)
    BY <2>1, ClosedResolves DEF PoolsClosed
  <2>3. Ledger!MoneyMoved(f, Outcomes[f]) = n *
           IF Outcomes[f] = "payable" THEN pool.payoff - pool.premium ELSE -pool.premium
    BY <2>1, LedgerCounts DEF Ledger!MoneyMoved, Pool
  <2> HIDE DEF n, pool
  <2> QED
    BY <2>1, <2>2, <2>3 DEF pool
<1>7. [f \in DOMAIN Outcomes |-> Ledger!MoneyMoved(f, Outcomes[f])] = moved
  BY <1>5, <1>6
<1>8. Shares(flight_pool) = SumFunction(old) /\ Shares(flight_pool') = SumFunction(new)
  BY DEF Shares
<1> HIDE DEF old, new, change, moved
<1>9. SumFunction(new) = SumFunction(old) + SumFunction(change)
  BY <1>3, FlightsAssumption, SumPlus
<1>10. SumFunction(change) = SumFunction(moved)
  BY <1>2, <1>3, <1>4, FlightsAssumption, SumPart
<1>11. SumFunction(old) \in Int /\ SumFunction(change) \in Int
  BY <1>3, FlightsAssumption, SumType
<1>12. /\ flight_pool'.recovered_balance = flight_pool.recovered_balance
       /\ flight_pool'.pool_treasury - flight_pool'.recovered_balance - Shares(flight_pool')
             = flight_pool.pool_treasury - flight_pool.recovered_balance - Shares(flight_pool)
  BY DEF PoolsClosed, Closes, Excess
<1>13. /\ flight_pool.pool_treasury \in Int /\ flight_pool'.pool_treasury \in Int
       /\ flight_pool.recovered_balance \in Int
  BY <1>0, Balances
<1>14. flight_pool'.pool_treasury = flight_pool.pool_treasury + SumFunction(moved)
  BY <1>8, <1>9, <1>10, <1>11, <1>12, <1>13
<1> QED
  BY <1>7, <1>14, LedgerAdds

\* A batch is the ledger's Resolve, of the flights it closed.
LEMMA BatchResolves ==
    ASSUME FlightsInv, CountedInv, flight_pool' \in FlightPoolType, PoolsClosed
    PROVE  Ledger!Resolve(Outcomes)
<1>1. DOMAIN Outcomes = ClosedPools /\ ClosedPools \in SUBSET Flights
  BY DEF Outcomes, ClosedPools
<1>2. Closes(flight_pool, flight_pool')
  BY DEF PoolsClosed
<1>3. \A f \in ClosedPools :
         /\ Ledger!With(f, "live") # {}
         /\ TermsIn(flight_pool'.pools[f]) = TermsIn(flight_pool.pools[f])
         /\ \A t \in Travelers :
               /\ Was(f, t) \in {"none", "live"}
               /\ Becomes(f, t) = IF Was(f, t) = "live" THEN Outcomes[f] ELSE Was(f, t)
  BY <1>2, ClosedResolves DEF ClosedPools, Outcomes
<1>4. \A f \in Flights \ ClosedPools :
         /\ flight_pool'.pools[f] = flight_pool.pools[f]
         /\ flight_pool'.buyers[f] = flight_pool.buyers[f]
  BY <1>2 DEF ClosedPools, Closes
<1>5. \A f \in DOMAIN Outcomes : Ledger!Open(f) /\ Ledger!With(f, "live") # {}
  BY <1>1, <1>3, LedgerParts DEF Was
<1>6. \A f \in Flights, t \in Travelers :
         Becomes(f, t) = IF f \in ClosedPools /\ Was(f, t) = "live" THEN Outcomes[f]
                                                                    ELSE Was(f, t)
  BY <1>1, <1>3, <1>4 DEF Becomes, Was
<1>7. [f \in Flights |-> [t \in Travelers |-> PolicyOf(f, t)]]'
         = [f \in Flights |-> [t \in Travelers |->
              IF f \in DOMAIN Outcomes
                   /\ [g \in Flights |-> [h \in Travelers |-> PolicyOf(g, h)]][f][t] = "live"
              THEN Outcomes[f]
              ELSE [g \in Flights |-> [h \in Travelers |-> PolicyOf(g, h)]][f][t]]]
  <2> DEFINE was == [f \in Flights |-> [t \in Travelers |-> Was(f, t)]]
             becomes == [f \in Flights |-> [t \in Travelers |-> Becomes(f, t)]]
             policy == [f \in Flights |-> [t \in Travelers |-> PolicyOf(f, t)]]
  <2>1. becomes = [f \in Flights |-> [t \in Travelers |->
                     IF f \in DOMAIN Outcomes /\ was[f][t] = "live" THEN Outcomes[f]
                                                                    ELSE was[f][t]]]
    BY <1>1, <1>6
  <2>2. policy = was /\ policy' = becomes
    BY LedgerValues
  <2> HIDE DEF was, becomes, policy
  <2>3. policy' = [f \in Flights |-> [t \in Travelers |->
                     IF f \in DOMAIN Outcomes /\ policy[f][t] = "live" THEN Outcomes[f]
                                                                       ELSE policy[f][t]]]
    BY <2>1, <2>2, Zenon
  <2> QED
    BY <2>3 DEF policy
<1>8. [g \in Flights |-> [premium |-> Pool(g).premium, payoff |-> Pool(g).payoff]]'
         = [g \in Flights |-> [premium |-> Pool(g).premium, payoff |-> Pool(g).payoff]]
  <2>1. \A g \in Flights : TermsIn(flight_pool'.pools[g]) = TermsIn(flight_pool.pools[g])
    BY <1>3, <1>4
  <2> QED
    BY <2>1, TermsKeep
<1>9. flight_pool'.recovered_balance = flight_pool.recovered_balance
  BY <1>2 DEF Closes
<1>10. flight_pool'.pool_treasury = flight_pool.pool_treasury
           + Ledger!SumFunction([f \in DOMAIN Outcomes |->
                                   Ledger!MoneyMoved(f, Outcomes[f])])
  BY BatchMoney
<1> QED
  BY <1>5, <1>7, <1>8, <1>9, <1>10, Zenon DEF Ledger!Resolve

\* A batch that closes no pool moves nothing the ledger sees.
LEMMA IdleBatch ==
    ASSUME FlightsInv, flight_pool' \in FlightPoolType, PoolsClosed, ClosedPools = {}
    PROVE  UNCHANGED Ledger!vars
<1>0. flight_pool \in FlightPoolType
  BY DEF FlightsInv, FlightsTypeOK
<1>1. \A f \in Flights : flight_pool'.pools[f] = flight_pool.pools[f]
  BY DEF ClosedPools
<1>2. /\ flight_pool'.buyers = flight_pool.buyers
      /\ flight_pool'.recovered_balance = flight_pool.recovered_balance
  BY DEF PoolsClosed, Closes
<1>3. flight_pool'.pool_treasury = flight_pool.pool_treasury
  <2>1. Shares(flight_pool') = Shares(flight_pool)
    BY <1>1 DEF Shares
  <2>2. Shares(flight_pool) \in Int
    <3>1. [f \in Flights |-> Share(flight_pool.pools[f])] \in [Flights -> Int]
      BY <1>0, PoolFields, SummandNumbers
    <3> QED
      BY <3>1, FlightsAssumption, SumType DEF Shares
  <2>3. /\ flight_pool.pool_treasury \in Int /\ flight_pool'.pool_treasury \in Int
        /\ flight_pool.recovered_balance \in Int
    BY <1>0, Balances
  <2>4. Excess(flight_pool') = Excess(flight_pool)
    BY DEF PoolsClosed
  <2> QED
    BY <1>2, <2>1, <2>2, <2>3, <2>4 DEF Excess
<1>4. [f \in Flights |-> [t \in Travelers |-> PolicyOf(f, t)]]'
         = [f \in Flights |-> [t \in Travelers |-> PolicyOf(f, t)]]
  <2>1. \A f \in Flights, t \in Travelers : Becomes(f, t) = Was(f, t)
    BY <1>1, <1>2 DEF Becomes, Was
  <2>2. [f \in Flights |-> [t \in Travelers |-> Becomes(f, t)]]
           = [f \in Flights |-> [t \in Travelers |-> Was(f, t)]]
    BY <2>1
  <2> QED
    BY <2>2, LedgerValues
<1>5. [g \in Flights |-> [premium |-> Pool(g).premium, payoff |-> Pool(g).payoff]]'
         = [g \in Flights |-> [premium |-> Pool(g).premium, payoff |-> Pool(g).payoff]]
  <2>1. \A g \in Flights : TermsIn(flight_pool'.pools[g]) = TermsIn(flight_pool.pools[g])
    BY <1>1
  <2> QED
    BY <2>1, TermsKeep
<1> QED
  BY <1>2, <1>3, <1>4, <1>5, Zenon DEF Ledger!vars

\* The programs start where the ledger starts.
LEMMA LedgerInit == SentinelInit => Ledger!Init
<1> SUFFICES ASSUME SentinelInit PROVE Ledger!Init
  OBVIOUS
<1>1. /\ \A f \in Flights : flight_pool.pools[f] = NoPool
      /\ \A f \in Flights, t \in Travelers : flight_pool.buyers[f][t] = NoAccount
      /\ flight_pool.pool_treasury = 0 /\ flight_pool.recovered_balance = 0
  BY DEF SentinelInit, initialize_flight_pool
<1>2. [f \in Flights |-> [t \in Travelers |-> PolicyOf(f, t)]]
         = [f \in Flights |-> [t \in Travelers |-> "none"]]
  <2>1. \A f \in Flights, t \in Travelers : PolicyOf(f, t) = "none"
    BY <1>1, LedgerView, PolicyCases
  <2> QED
    BY <2>1
<1>3. [f \in Flights |-> [premium |-> Pool(f).premium, payoff |-> Pool(f).payoff]]
         \in [Flights -> Ledger!Terms]
  <2>1. \A f \in Flights : flight_pool.pools[f] \in FlightPoolAccount
    BY FlightsInit, PoolFields DEF FlightsInv, FlightsTypeOK
  <2>2. \A f \in Flights : Pool(f).premium \in U64 /\ Pool(f).payoff \in U64
    BY <2>1 DEF Pool, FlightPoolAccount
  <2> QED
    BY <2>2 DEF Ledger!Terms
<1> QED
  BY <1>1, <1>2, <1>3, Zenon DEF Ledger!Init

\* Every transaction is a step of the ledger, or none.
LEMMA LedgerStep ==
    FlightsInv /\ MoneyInv /\ CountedInv /\ [SentinelNext]_vars
       => [Ledger!Next]_(Ledger!vars)
<1> SUFFICES ASSUME FlightsInv, MoneyInv, CountedInv, [SentinelNext]_vars
             PROVE  Ledger!Next \/ UNCHANGED Ledger!vars
  OBVIOUS
<1>0. flight_pool' \in FlightPoolType
  BY FlightsStep DEF FlightsInv, FlightsTypeOK
<1>1. CASE flight_pool' = flight_pool
  <2>1. [f \in Flights |-> [t \in Travelers |-> PolicyOf(f, t)]]'
           = [f \in Flights |-> [t \in Travelers |-> PolicyOf(f, t)]]
    BY <1>1 DEF PolicyOf, Pool
  <2>2. [g \in Flights |-> [premium |-> Pool(g).premium, payoff |-> Pool(g).payoff]]'
           = [g \in Flights |-> [premium |-> Pool(g).premium, payoff |-> Pool(g).payoff]]
    BY <1>1 DEF Pool
  <2>3. /\ flight_pool.pool_treasury' = flight_pool.pool_treasury
        /\ flight_pool.recovered_balance' = flight_pool.recovered_balance
    BY <1>1
  <2> QED
    BY <2>1, <2>2, <2>3, Zenon DEF Ledger!vars
<1>2. ASSUME NEW f \in Flights, NEW t \in Travelers, NEW pool \in FlightPoolAccount,
             PoolSold(f, t, pool)
      PROVE  Ledger!Next
  <2>1. Ledger!Sell(f, t)
    BY <1>2, SaleSells
  <2> QED
    BY <2>1, Zenon DEF Ledger!Next
<1>3. ASSUME NEW f \in Flights, NEW t \in Travelers, PoolClaimed(f, t)
      PROVE  Ledger!Next
  <2>1. Ledger!Pay(f, t)
    BY <1>3, ClaimPays
  <2> QED
    BY <2>1, Zenon DEF Ledger!Next
<1>4. ASSUME NEW f \in Flights, PoolSwept(f)
      PROVE  Ledger!Next
  <2>1. Ledger!Recover(f)
    BY <1>4, SweepRecovers
  <2> QED
    BY <2>1, Zenon DEF Ledger!Next
<1>5. ASSUME NEW amount \in RecoveredAmounts, OwnerPaid(amount)
      PROVE  Ledger!Next
  <2>1. amount \in U64 /\ Ledger!Withdraw(amount)
    BY <1>5, OwnerWithdraws
  <2> QED
    BY <2>1, Zenon DEF Ledger!Next
<1>6. CASE PoolsClosed /\ ClosedPools # {}
  <2>1. Ledger!Resolve(Outcomes)
    BY <1>0, <1>6, BatchResolves
  <2>2. Outcomes \in [ClosedPools -> {"expired", "payable"}]
    BY DEF Outcomes, Outcome
  <2>3. ClosedPools \in SUBSET Flights
    BY DEF ClosedPools
  <2> QED
    BY <1>6, <2>1, <2>2, <2>3, Zenon DEF Ledger!Next
<1>7. CASE PoolsClosed /\ ClosedPools = {}
  BY <1>0, <1>7, IdleBatch
<1> QED
  BY <1>1, <1>2, <1>3, <1>4, <1>5, <1>6, <1>7, EveryStepPools

\* The programs, accounts and counters keep what the ledger of policies
\* promises: whatever the order of the transactions, no policy is sold after its
\* flight was resolved, the policies of a flight are resolved together and the
\* same way, a policy is paid once or recovered, never both, and the treasury
\* moves by what the policies' terms say.
THEOREM ProgramsKeepLedger == SentinelSpec => ImplementsLedger
<1>1. FlightsInv /\ MoneyInv /\ CountedInv /\ [SentinelNext]_vars
         => [Ledger!Next]_(Ledger!vars)
  BY LedgerStep
<1> QED
  BY <1>1, LedgerInit, RecordsInvariant, PTL DEF ImplementsLedger, Ledger!Spec, SentinelSpec
=============================================================================
