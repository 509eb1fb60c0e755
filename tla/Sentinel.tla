------------------------------ MODULE Sentinel ------------------------------
(***************************************************************************)
(* The five programs together, under every order of the transactions of    *)
(* the LPs, the travelers, the owner, the keeper and the oracle.  Each     *)
(* transaction is one step, however many programs it calls.                *)
(***************************************************************************)
EXTENDS Controller

CONSTANTS
    LpFunds,            \* PUSD every LP starts with
    LpAmounts,          \* bound: amounts the LPs deposit, redeem or queue
    RecoveredAmounts,   \* bound: amounts the owner withdraws
    DefaultTerms,       \* GovernanceConfig's defaults at the start
    TermUpdates,        \* bound: updates of a route's terms
    Etas, Arrivals,     \* bound: arrival times the oracle reports
    DATE_THRESHOLD      \* above it, the fetcher reads a date as seconds
                        \* (1,000,000 in flight_data_fetcher.ts)

ASSUME SentinelAssumption ==
    /\ LpFunds \in U64
    /\ LpAmounts \subseteq U64 /\ RecoveredAmounts \subseteq U64
    /\ DefaultTerms \in [premium : U64, payoff : U64, delay_hours : DelayHours]
    /\ TermUpdates \subseteq UpdatesType
    /\ Etas \subseteq Int /\ Arrivals \subseteq Int
    /\ DATE_THRESHOLD \in Nat

vars == <<now, vault, flight_pool, oracle, governance, controller>>

SentinelInit ==
    /\ now = 0
    /\ vault = initialize_vault([lp \in LPs |-> LpFunds])
    /\ flight_pool = initialize_flight_pool
    /\ oracle = initialize_oracle
    /\ governance = initialize_governance(DefaultTerms)
    /\ controller = initialize_controller

-----------------------------------------------------------------------------
\* LPs

Deposit(lp, stable_amount) ==
    /\ vault' \in deposit(vault, lp, stable_amount)
    /\ UNCHANGED <<now, flight_pool, oracle, governance, controller>>

Redeem(lp, shares) ==
    /\ vault' \in redeem(vault, lp, shares)
    /\ UNCHANGED <<now, flight_pool, oracle, governance, controller>>

RequestWithdrawal(lp, shares) ==
    /\ Len(vault.requests) < MaxQueue
    /\ vault' \in request_withdrawal(vault, lp, shares)
    /\ UNCHANGED <<now, flight_pool, oracle, governance, controller>>

CancelWithdrawal(lp, queue_index) ==
    /\ vault' \in cancel_withdrawal(vault, lp, queue_index)
    /\ UNCHANGED <<now, flight_pool, oracle, governance, controller>>

Collect(lp) ==
    /\ vault' \in collect(vault, lp)
    /\ UNCHANGED <<now, flight_pool, oracle, governance, controller>>

-----------------------------------------------------------------------------
\* Travelers, anyone, and the owner of flight_pool

Claim(t, f) ==
    /\ flight_pool' \in claim(flight_pool, f, t)
    /\ UNCHANGED <<now, vault, oracle, governance, controller>>

SweepExpired(f) ==
    /\ flight_pool' \in sweep_expired(flight_pool, f)
    /\ UNCHANGED <<now, vault, oracle, governance, controller>>

WithdrawRecovered(amount) ==
    /\ flight_pool' \in withdraw_recovered(flight_pool, amount)
    /\ UNCHANGED <<now, vault, oracle, governance, controller>>

-----------------------------------------------------------------------------
\* The oracle's key

SetEstimatedArrival(f, eta) ==
    /\ oracle' \in set_estimated_arrival(oracle, f, eta)
    /\ UNCHANGED <<now, vault, flight_pool, governance, controller>>

SetLanded(f, actual_arrival) ==
    /\ oracle' \in set_landed(oracle, f, actual_arrival)
    /\ UNCHANGED <<now, vault, flight_pool, governance, controller>>

SetCancelled(f) ==
    /\ oracle' \in set_cancelled(oracle, f)
    /\ UNCHANGED <<now, vault, flight_pool, governance, controller>>

-----------------------------------------------------------------------------
\* Governance

NoOverrides == [premium |-> None, payoff |-> None, delay_hours |-> None]

WhitelistRoute(caller, r) ==
    /\ governance' \in whitelist_route(governance, caller, r, NoOverrides)
    /\ UNCHANGED <<now, vault, flight_pool, oracle, controller>>

DisableRoute(caller, r) ==
    /\ governance' \in disable_route(governance, caller, r)
    /\ UNCHANGED <<now, vault, flight_pool, oracle, controller>>

UpdateRouteTerms(caller, r, update) ==
    /\ governance' \in update_route_terms(governance, caller, r, update)
    /\ UNCHANGED <<now, vault, flight_pool, oracle, controller>>

-----------------------------------------------------------------------------
LpNext ==
    \E lp \in LPs :
        \/ \E amount \in LpAmounts :
              \/ Deposit(lp, amount)
              \/ Redeem(lp, amount)
              \/ RequestWithdrawal(lp, amount)
        \/ \E i \in 1 .. MaxQueue : CancelWithdrawal(lp, i)
        \/ Collect(lp)

PoolNext ==
    \/ \E t \in Travelers, f \in Flights :
          \/ \E route \in Routes : buy_insurance(t, f, route)
          \/ Claim(t, f)
    \/ \E f \in Flights : SweepExpired(f)
    \/ \E amount \in RecoveredAmounts : WithdrawRecovered(amount)

OracleNext ==
    \E f \in Flights :
        \/ \E eta \in Etas : SetEstimatedArrival(f, eta)
        \/ \E actual_arrival \in Arrivals : SetLanded(f, actual_arrival)
        \/ SetCancelled(f)

\* Claimable accounts of any earlier queue may be passed.
Claimables == BoundedSeq(LPs, MaxQueue)

KeeperNext ==
    \E batch \in Batches :
        \/ classify_flights(batch)
        \/ \E claimables \in Claimables :
              execute_settlements(batch, claimables, Day(now))

GovernanceNext ==
    \E r \in Routes :
        \/ WhitelistRoute(Owner, r)
        \/ DisableRoute(Owner, r)
        \/ \E update \in TermUpdates : UpdateRouteTerms(Owner, r, update)

ClockNext == Tick /\ UNCHANGED <<vault, flight_pool, oracle, governance, controller>>

SentinelNext ==
    LpNext \/ PoolNext \/ OracleNext \/ KeeperNext \/ GovernanceNext \/ ClockNext

SentinelSpec == SentinelInit /\ [][SentinelNext]_vars
-----------------------------------------------------------------------------
(* What the system promises: state. *)

SumOver(S, amount) == SumFunction([x \in S |-> amount[x]])

\* Every account holds values of its type, in range.
TypeOK ==
    /\ now \in Time
    /\ vault \in VaultType
    /\ flight_pool \in FlightPoolType
    /\ oracle \in [Flights -> FlightData]
    /\ governance \in GovernanceType
    /\ controller \in ControllerType

Pool(f) == flight_pool.pools[f]

\* What the treasury holds for a flight: its premiums until it is settled,
\* then, if it is payable, the payoffs not claimed or swept yet.
TreasuryShare(f) ==
    CASE Pool(f).status = "Active" -> TotalPremium(flight_pool, f)
      [] Pool(f).status \in Payable ->
            (Pool(f).buyer_count - Pool(f).claimed_count) * Pool(f).payoff
      [] OTHER -> 0

\* The one treasury account shared by all pools holds exactly what they owe
\* together, plus what was recovered: no flight is ever paid out of another's
\* money.  Premiums enter in flight_pool, payouts from the vault, and leave by
\* four different handlers.
TreasuryBacksEveryPool ==
    flight_pool.pool_treasury =
        flight_pool.recovered_balance
        + SumOver(Flights, [f \in Flights |-> TreasuryShare(f)])

Unsettled == {f \in Flights : Pool(f).status = "Active"}

\* locked_capital "tracks USDC committed as collateral for active policies":
\* it is the payoffs of the policies of unsettled flights.  It is added to
\* policy by policy with the route's terms, and released flight by flight with
\* the pool's: it holds when the owner never updates a route (the run with
\* NoUpdates) and fails when a payoff changes between two sales for a flight,
\* although "updates only apply to FlightPools created after the update".
CollateralTracksPolicies ==
    vault.locked_capital =
        SumOver(Unsettled, [f \in Unsettled |-> TotalPayoff(flight_pool, f)])

\* A flight has its three accounts in step, after any transaction of any
\* program: FlightData and FlightPool exist together; the pool is active until
\* the very transaction that makes the FlightData Settled; and the flight is
\* listed, once, exactly while its pool is active.
ProgramsInStep ==
    \A f \in Flights :
        /\ Pool(f).status = NoAccount <=> oracle[f].status = NoAccount
        /\ Pool(f).status \in SettlementStatus \ {"Active"}
              <=> oracle[f].status = "Settled"
        /\ Cardinality({i \in 1 .. Len(controller.active_flights) :
                           controller.active_flights[i] = f})
              = IF Pool(f).status = "Active" THEN 1 ELSE 0

\* What a pool was settled as is what the oracle recorded of the flight,
\* measured against the delay the pool was sold with.  The record, the
\* classification and the settlement are three transactions of two keys.
SettledAsRecorded ==
    \A f \in Flights :
        LET landed == oracle[f].actual_arrival_time # 0
            late == oracle[f].actual_arrival_time - oracle[f].estimated_arrival_time
                      >= Pool(f).delay_hours * SECONDS_PER_HOUR
        IN /\ Pool(f).status = "SettledDelayed" => landed /\ late
           /\ Pool(f).status = "SettledOnTime" => landed /\ ~late
           /\ Pool(f).status = "SettledCancelled" => ~landed

\* The counters of ControllerConfig, against the pools they aggregate.
CountersMatchPools ==
    /\ controller.total_policies_sold =
          SumOver(Flights, [f \in Flights |-> Pool(f).buyer_count])
    /\ controller.total_premiums_collected =
          SumOver(Flights, [f \in Flights |-> TotalPremium(flight_pool, f)])
    /\ controller.total_payouts_distributed =
          SumOver({f \in Flights : Pool(f).status \in Payable},
                  [f \in Flights |-> PayoutDiff(flight_pool, f)])

\* A classified flight can be settled, alone and without claimable accounts,
\* in every state where the locked capital does not exceed the managed assets:
\* the vault then holds the payout, releases no more than was locked, and its
\* drain goes through.  Two checks are left that may refuse it, one of a figure
\* for the record, one of a total for display: the share price after the
\* settlement outgrows its u64 on a day without a snapshot, or the payouts of
\* all times do.
SettlementNeverWedged ==
    \A f \in Flights :
        oracle[f].status \in ToBeSettled
            /\ vault.locked_capital <= vault.total_managed_assets
          => \E w \in settle_batch(Settling, <<f>>) :
                \/ /\ housekeeping(w.vault, << >>, Day(now)) # {}
                   /\ CountPayouts(controller, w.paid) # {}
                \/ ~SnapshotTaken(w.vault) /\ ~PriceFits(w.vault)
                \/ controller.total_payouts_distributed + w.paid \notin U64

-----------------------------------------------------------------------------
(* What the system promises: steps. *)

Rank(status) ==
    CASE status = NoAccount -> 0
      [] status = "NotInitiated" -> 1
      [] status = "Active" -> 2
      [] status \in {"Landed", "Cancelled"} -> 3
      [] status \in ToBeSettled -> 4
      [] status = "Settled" -> 5

\* "State machine (forward-only, never regresses)": a flight's status moves by
\* single forward steps, and nothing about a landing or a cancellation is
\* rewritten once it has been reported.
OracleForwardOnly ==
    [][\A f \in Flights :
          /\ oracle'[f].status # oracle[f].status
                => Rank(oracle'[f].status) = Rank(oracle[f].status) + 1
          /\ Rank(oracle[f].status) >= 3
                => /\ oracle'[f].actual_arrival_time = oracle[f].actual_arrival_time
                   /\ oracle'[f].estimated_arrival_time = oracle[f].estimated_arrival_time]_vars

\* The owner changing a route, or later buyers, never change the terms a
\* flight's first buyer got; nor who holds a policy of it.
PolicyTermsFrozen ==
    [][\A f \in Flights :
          Pool(f).status # NoAccount =>
             /\ Pool(f)'.premium = Pool(f).premium
             /\ Pool(f)'.payoff = Pool(f).payoff
             /\ Pool(f)'.delay_hours = Pool(f).delay_hours
             /\ \A t \in Travelers :
                   flight_pool.buyers[f][t] # NoAccount
                      => flight_pool'.buyers[f][t] # NoAccount]_vars
-----------------------------------------------------------------------------
(* The programs implement the ledger of policies. *)

\* The ledger's view of a policy.  A swept pool counts its unclaimed policies
\* as claimed without touching their records.
PolicyOf(f, t) ==
    LET record == flight_pool.buyers[f][t] IN
    IF record = "HasPolicy"
    THEN CASE Pool(f).status = "Active" -> "live"
           [] Pool(f).status = "SettledOnTime" -> "expired"
           [] OTHER -> IF Pool(f).claimed_count = Pool(f).buyer_count THEN "recovered"
                                                                      ELSE "payable"
    ELSE IF record = "Claimed" THEN "paid" ELSE "none"

Ledger ==
    INSTANCE PolicyLedger WITH
        Holders <- Travelers,
        Amounts <- U64,
        policy <- [f \in Flights |-> [t \in Travelers |-> PolicyOf(f, t)]],
        terms <- [f \in Flights |-> [premium |-> Pool(f).premium,
                                     payoff |-> Pool(f).payoff]],
        pot <- flight_pool.pool_treasury,
        recovered <- flight_pool.recovered_balance

\* No order of transactions sells a policy after its flight was resolved,
\* resolves two policies of a flight differently, pays a policy twice or after
\* it was recovered, or moves other money than the policies' terms say.
ImplementsLedger == Ledger!Spec

-----------------------------------------------------------------------------
(* What documents of the repository say and the programs do not do. *)

\* The day a date stands for: its callers pass days or seconds.
unixDayToIso(date) ==
    IF date > DATE_THRESHOLD THEN date \div SECONDS_PER_DAY ELSE date

\* "Enforce min_lead_time - revert if departure too soon": no policy is sold
\* less than min_lead_time before the day of the flight begins.  The program
\* multiplies every date by the length of a day, also those in seconds, and
\* its guard then compares the clock with a day that is ages away.
SoldWithLeadTime ==
    [][\A f \in Flights, t \in Travelers :
          flight_pool'.buyers[f][t] # flight_pool.buyers[f][t]
              /\ flight_pool.buyers[f][t] = NoAccount
            => unixDayToIso(DateOf[f]) * SECONDS_PER_DAY - now >= MIN_LEAD_TIME]_vars
=============================================================================
