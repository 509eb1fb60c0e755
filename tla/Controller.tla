----------------------------- MODULE Controller -----------------------------
(***************************************************************************)
(* controller_program: sells policies, classifies the flights the oracle   *)
(* has reported and settles them.  It keeps only the list of unsettled     *)
(* flights and three counters; everything else it does is calls to the     *)
(* other four programs, inside one transaction.                            *)
(***************************************************************************)
EXTENDS Vault, FlightPool, OracleAggregator, Governance

CONSTANTS
    DateOf,              \* the date each flight is sold under, taken as days
                         \* since the epoch
    RoutesOf,            \* routes whose flight_id is the flight's
    SECONDS_PER_HOUR,    \* 3600 on chain
    SOLVENCY_RATIO,      \* ControllerConfig.solvency_ratio, in percent
    MIN_LEAD_TIME,       \* ControllerConfig.min_lead_time
    CLAIM_EXPIRY_WINDOW  \* ControllerConfig.claim_expiry_window

ASSUME ControllerAssumption ==
    /\ DateOf \in [Flights -> Nat]
    /\ RoutesOf \in [Flights -> SUBSET Routes]
    /\ SECONDS_PER_HOUR \in Nat \ {0}
    /\ SOLVENCY_RATIO \in Nat
    /\ MIN_LEAD_TIME \in Int
    /\ CLAIM_EXPIRY_WINDOW \in Nat

MAX_FLIGHTS_PER_TX == 2

VARIABLE controller     \* ActiveFlightList and the counters of ControllerConfig

ControllerType ==
    [ active_flights            : Seq(Flights),
      total_policies_sold       : U64,
      total_premiums_collected  : U64,
      total_payouts_distributed : U64 ]

initialize_controller ==
    [ active_flights            |-> << >>,
      total_policies_sold       |-> 0,
      total_premiums_collected  |-> 0,
      total_payouts_distributed |-> 0 ]

-----------------------------------------------------------------------------
\* Mutated forms, for the checks of the properties.

\* Locks only what the vault would add to the premium.
collateral_net_of_premium(terms) == terms.payoff - terms.premium

\* Every buyer brings the route's terms of the day.
pool_on_latest_terms(p, f, terms) ==
    IF p.pools[f].status = NoAccount THEN register_pool(p, f, terms)
    ELSE {[p EXCEPT !.pools[f].premium = terms.premium,
                    !.pools[f].payoff = terms.payoff]}

\* As late as the limit is not delayed.
delayed_beyond_limit(flight_data, pool) ==
    flight_data.actual_arrival_time - flight_data.estimated_arrival_time
        >= (pool.delay_hours + 1) * SECONDS_PER_HOUR

\* Only the first flight of the batch leaves the list.
remove_first_flight(list, batch) ==
    IF batch = << >> THEN list ELSE RemoveFirst(list, batch[1])

-----------------------------------------------------------------------------
\* buy_insurance

Collateral(terms) == terms.payoff

\* The first buyer of a flight registers its pool.
PoolForBuyer(p, f, terms) ==
    IF p.pools[f].status = NoAccount THEN register_pool(p, f, terms) ELSE {p}

\* The free capital covers this policy; the policies already sold count only
\* through the capital they locked.
SolventFor(v, payoff) ==
    /\ v.locked_capital <= v.total_managed_assets
    /\ (v.total_managed_assets - v.locked_capital) * 100 >= payoff * SOLVENCY_RATIO

CountSale(c, premium) ==
    When(/\ c.total_policies_sold + 1 \in U64
         /\ c.total_premiums_collected + premium \in U64,
         [c EXCEPT !.total_policies_sold = @ + 1,
                   !.total_premiums_collected = @ + premium])

\* The first buyer of a flight creates its FlightData and its FlightPool, on
\* the terms of that moment, and lists it.
buy_insurance(traveler, f, route) ==
    /\ route \in RoutesOf[f]
    /\ is_route_whitelisted(governance, route)
    /\ DateOf[f] * SECONDS_PER_DAY - now >= MIN_LEAD_TIME
    /\ \E terms \in get_route_terms(governance, route) :
          LET is_first_buy == flight_pool.pools[f].status = NoAccount IN
          /\ SolventFor(vault, terms.payoff)
          /\ oracle' \in IF is_first_buy THEN init_flight_data(oracle, f)
                                         ELSE {oracle}
          /\ \E pool \in PoolForBuyer(flight_pool, f, terms) :
                flight_pool' \in add_buyer(pool, f, traveler)
          /\ vault' \in increase_locked(vault, Collateral(terms))
          /\ controller' \in
                CountSale([controller EXCEPT
                              !.active_flights = IF is_first_buy THEN Append(@, f) ELSE @],
                          terms.premium)
    /\ UNCHANGED <<now, governance>>

-----------------------------------------------------------------------------
\* classify_flights

\* Whole hours late; an early arrival is not late.
DelayHoursOf(flight_data) ==
    LET delay_secs == flight_data.actual_arrival_time
                        - flight_data.estimated_arrival_time
    IN IF delay_secs > 0 THEN delay_secs \div SECONDS_PER_HOUR ELSE 0

IsDelayed(flight_data, pool) == DelayHoursOf(flight_data) >= pool.delay_hours

\* A flight that is neither Landed nor Cancelled is skipped.  The keeper passes
\* each flight with its own pool; classify_flights itself does not compare them
\* (execute_settlements does, by the seeds of the pool).
classify_flight(o, f) ==
    CASE o[f].status = NoAccount -> {}
      [] o[f].status = "Cancelled" -> set_to_be_settled(o, f, "ToBeSettledCancelled")
      [] o[f].status = "Landed" ->
            set_to_be_settled(o, f, IF IsDelayed(o[f], flight_pool.pools[f])
                                    THEN "ToBeSettledDelayed"
                                    ELSE "ToBeSettledOnTime")
      [] OTHER -> {o}

\* The flights a keeper's transaction names, in order.
Batches == UNION {[1 .. n -> Flights] : n \in 0 .. MAX_FLIGHTS_PER_TX}

classify_flights(batch) ==
    /\ LET first == IF batch = << >> THEN {oracle} ELSE classify_flight(oracle, batch[1])
       IN oracle' \in IF Len(batch) < 2 THEN first
                      ELSE UNION {classify_flight(o, batch[2]) : o \in first}
    /\ UNCHANGED <<now, governance, vault, flight_pool, controller>>

-----------------------------------------------------------------------------
\* execute_settlements

\* What the flights of one transaction thread through their calls: the
\* accounts of the other programs and the payouts added so far.
Settling == [ vault |-> vault, flight_pool |-> flight_pool, oracle |-> oracle, paid |-> 0 ]

PayoutDiff(p, f) == TotalPayoff(p, f) - TotalPremium(p, f)

\* Mutated form: a flight on time counts as a payout.
on_time_counted_as_payout(w, f) ==
    LET p == w.flight_pool IN
    { [w EXCEPT !.flight_pool = settled[1], !.vault = settled[2],
                !.paid = @ + PayoutDiff(p, f)] :
        settled \in settle_on_time(p, f)
                      \X settle_premium_into_vault(w.vault, TotalPremium(p, f),
                                                   TotalPayoff(p, f)) }

settle_on_time_branch(w, f) ==
    LET p == w.flight_pool IN
    { [w EXCEPT !.flight_pool = settled[1], !.vault = settled[2]] :
        settled \in settle_on_time(p, f)
                      \X settle_premium_into_vault(w.vault, TotalPremium(p, f),
                                                   TotalPayoff(p, f)) }

PayoutReceived(p, f) ==
    When(p.pool_treasury + PayoutDiff(p, f) \in U64,
         [p EXCEPT !.pool_treasury = @ + PayoutDiff(p, f)])

\* The payout first enters the treasury, then settle_delayed or
\* settle_cancelled opens the claim window.
settle_payout_branch(w, f, variant) ==
    LET p == w.flight_pool
        claim_expiry == now + CLAIM_EXPIRY_WINDOW
        settle(q) == IF variant = "Delayed" THEN settle_delayed(q, f, claim_expiry)
                                            ELSE settle_cancelled(q, f, claim_expiry)
    IN { [w EXCEPT !.flight_pool = settled[1], !.vault = settled[2],
                   !.paid = @ + PayoutDiff(p, f)] :
           settled \in (UNION {settle(q) : q \in PayoutReceived(p, f)})
                         \X settle_payout_from_vault(w.vault, PayoutDiff(p, f),
                                                     TotalPayoff(p, f)) }

\* The aggregate amounts are checked on every branch, before it is chosen.
settle_flight(w, f) ==
    LET p == w.flight_pool
        branch ==
            CASE w.oracle[f].status = "ToBeSettledOnTime" ->
                    settle_on_time_branch(w, f)
              [] w.oracle[f].status = "ToBeSettledDelayed" ->
                    settle_payout_branch(w, f, "Delayed")
              [] w.oracle[f].status = "ToBeSettledCancelled" ->
                    settle_payout_branch(w, f, "Cancelled")
              [] OTHER -> {}
    IN IF /\ p.pools[f].status # NoAccount
          /\ TotalPremium(p, f) \in U64
          /\ TotalPayoff(p, f) \in U64
          /\ PayoutDiff(p, f) >= 0
       THEN { [settled[1] EXCEPT !.oracle = settled[2]] :
                settled \in branch \X set_settled(w.oracle, f) }
       ELSE {}

settle_batch(w, batch) ==
    LET first == IF batch = << >> THEN {w} ELSE settle_flight(w, batch[1])
    IN IF Len(batch) < 2 THEN first
       ELSE UNION {settle_flight(x, batch[2]) : x \in first}

\* Vec::remove of each flight's entry, where it is listed; not swap_remove.
RemoveFlights(list, batch) ==
    LET first == IF batch = << >> THEN list ELSE RemoveFirst(list, batch[1])
    IN IF Len(batch) < 2 THEN first ELSE RemoveFirst(first, batch[2])

CountPayouts(c, paid) ==
    When(c.total_payouts_distributed + paid \in U64,
         [c EXCEPT !.total_payouts_distributed = @ + paid])

execute_settlements(batch, claimables, day) ==
    /\ \E w \in settle_batch(Settling, batch) :
          /\ vault' \in housekeeping(w.vault, claimables, day)
          /\ flight_pool' = w.flight_pool
          /\ oracle' = w.oracle
          /\ controller' \in
                CountPayouts([controller EXCEPT !.active_flights = RemoveFlights(@, batch)],
                             w.paid)
    /\ UNCHANGED <<now, governance>>
=============================================================================
