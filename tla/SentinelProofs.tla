--------------------------- MODULE SentinelProofs ---------------------------
(***************************************************************************)
(* What becomes of a flight's FlightData and FlightPool under every        *)
(* transaction of the five programs: they move together, forwards only, on *)
(* the terms of the first sale, and a flight is settled as it flew.        *)
(*                                                                         *)
(* The argument follows one flight at a time.  A transaction that names a  *)
(* flight takes its two accounts by a FlightStep and leaves those of the   *)
(* others; a batch is at most two such steps.  The list of active flights  *)
(* follows the FlightData alone.                                           *)
(***************************************************************************)
EXTENDS Sentinel, GovernanceProofs, VaultHandlerProofs

\* The accounts that follow a flight, and the terms it may be sold on.
FlightsTypeOK ==
    /\ now \in Time
    /\ oracle \in [Flights -> FlightData]
    /\ flight_pool \in FlightPoolType
    /\ governance \in GovernanceType

\* Every delay governance can resolve is a whole positive number of hours.
DelaysBounded(g) ==
    /\ g.default_terms.delay_hours \in DelayHours
    /\ \A r \in Routes : g.routes[r].delay_hours \in DelayHours \cup {None}

Late(fd, pool) ==
    fd.actual_arrival_time - fd.estimated_arrival_time
        >= pool.delay_hours * SECONDS_PER_HOUR

\* The two accounts of a flight fit each other.
InStep(fd, pool) ==
    /\ pool.status = NoAccount <=> fd.status = NoAccount
    /\ pool.status \in SettlementStatus \ {"Active"} <=> fd.status = "Settled"
    /\ pool.status # NoAccount => pool.delay_hours \in DelayHours

\* What was recorded of a flight, carried to its classification and settlement.
AsRecorded(fd, pool) ==
    LET landed == fd.actual_arrival_time # 0 IN
    /\ fd.status \in {"NotInitiated", "Active", "Cancelled", "ToBeSettledCancelled"}
          => ~landed
    /\ fd.status = "Landed" => landed
    /\ fd.status = "ToBeSettledDelayed" => landed /\ Late(fd, pool)
    /\ fd.status = "ToBeSettledOnTime" => landed /\ ~Late(fd, pool)
    /\ pool.status = "SettledDelayed" => landed /\ Late(fd, pool)
    /\ pool.status = "SettledOnTime" => landed /\ ~Late(fd, pool)
    /\ pool.status = "SettledCancelled" => ~landed

SameTerms(pool, after) ==
    /\ after.premium = pool.premium
    /\ after.payoff = pool.payoff
    /\ after.delay_hours = pool.delay_hours

Forward(fd, after) ==
    /\ after.status # fd.status => Rank(after.status) = Rank(fd.status) + 1
    /\ Rank(fd.status) >= 3 =>
          /\ after.actual_arrival_time = fd.actual_arrival_time
          /\ after.estimated_arrival_time = fd.estimated_arrival_time

\* What a transaction may do to the two accounts of a flight.
FlightStep(fd, pool, fd2, pool2) ==
    /\ InStep(fd2, pool2)
    /\ Forward(fd, fd2)
    /\ pool.status # NoAccount => SameTerms(pool, pool2)
    /\ AsRecorded(fd, pool) /\ 0 \notin Arrivals => AsRecorded(fd2, pool2)

\* Nobody loses a policy.
BuyersKept(p, q) ==
    \A f \in Flights, t \in Travelers :
        p.buyers[f][t] # NoAccount => q.buyers[f][t] # NoAccount

\* What a transaction may do to the accounts of all flights.
FlightsMove(o, p, o2, p2) ==
    /\ o2 \in [Flights -> FlightData]
    /\ p2 \in FlightPoolType
    /\ BuyersKept(p, p2)
    /\ \A f \in Flights : FlightStep(o[f], p.pools[f], o2[f], p2.pools[f])

FlightsInv ==
    /\ FlightsTypeOK
    /\ DelaysBounded(governance)
    /\ \A f \in Flights : InStep(oracle[f], flight_pool.pools[f])

-----------------------------------------------------------------------------
(* One flight. *)

\* The order of the statuses.
LEMMA Ranks ==
    /\ Rank(NoAccount) = 0 /\ Rank("NotInitiated") = 1 /\ Rank("Active") = 2
    /\ Rank("Landed") = 3 /\ Rank("Cancelled") = 3 /\ Rank("Settled") = 5
    /\ \A status \in ToBeSettled : Rank(status) = 4
<1>1. Rank(NoAccount) = 0
  BY DEF Rank, NoAccount, ToBeSettled
<1>2. Rank("NotInitiated") = 1
  BY DEF Rank, NoAccount, ToBeSettled
<1>3. Rank("Active") = 2
  BY DEF Rank, NoAccount, ToBeSettled
<1>4. Rank("Landed") = 3 /\ Rank("Cancelled") = 3
  BY DEF Rank, NoAccount, ToBeSettled
<1>5. Rank("Settled") = 5
  BY DEF Rank, NoAccount, ToBeSettled
<1>6. \A status \in ToBeSettled : Rank(status) = 4
  BY DEF Rank, NoAccount, ToBeSettled
<1> QED BY <1>1, <1>2, <1>3, <1>4, <1>5, <1>6

\* An account left alone is a step.
LEMMA StutterStep ==
    ASSUME NEW fd \in FlightData, NEW pool, InStep(fd, pool)
    PROVE  FlightStep(fd, pool, fd, pool)
BY DEF FlightStep, Forward, SameTerms

\* A flight on sale or in the air has an active pool.
LEMMA ActivePool ==
    ASSUME NEW fd \in FlightData, NEW pool \in FlightPoolAccount, InStep(fd, pool),
           fd.status \notin {NoAccount, "Settled"}
    PROVE  pool.status = "Active" /\ pool.delay_hours \in DelayHours
BY DEF InStep, FlightPoolAccount, SettlementStatus, NoAccount

\* set_estimated_arrival, set_landed, set_cancelled: the oracle's reports.
LEMMA ReportStep ==
    ASSUME NEW fd \in FlightData, NEW pool \in FlightPoolAccount, InStep(fd, pool),
           NEW eta \in Int, NEW actual, NEW fd2,
           \/ /\ fd.status = "NotInitiated"
              /\ fd2 = [fd EXCEPT !.status = "Active", !.estimated_arrival_time = eta]
           \/ /\ fd.status = "Active" /\ actual \in Arrivals
              /\ fd2 = [fd EXCEPT !.status = "Landed", !.actual_arrival_time = actual]
           \/ /\ fd.status = "Active"
              /\ fd2 = [fd EXCEPT !.status = "Cancelled"]
    PROVE  fd2 \in FlightData /\ FlightStep(fd, pool, fd2, pool)
<1>1. pool.status = "Active" /\ pool.delay_hours \in DelayHours
  BY ActivePool DEF NoAccount
<1>2. fd2 \in FlightData
  BY SentinelAssumption DEF FlightData, FlightStatus
<1>3. \/ fd.status = "NotInitiated" /\ fd2.status = "Active"
      \/ fd.status = "Active" /\ fd2.status \in {"Landed", "Cancelled"}
  BY DEF FlightData
<1>4. Forward(fd, fd2)
  BY <1>3, Ranks DEF Forward
<1>5. InStep(fd2, pool)
  BY <1>1, <1>3 DEF InStep, SettlementStatus, NoAccount
<1>6. AsRecorded(fd, pool) /\ 0 \notin Arrivals => AsRecorded(fd2, pool)
  BY <1>1, <1>3 DEF AsRecorded, FlightData
<1> QED
  BY <1>2, <1>4, <1>5, <1>6 DEF FlightStep, SameTerms

\* Whole hours compared with the delay in hours are seconds compared with the
\* delay in seconds, for a flight early or late.
LEMMA DelayedIsLate ==
    ASSUME NEW fd \in FlightData, NEW pool, pool.delay_hours \in DelayHours
    PROVE  IsDelayed(fd, pool) <=> Late(fd, pool)
<1> DEFINE secs == fd.actual_arrival_time - fd.estimated_arrival_time
           hours == secs \div SECONDS_PER_HOUR
           d == pool.delay_hours
           s == SECONDS_PER_HOUR
<1>1. secs \in Int /\ d \in Nat \ {0} /\ s \in Nat \ {0}
  BY ControllerAssumption, GovernanceAssumption DEF FlightData, DelayHours
<1>2. CASE secs > 0
  <2>1. hours \in Int /\ hours * s <= secs /\ secs < hours * s + s
    BY <1>1, <1>2
  <2>2. hours >= d => hours * s >= d * s
    <3> HIDE DEF hours, d, s
    <3> QED BY <1>1, <2>1
  <2>3. hours < d => (hours + 1) * s <= d * s
    <3> HIDE DEF hours, d, s
    <3> QED BY <1>1, <2>1
  <2>4. (hours + 1) * s = hours * s + s
    <3> HIDE DEF hours, d, s
    <3> QED BY <1>1, <2>1
  <2>5. hours >= d <=> secs >= d * s
    <3> HIDE DEF hours, secs, d, s
    <3> QED BY <1>1, <2>1, <2>2, <2>3, <2>4
  <2> QED BY <1>2, <2>5 DEF IsDelayed, DelayHoursOf, Late
<1>3. CASE ~(secs > 0)
  <2>1. d * s > 0
    <3> HIDE DEF d, s
    <3> QED BY <1>1
  <2> QED BY <1>1, <1>3, <2>1 DEF IsDelayed, DelayHoursOf, Late
<1> QED BY <1>2, <1>3

\* classify_flights: what a flight is classified as is how late it was, by the
\* delay of its pool.
LEMMA ClassifiedStep ==
    ASSUME NEW fd \in FlightData, NEW pool \in FlightPoolAccount, InStep(fd, pool),
           NEW status,
           \/ fd.status = "Cancelled" /\ status = "ToBeSettledCancelled"
           \/ /\ fd.status = "Landed"
              /\ status = IF IsDelayed(fd, pool) THEN "ToBeSettledDelayed"
                                               ELSE "ToBeSettledOnTime",
           NEW fd2, fd2 = [fd EXCEPT !.status = status]
    PROVE  /\ fd2 \in FlightData /\ fd2.status \in ToBeSettled
           /\ FlightStep(fd, pool, fd2, pool)
<1>1. pool.status = "Active" /\ pool.delay_hours \in DelayHours
  BY ActivePool DEF NoAccount
<1>2. /\ fd2 \in FlightData /\ fd2.status = status /\ status \in ToBeSettled
      /\ fd2.actual_arrival_time = fd.actual_arrival_time
      /\ fd2.estimated_arrival_time = fd.estimated_arrival_time
  BY DEF FlightData, FlightStatus, ToBeSettled
<1>3. Forward(fd, fd2)
  BY <1>2, Ranks DEF Forward
<1>4. InStep(fd2, pool)
  BY <1>1, <1>2 DEF InStep, SettlementStatus, NoAccount, ToBeSettled
<1>5. (status = "ToBeSettledDelayed" => Late(fd, pool))
         /\ (status = "ToBeSettledOnTime" => ~Late(fd, pool))
  BY <1>1, DelayedIsLate
<1>6. Late(fd2, pool) <=> Late(fd, pool)
  BY <1>2 DEF Late
<1>7. AsRecorded(fd, pool) => AsRecorded(fd2, pool)
  <2> SUFFICES ASSUME AsRecorded(fd, pool) PROVE AsRecorded(fd2, pool)
    OBVIOUS
  <2>1. /\ fd.status = "Cancelled" => fd2.actual_arrival_time = 0
        /\ fd.status = "Landed" => fd2.actual_arrival_time # 0
    BY <1>2 DEF AsRecorded
  <2> QED BY <1>1, <1>2, <1>5, <1>6, <2>1 DEF AsRecorded
<1> QED BY <1>2, <1>3, <1>4, <1>7 DEF FlightStep, SameTerms

SettledAs(status) ==
    CASE status = "ToBeSettledOnTime" -> "SettledOnTime"
      [] status = "ToBeSettledDelayed" -> "SettledDelayed"
      [] status = "ToBeSettledCancelled" -> "SettledCancelled"

\* execute_settlements: a pool is settled as its flight was classified.
LEMMA SettledStep ==
    ASSUME NEW fd \in FlightData, NEW pool \in FlightPoolAccount, InStep(fd, pool),
           fd.status \in ToBeSettled,
           NEW pool2 \in FlightPoolAccount, SameTerms(pool, pool2),
           pool2.status = SettledAs(fd.status),
           NEW fd2, fd2 = [fd EXCEPT !.status = "Settled"]
    PROVE  fd2 \in FlightData /\ FlightStep(fd, pool, fd2, pool2)
<1>1. pool.status = "Active" /\ pool.delay_hours \in DelayHours
  BY ActivePool DEF NoAccount, ToBeSettled
<1>2. /\ fd2 \in FlightData /\ fd2.status = "Settled"
      /\ fd2.actual_arrival_time = fd.actual_arrival_time
      /\ fd2.estimated_arrival_time = fd.estimated_arrival_time
  BY DEF FlightData, FlightStatus
<1>3. \/ fd.status = "ToBeSettledOnTime" /\ pool2.status = "SettledOnTime"
      \/ fd.status = "ToBeSettledDelayed" /\ pool2.status = "SettledDelayed"
      \/ fd.status = "ToBeSettledCancelled" /\ pool2.status = "SettledCancelled"
  BY DEF SettledAs, ToBeSettled
<1>4. Forward(fd, fd2)
  BY <1>2, Ranks DEF Forward
<1>5. InStep(fd2, pool2)
  BY <1>1, <1>2, <1>3 DEF InStep, SettlementStatus, NoAccount, SameTerms
<1>6. Late(fd2, pool2) <=> Late(fd, pool)
  BY <1>2 DEF Late, SameTerms
<1>7. AsRecorded(fd, pool) => AsRecorded(fd2, pool2)
  BY <1>2, <1>3, <1>6 DEF AsRecorded
<1> QED BY <1>2, <1>4, <1>5, <1>7 DEF FlightStep

\* A pool that keeps its status and terms is a step of its flight.
LEMMA KeptStep ==
    ASSUME NEW fd \in FlightData, NEW pool, InStep(fd, pool),
           NEW pool2, pool2.status = pool.status, SameTerms(pool, pool2)
    PROVE  FlightStep(fd, pool, fd, pool2)
<1>1. Late(fd, pool2) <=> Late(fd, pool)
  BY DEF Late, SameTerms
<1>2. AsRecorded(fd, pool) => AsRecorded(fd, pool2)
  BY <1>1 DEF AsRecorded
<1> QED BY <1>2 DEF FlightStep, Forward, InStep, SameTerms

\* buy_insurance's first sale of a flight creates both accounts.
LEMMA CreatedStep ==
    ASSUME NEW fd \in FlightData, NEW pool, InStep(fd, pool), fd.status = NoAccount,
           NEW pool2, pool2.status = "Active", pool2.delay_hours \in DelayHours,
           NEW fd2, fd2 = [NoFlightData EXCEPT !.status = "NotInitiated"]
    PROVE  fd2 \in FlightData /\ FlightStep(fd, pool, fd2, pool2)
<1>1. /\ fd2 \in FlightData /\ fd2.status = "NotInitiated"
      /\ fd2.actual_arrival_time = 0
  BY DEF FlightData, FlightStatus, NoFlightData
<1>2. Forward(fd, fd2)
  BY <1>1, Ranks DEF Forward
<1>3. InStep(fd2, pool2) /\ AsRecorded(fd2, pool2)
  BY <1>1 DEF InStep, AsRecorded, SettlementStatus, NoAccount
<1> QED BY <1>1, <1>2, <1>3 DEF FlightStep, InStep
-----------------------------------------------------------------------------
(* flight_pool_program, one handler at a time: the accounts stay of their  *)
(* types, nobody loses a policy, and no pool but the named one changes.    *)

PoolStep(p, q, f) ==
    /\ q \in FlightPoolType
    /\ BuyersKept(p, q)
    /\ \A g \in Flights \ {f} : q.pools[g] = p.pools[g]

Written(p, f, pool, records, recovered, treasury) ==
    [p EXCEPT !.pools[f] = pool, !.buyers[f] = records,
              !.recovered_balance = recovered, !.pool_treasury = treasury]

\* The same, account by account.
WroteOnly(p, q, f, pool, records, recovered, treasury) ==
    /\ q.pools[f] = pool /\ q.buyers[f] = records
    /\ \A g \in Flights \ {f} : q.pools[g] = p.pools[g] /\ q.buyers[g] = p.buyers[g]
    /\ q.recovered_balance = recovered /\ q.pool_treasury = treasury

\* A handler that writes one pool, one of its records and the balances.
LEMMA PoolWritten ==
    ASSUME NEW p \in FlightPoolType, NEW f \in Flights,
           NEW pool \in FlightPoolAccount,
           NEW records \in [Travelers -> BuyerRecord],
           \A t \in Travelers : p.buyers[f][t] # NoAccount => records[t] # NoAccount,
           NEW recovered \in U64, NEW treasury \in U64,
           NEW q,
           q = Written(p, f, pool, records, recovered, treasury)
    PROVE  /\ PoolStep(p, q, f) /\ q.pools[f] = pool
           /\ WroteOnly(p, q, f, pool, records, recovered, treasury)
<1>1. p.pools \in [Flights -> FlightPoolAccount]
         /\ p.buyers \in [Flights -> [Travelers -> BuyerRecord]]
  BY DEF FlightPoolType
<1>2. q.pools = [p.pools EXCEPT ![f] = pool]
         /\ q.buyers = [p.buyers EXCEPT ![f] = records]
  BY <1>1 DEF FlightPoolType, Written
<1>3. q \in FlightPoolType
  BY <1>1, <1>2 DEF FlightPoolType, Written
<1>4. q.pools[f] = pool /\ \A g \in Flights \ {f} : q.pools[g] = p.pools[g]
  BY <1>1, <1>2
<1>5. BuyersKept(p, q)
  BY <1>1, <1>2 DEF BuyersKept
<1>6. /\ q.buyers[f] = records /\ \A g \in Flights \ {f} : q.buyers[g] = p.buyers[g]
      /\ q.recovered_balance = recovered /\ q.pool_treasury = treasury
  BY <1>1, <1>2 DEF FlightPoolType, Written
<1> QED BY <1>3, <1>4, <1>5, <1>6 DEF PoolStep, WroteOnly

\* flight_pool's accounts, apart.
LEMMA PoolFields ==
    ASSUME NEW p \in FlightPoolType, NEW f \in Flights
    PROVE  /\ p.pools \in [Flights -> FlightPoolAccount]
           /\ p.buyers \in [Flights -> [Travelers -> BuyerRecord]]
           /\ p.recovered_balance \in U64 /\ p.pool_treasury \in U64
           /\ p.pools[f] \in FlightPoolAccount
           /\ p.buyers[f] \in [Travelers -> BuyerRecord]
BY DEF FlightPoolType

\* claim: one policy of a payable pool, paid once, at the payoff of its sale.
LEMMA ClaimPool ==
    ASSUME NEW p \in FlightPoolType, NEW f \in Flights, NEW t \in Travelers,
           NEW q \in claim(p, f, t)
    PROVE  /\ PoolStep(p, q, f)
           /\ q.pools[f].status = p.pools[f].status
           /\ SameTerms(p.pools[f], q.pools[f])
           /\ WroteOnly(p, q, f, [p.pools[f] EXCEPT !.claimed_count = @ + 1],
                        [p.buyers[f] EXCEPT ![t] = "Claimed"],
                        p.recovered_balance, p.pool_treasury - p.pools[f].payoff)
<1> DEFINE pool == [p.pools[f] EXCEPT !.claimed_count = @ + 1]
           records == [p.buyers[f] EXCEPT ![t] = "Claimed"]
           treasury == p.pool_treasury - p.pools[f].payoff
<1>1. p.pools[f].payoff <= p.pool_treasury /\ p.pools[f].claimed_count + 1 \in U32
  BY DEF claim, When
<1>2. q = [p EXCEPT !.buyers[f][t] = "Claimed",
                    !.pools[f].claimed_count = @ + 1,
                    !.pool_treasury = @ - p.pools[f].payoff]
  BY DEF claim, When
<1>3. q = Written(p, f, pool, records, p.recovered_balance, treasury)
  BY <1>2, PoolFields DEF FlightPoolType, Written
<1>4. pool \in FlightPoolAccount /\ pool.status = p.pools[f].status
         /\ SameTerms(p.pools[f], pool)
  BY <1>1, PoolFields DEF FlightPoolAccount, SameTerms
<1>5. records \in [Travelers -> BuyerRecord]
         /\ \A s \in Travelers : p.buyers[f][s] # NoAccount => records[s] # NoAccount
  BY PoolFields DEF BuyerRecord, NoAccount
<1>6. treasury \in U64 /\ p.recovered_balance \in U64
  BY <1>1, PoolFields, ChainAssumption DEF FlightPoolAccount, U64
<1>7. /\ PoolStep(p, q, f) /\ q.pools[f] = pool
      /\ WroteOnly(p, q, f, pool, records, p.recovered_balance, treasury)
  <2> HIDE DEF pool, records, treasury
  <2> QED BY <1>3, <1>4, <1>5, <1>6, PoolWritten
<1> QED BY <1>4, <1>7

\* The payoffs nobody claimed change their owner, not their account.
LEMMA SweepPool ==
    ASSUME NEW p \in FlightPoolType, NEW f \in Flights, NEW q \in sweep_expired(p, f)
    PROVE  /\ PoolStep(p, q, f)
           /\ q.pools[f].status = p.pools[f].status
           /\ SameTerms(p.pools[f], q.pools[f])
           /\ WroteOnly(p, q, f,
                        [p.pools[f] EXCEPT !.claimed_count = p.pools[f].buyer_count],
                        p.buyers[f],
                        p.recovered_balance
                          + (p.pools[f].buyer_count - p.pools[f].claimed_count)
                              * p.pools[f].payoff,
                        p.pool_treasury)
<1> DEFINE amount == (p.pools[f].buyer_count - p.pools[f].claimed_count)
                        * p.pools[f].payoff
           pool == [p.pools[f] EXCEPT !.claimed_count = p.pools[f].buyer_count]
           recovered == p.recovered_balance + amount
<1>1. recovered \in U64
  BY DEF sweep_expired, When
<1>2. q = [p EXCEPT !.pools[f].claimed_count = p.pools[f].buyer_count,
                    !.recovered_balance = @ + amount]
  BY DEF sweep_expired, When
<1>3. q = Written(p, f, pool, p.buyers[f], recovered, p.pool_treasury)
  <2> HIDE DEF amount
  <2> QED BY <1>2, PoolFields DEF FlightPoolType, Written
<1>4. pool \in FlightPoolAccount /\ pool.status = p.pools[f].status
         /\ SameTerms(p.pools[f], pool)
  BY PoolFields DEF FlightPoolAccount, SameTerms
<1>5. /\ PoolStep(p, q, f) /\ q.pools[f] = pool
      /\ WroteOnly(p, q, f, pool, p.buyers[f], recovered, p.pool_treasury)
  <2>1. p.buyers[f] \in [Travelers -> BuyerRecord] /\ p.pool_treasury \in U64
    BY PoolFields
  <2> HIDE DEF pool, recovered
  <2> QED BY <1>1, <1>3, <1>4, <2>1, PoolWritten
<1> QED BY <1>4, <1>5

\* withdraw_recovered moves balances only.
LEMMA WithdrawPool ==
    ASSUME NEW p \in FlightPoolType, NEW amount \in U64,
           NEW q \in withdraw_recovered(p, amount)
    PROVE  /\ q \in FlightPoolType /\ q.pools = p.pools /\ q.buyers = p.buyers
           /\ q.pool_treasury = p.pool_treasury - amount
           /\ q.recovered_balance = p.recovered_balance - amount
<1>1. /\ amount <= p.recovered_balance /\ amount <= p.pool_treasury
      /\ q = [p EXCEPT !.pool_treasury = @ - amount, !.recovered_balance = @ - amount]
  BY DEF withdraw_recovered, When
<1>2. p.pool_treasury - amount \in U64 /\ p.recovered_balance - amount \in U64
  BY <1>1, ChainAssumption DEF FlightPoolType, U64
<1> QED BY <1>1, <1>2 DEF FlightPoolType

\* register_pool: a pool that was none opens on the resolved terms.
LEMMA RegisterPool ==
    ASSUME NEW p \in FlightPoolType, NEW f \in Flights, NEW terms \in ResolvedTerms,
           NEW q \in register_pool(p, f, terms)
    PROVE  /\ PoolStep(p, q, f)
           /\ p.pools[f].status = NoAccount
           /\ q.pools[f].status = "Active"
           /\ q.pools[f].delay_hours = terms.delay_hours
           /\ WroteOnly(p, q, f,
                        [NoPool EXCEPT !.status = "Active", !.premium = terms.premium,
                                       !.payoff = terms.payoff,
                                       !.delay_hours = terms.delay_hours],
                        p.buyers[f], p.recovered_balance, p.pool_treasury)
<1> DEFINE pool == [NoPool EXCEPT !.status = "Active", !.premium = terms.premium,
                                  !.payoff = terms.payoff,
                                  !.delay_hours = terms.delay_hours]
<1>1. p.pools[f].status = NoAccount /\ q = [p EXCEPT !.pools[f] = pool]
  BY DEF register_pool, When
<1>2. q = Written(p, f, pool, p.buyers[f], p.recovered_balance, p.pool_treasury)
  <2> HIDE DEF pool
  <2> QED BY <1>1, PoolFields DEF FlightPoolType, Written
<1>3. pool \in FlightPoolAccount /\ pool.status = "Active"
         /\ pool.delay_hours = terms.delay_hours
  <2>1. 0 \in U64 /\ 0 \in U32 /\ 0 \in Nat
    BY ChainAssumption DEF U64, U32
  <2>2. terms.premium \in U64 /\ terms.payoff \in U64 /\ terms.delay_hours \in Nat
    BY DEF ResolvedTerms
  <2>3. NoPool \in FlightPoolAccount
    BY <2>1 DEF NoPool, FlightPoolAccount
  <2> HIDE DEF NoPool
  <2> QED BY <2>2, <2>3 DEF FlightPoolAccount, SettlementStatus
<1>4. /\ PoolStep(p, q, f) /\ q.pools[f] = pool
      /\ WroteOnly(p, q, f, pool, p.buyers[f], p.recovered_balance, p.pool_treasury)
  <2> HIDE DEF pool
  <2> QED BY <1>2, <1>3, PoolFields, PoolWritten
<1> QED BY <1>1, <1>3, <1>4

\* add_buyer: one more buyer, whose premium goes to the treasury.
LEMMA AddBuyerPool ==
    ASSUME NEW p \in FlightPoolType, NEW f \in Flights, NEW t \in Travelers,
           NEW q \in add_buyer(p, f, t)
    PROVE  /\ PoolStep(p, q, f)
           /\ q.pools[f].status = p.pools[f].status
           /\ SameTerms(p.pools[f], q.pools[f])
           /\ WroteOnly(p, q, f, [p.pools[f] EXCEPT !.buyer_count = @ + 1],
                        [p.buyers[f] EXCEPT ![t] = "HasPolicy"],
                        p.recovered_balance, p.pool_treasury + p.pools[f].premium)
<1> DEFINE pool == [p.pools[f] EXCEPT !.buyer_count = @ + 1]
           records == [p.buyers[f] EXCEPT ![t] = "HasPolicy"]
           treasury == p.pool_treasury + p.pools[f].premium
<1>1. treasury \in U64 /\ p.pools[f].buyer_count + 1 \in U32
  BY DEF add_buyer, When
<1>2. q = [p EXCEPT !.buyers[f][t] = "HasPolicy",
                    !.pool_treasury = @ + p.pools[f].premium,
                    !.pools[f].buyer_count = @ + 1]
  BY DEF add_buyer, When
<1>3. q = Written(p, f, pool, records, p.recovered_balance, treasury)
  BY <1>2, PoolFields DEF FlightPoolType, Written
<1>4. pool \in FlightPoolAccount /\ pool.status = p.pools[f].status
         /\ SameTerms(p.pools[f], pool)
  BY <1>1, PoolFields DEF FlightPoolAccount, SameTerms
<1>5. records \in [Travelers -> BuyerRecord]
         /\ \A s \in Travelers : p.buyers[f][s] # NoAccount => records[s] # NoAccount
  BY PoolFields DEF BuyerRecord, NoAccount
<1>6. /\ PoolStep(p, q, f) /\ q.pools[f] = pool
      /\ WroteOnly(p, q, f, pool, records, p.recovered_balance, treasury)
  <2> HIDE DEF pool, records, treasury
  <2> QED BY <1>1, <1>3, <1>4, <1>5, PoolFields, PoolWritten
<1> QED BY <1>4, <1>6

\* settle_on_time: the pool closes and its premiums leave the treasury.
LEMMA SettleOnTimePool ==
    ASSUME NEW p \in FlightPoolType, NEW f \in Flights, NEW q \in settle_on_time(p, f)
    PROVE  /\ PoolStep(p, q, f)
           /\ q.pools[f].status = "SettledOnTime"
           /\ SameTerms(p.pools[f], q.pools[f])
           /\ WroteOnly(p, q, f, [p.pools[f] EXCEPT !.status = "SettledOnTime"],
                        p.buyers[f], p.recovered_balance,
                        p.pool_treasury - TotalPremium(p, f))
<1> DEFINE premiums == TotalPremium(p, f)
           pool == [p.pools[f] EXCEPT !.status = "SettledOnTime"]
           treasury == p.pool_treasury - premiums
<1>1. premiums <= p.pool_treasury
  BY DEF settle_on_time, When
<1>2. q = [p EXCEPT !.pool_treasury = @ - premiums, !.pools[f].status = "SettledOnTime"]
  BY DEF settle_on_time, When
<1>3. q = Written(p, f, pool, p.buyers[f], p.recovered_balance, treasury)
  <2> HIDE DEF premiums
  <2> QED BY <1>2, PoolFields DEF FlightPoolType, Written
<1>4. pool \in FlightPoolAccount /\ pool.status = "SettledOnTime"
         /\ SameTerms(p.pools[f], pool)
  BY PoolFields DEF FlightPoolAccount, SettlementStatus, SameTerms
<1>5. premiums \in Nat
  <2>1. p.pools[f].premium \in Nat /\ p.pools[f].buyer_count \in Nat
    BY PoolFields, ChainAssumption DEF FlightPoolAccount, U64, U32
  <2> QED BY <2>1 DEF TotalPremium
<1>6. treasury \in U64
  <2> HIDE DEF premiums
  <2> QED BY <1>1, <1>5, PoolFields, ChainAssumption DEF U64
<1>7. /\ PoolStep(p, q, f) /\ q.pools[f] = pool
      /\ WroteOnly(p, q, f, pool, p.buyers[f], p.recovered_balance, treasury)
  <2> HIDE DEF pool, treasury
  <2> QED BY <1>3, <1>4, <1>6, PoolFields, PoolWritten
<1> QED BY <1>4, <1>7

WindowOpened(p, f, status, claim_expiry) ==
    [p EXCEPT !.pools[f].status = status, !.pools[f].claim_expiry = claim_expiry]

OpenPool(pool, status, claim_expiry) ==
    [pool EXCEPT !.status = status, !.claim_expiry = claim_expiry]

\* settle_delayed and settle_cancelled
LEMMA OpenWindowPool ==
    ASSUME NEW p \in FlightPoolType, NEW f \in Flights, NEW claim_expiry \in Nat,
           NEW status \in Payable,
           NEW q, q = WindowOpened(p, f, status, claim_expiry)
    PROVE  /\ PoolStep(p, q, f)
           /\ q.pools[f].status = status
           /\ SameTerms(p.pools[f], q.pools[f])
           /\ WroteOnly(p, q, f, OpenPool(p.pools[f], status, claim_expiry),
                        p.buyers[f], p.recovered_balance, p.pool_treasury)
<1> USE DEF OpenPool
<1> DEFINE pool == OpenPool(p.pools[f], status, claim_expiry)
<1>0. q = [p EXCEPT !.pools[f].status = status, !.pools[f].claim_expiry = claim_expiry]
  BY DEF WindowOpened
<1>1. q = Written(p, f, pool, p.buyers[f], p.recovered_balance, p.pool_treasury)
  <2> DEFINE once == [p.pools EXCEPT ![f].status = status]
             twice == [once EXCEPT ![f].claim_expiry = claim_expiry]
  <2>1. twice = [p.pools EXCEPT ![f] = pool]
    BY PoolFields
  <2>2. q = [p EXCEPT !.pools = twice]
    BY <1>0, PoolFields DEF FlightPoolType
  <2> HIDE DEF twice, pool
  <2> QED BY <2>1, <2>2, PoolFields DEF FlightPoolType, Written
<1>2. pool \in FlightPoolAccount /\ pool.status = status
         /\ SameTerms(p.pools[f], pool)
  BY PoolFields DEF FlightPoolAccount, SettlementStatus, Payable, SameTerms
<1>3. /\ PoolStep(p, q, f) /\ q.pools[f] = pool
      /\ WroteOnly(p, q, f, pool, p.buyers[f], p.recovered_balance, p.pool_treasury)
  <2> HIDE DEF pool
  <2>1. p.buyers[f] \in [Travelers -> BuyerRecord] /\ p.recovered_balance \in U64
            /\ p.pool_treasury \in U64
    BY PoolFields
  <2> QED BY <1>1, <1>2, <2>1, PoolWritten
<1> QED BY <1>2, <1>3

\* Two steps of a pool in one transaction (a first sale) are one.
LEMMA PoolStepsCompose ==
    ASSUME NEW p, NEW q, NEW q2, NEW f \in Flights, PoolStep(p, q, f), PoolStep(q, q2, f)
    PROVE  PoolStep(p, q2, f)
BY DEF PoolStep, BuyersKept
-----------------------------------------------------------------------------
(* One or two flights of a transaction. *)

\* What a transaction does to the one flight it names.
FlightMove(f, o, p, o2, p2) ==
    /\ o2 \in [Flights -> FlightData]
    /\ \A g \in Flights \ {f} : o2[g] = o[g]
    /\ PoolStep(p, p2, f)
    /\ FlightStep(o[f], p.pools[f], o2[f], p2.pools[f])

AllInStep(o, p) == \A f \in Flights : InStep(o[f], p.pools[f])

\* The accounts of the other flights are left alone.
LEMMA OneFlightMoves ==
    ASSUME NEW o \in [Flights -> FlightData], NEW p \in FlightPoolType, AllInStep(o, p),
           NEW o2, NEW p2, NEW f \in Flights, FlightMove(f, o, p, o2, p2)
    PROVE  FlightsMove(o, p, o2, p2) /\ AllInStep(o2, p2)
<1>1. \A g \in Flights : FlightStep(o[g], p.pools[g], o2[g], p2.pools[g])
  <2> TAKE g \in Flights
  <2>1. CASE g = f
    BY <2>1 DEF FlightMove
  <2>2. CASE g # f
    <3>1. o2[g] = o[g] /\ p2.pools[g] = p.pools[g]
      BY <2>2 DEF FlightMove, PoolStep
    <3>2. o[g] \in FlightData /\ InStep(o[g], p.pools[g])
      BY DEF AllInStep
    <3> QED BY <3>1, <3>2, StutterStep
  <2> QED BY <2>1, <2>2
<1>2. \A g \in Flights : InStep(o2[g], p2.pools[g])
  BY <1>1 DEF FlightStep
<1> QED BY <1>1, <1>2 DEF FlightsMove, FlightMove, PoolStep, AllInStep

\* Nothing moves.
LEMMA NoFlightMoves ==
    ASSUME NEW o \in [Flights -> FlightData], NEW p \in FlightPoolType, AllInStep(o, p),
           NEW p2 \in FlightPoolType, p2.pools = p.pools, p2.buyers = p.buyers
    PROVE  FlightsMove(o, p, o, p2)
<1>1. \A g \in Flights : FlightStep(o[g], p.pools[g], o[g], p2.pools[g])
  BY StutterStep DEF AllInStep
<1> QED BY <1>1 DEF FlightsMove, BuyersKept

\* A transaction that names two flights, or the same one twice when one of the
\* two calls changes nothing.
LEMMA TwoFlightsMove ==
    ASSUME NEW o \in [Flights -> FlightData], NEW p \in FlightPoolType, AllInStep(o, p),
           NEW o1, NEW p1, NEW f \in Flights, FlightMove(f, o, p, o1, p1),
           NEW o2, NEW p2, NEW g \in Flights, FlightMove(g, o1, p1, o2, p2),
           f # g
    PROVE  FlightsMove(o, p, o2, p2)
<1>1. FlightsMove(o, p, o1, p1) /\ AllInStep(o1, p1)
  BY OneFlightMoves
<1>2. o1 \in [Flights -> FlightData] /\ p1 \in FlightPoolType
  BY DEF FlightMove, PoolStep
<1>3. FlightsMove(o1, p1, o2, p2)
  BY <1>1, <1>2, OneFlightMoves
<1>4. \A h \in Flights : FlightStep(o[h], p.pools[h], o2[h], p2.pools[h])
  <2> TAKE h \in Flights
  <2>1. CASE h = g
    <3>1. o1[h] = o[h] /\ p1.pools[h] = p.pools[h]
      BY <2>1 DEF FlightMove, PoolStep
    <3> QED BY <1>3, <3>1 DEF FlightsMove
  <2>2. CASE h # g
    <3>1. o2[h] = o1[h] /\ p2.pools[h] = p1.pools[h]
      BY <2>2 DEF FlightMove, PoolStep
    <3> QED BY <1>1, <3>1 DEF FlightsMove
  <2> QED BY <2>1, <2>2
<1>5. BuyersKept(p, p2)
  BY <1>1, <1>3 DEF FlightsMove, BuyersKept
<1> QED BY <1>3, <1>4, <1>5 DEF FlightsMove

\* classify_flights, one flight.
LEMMA ClassifyFlightMove ==
    ASSUME NEW o \in [Flights -> FlightData], flight_pool \in FlightPoolType,
           AllInStep(o, flight_pool),
           NEW f \in Flights, NEW o2 \in classify_flight(o, f)
    PROVE  /\ FlightMove(f, o, flight_pool, o2, flight_pool)
           /\ o2 = o \/ (o2[f].status \in ToBeSettled
                          /\ \A o3 \in classify_flight(o2, f) : o3 = o2)
<1> DEFINE pool == flight_pool.pools[f]
<1>1. o[f] \in FlightData /\ pool \in FlightPoolAccount /\ InStep(o[f], pool)
  BY PoolFields DEF AllInStep
<1>2. PoolStep(flight_pool, flight_pool, f)
  BY DEF PoolStep, BuyersKept
<1>3. CASE o2 = o
  <2>1. FlightStep(o[f], pool, o2[f], pool)
    BY <1>1, <1>3, StutterStep
  <2> QED BY <1>2, <1>3, <2>1 DEF FlightMove
<1>4. CASE o2 # o
  <2>1. PICK status :
          /\ \/ o[f].status = "Cancelled" /\ status = "ToBeSettledCancelled"
             \/ /\ o[f].status = "Landed"
                /\ status = IF IsDelayed(o[f], pool) THEN "ToBeSettledDelayed"
                                                   ELSE "ToBeSettledOnTime"
          /\ o2 = [o EXCEPT ![f].status = status]
    BY <1>1, <1>4 DEF classify_flight, set_to_be_settled, When
  <2>2. o2[f] = [o[f] EXCEPT !.status = status]
    BY <2>1
  <2>3. /\ o2[f] \in FlightData /\ o2[f].status \in ToBeSettled
        /\ FlightStep(o[f], pool, o2[f], pool)
    BY <1>1, <2>1, <2>2, ClassifiedStep
  <2>4. o2 \in [Flights -> FlightData] /\ \A g \in Flights \ {f} : o2[g] = o[g]
    BY <2>1, <2>3
  <2>5. \A o3 \in classify_flight(o2, f) : o3 = o2
    BY <2>3 DEF classify_flight, ToBeSettled, NoAccount
  <2> QED BY <1>2, <2>3, <2>4, <2>5 DEF FlightMove
<1> QED BY <1>3, <1>4
-----------------------------------------------------------------------------
(* ActiveFlightList *)

\* A flight whose accounts exist and that is not settled.
Open(fd) == fd.status \notin {NoAccount, "Settled"}

Listed(list, f) == \E i \in 1 .. Len(list) : list[i] = f

\* The list names each open flight once, and no other.
Listing(list, o) ==
    /\ list \in Seq(Flights)
    /\ Distinct(list)
    /\ \A f \in Flights : Listed(list, f) <=> Open(o[f])

\* A settled flight leaves the list, the others stay.
LEMMA SettledListing ==
    ASSUME NEW list, NEW o, Listing(list, o), NEW f \in Flights, Open(o[f]),
           NEW o2, ~Open(o2[f]), \A g \in Flights \ {f} : o2[g] = o[g]
    PROVE  Listing(RemoveFirst(list, f), o2)
<1> DEFINE rest == RemoveFirst(list, f)
<1>1. PICK i \in 1 .. Len(list) : list[i] = f
  BY DEF Listing, Listed
<1>2. rest \in Seq(Flights) /\ Without(rest, list, i)
  BY <1>1, RemoveFirstProperties DEF Listing
<1> HIDE DEF rest
<1>3. /\ Distinct(rest)
      /\ \A j \in 1 .. Len(rest) : rest[j] # f
      /\ \A j \in 1 .. Len(rest) : \E k \in 1 .. Len(list) : list[k] = rest[j]
      /\ \A k \in 1 .. Len(list) \ {i} : \E j \in 1 .. Len(rest) : rest[j] = list[k]
  BY <1>1, <1>2, WithoutKeepsOthers DEF Listing
<1>4. \A g \in Flights \ {f} : Listed(rest, g) <=> Listed(list, g)
  BY <1>1, <1>3 DEF Listed
<1>5. \A g \in Flights : Listed(rest, g) <=> Open(o2[g])
  BY <1>3, <1>4 DEF Listing, Listed
<1> QED BY <1>2, <1>3, <1>5 DEF Listing, rest

\* The first buyer's flight joins the list.
LEMMA OpenedListing ==
    ASSUME NEW list, NEW o, Listing(list, o), NEW f \in Flights, ~Open(o[f]),
           NEW o2, Open(o2[f]), \A g \in Flights \ {f} : o2[g] = o[g]
    PROVE  Listing(Append(list, f), o2)
<1> DEFINE longer == Append(list, f)
           n == Len(list)
<1>1. /\ longer \in Seq(Flights) /\ Len(longer) = n + 1 /\ n \in Nat
      /\ \A i \in 1 .. n : longer[i] = list[i]
      /\ longer[n + 1] = f
  BY AppendProperties, LenProperties DEF Listing
<1> HIDE DEF longer, n
<1>2. \A i \in 1 .. n : list[i] # f
  BY DEF Listing, Listed, n
<1>3. Distinct(longer)
  <2>1. \A i \in 1 .. Len(longer) : i \in 1 .. n \/ i = n + 1
    BY <1>1
  <2> QED BY <1>1, <1>2, <2>1 DEF Listing, Distinct, n
<1>4. \A g \in Flights : Listed(longer, g) <=> Open(o2[g])
  <2>1. n + 1 \in 1 .. Len(longer) /\ 1 .. n \subseteq 1 .. Len(longer)
    BY <1>1
  <2>2. \A i \in 1 .. Len(longer) : i \in 1 .. n \/ i = n + 1
    BY <1>1
  <2> QED BY <1>1, <2>1, <2>2 DEF Listing, Listed, n
<1> QED BY <1>1, <1>3, <1>4 DEF Listing, longer

\* A flight is open exactly while its pool is active.
LEMMA OpenIsActive ==
    ASSUME NEW fd, NEW pool \in FlightPoolAccount, InStep(fd, pool)
    PROVE  Open(fd) <=> pool.status = "Active"
BY DEF InStep, Open, FlightPoolAccount, SettlementStatus, NoAccount
-----------------------------------------------------------------------------
(* execute_settlements: what its calls thread through the flights of a     *)
(* batch.                                                                  *)

IsWork(w) ==
    /\ w = [ vault |-> w.vault, flight_pool |-> w.flight_pool,
             oracle |-> w.oracle, paid |-> w.paid ]
    /\ w.flight_pool \in FlightPoolType
    /\ w.oracle \in [Flights -> FlightData]

\* settle_on_time_branch, as a step of flight_pool.
LEMMA OnTimeBranch ==
    ASSUME NEW w, IsWork(w), NEW f \in Flights, NEW x \in settle_on_time_branch(w, f)
    PROVE  /\ IsWork(x) /\ x.oracle = w.oracle
           /\ PoolStep(w.flight_pool, x.flight_pool, f)
           /\ x.flight_pool.pools[f].status = "SettledOnTime"
           /\ SameTerms(w.flight_pool.pools[f], x.flight_pool.pools[f])
<1> DEFINE p == w.flight_pool
<1>1. PICK q \in settle_on_time(p, f),
           v \in settle_premium_into_vault(w.vault, TotalPremium(p, f),
                                           TotalPayoff(p, f)) :
         x = [w EXCEPT !.flight_pool = q, !.vault = v]
  BY DEF settle_on_time_branch
<1>2. /\ x = [ vault |-> v, flight_pool |-> q, oracle |-> w.oracle, paid |-> w.paid ]
      /\ p \in FlightPoolType
  BY <1>1 DEF IsWork
<1>3. /\ PoolStep(p, q, f) /\ q.pools[f].status = "SettledOnTime"
      /\ SameTerms(p.pools[f], q.pools[f])
  BY <1>2, SettleOnTimePool
<1>4. q \in FlightPoolType
  BY <1>3 DEF PoolStep
<1> QED BY <1>2, <1>3, <1>4 DEF IsWork

\* The payout enters the treasury and nothing else.
LEMMA PayoutEnters ==
    ASSUME NEW p \in FlightPoolType, NEW f \in Flights, NEW q \in PayoutReceived(p, f)
    PROVE  /\ q \in FlightPoolType /\ q.pools = p.pools
           /\ \A q2 : PoolStep(q, q2, f) => PoolStep(p, q2, f)
<1>1. /\ p.pool_treasury + PayoutDiff(p, f) \in U64
      /\ q = [p EXCEPT !.pool_treasury = @ + PayoutDiff(p, f)]
  BY DEF PayoutReceived, When
<1>2. q \in FlightPoolType /\ q.pools = p.pools /\ q.buyers = p.buyers
  BY <1>1 DEF FlightPoolType
<1> QED BY <1>2 DEF PoolStep, BuyersKept

\* settle_payout_branch, as a step of flight_pool.
LEMMA PayoutBranch ==
    ASSUME NEW w, IsWork(w), NEW f \in Flights, now \in Time,
           NEW variant \in {"Delayed", "Cancelled"},
           NEW x \in settle_payout_branch(w, f, variant)
    PROVE  /\ IsWork(x) /\ x.oracle = w.oracle
           /\ PoolStep(w.flight_pool, x.flight_pool, f)
           /\ x.flight_pool.pools[f].status
                 = IF variant = "Delayed" THEN "SettledDelayed" ELSE "SettledCancelled"
           /\ SameTerms(w.flight_pool.pools[f], x.flight_pool.pools[f])
<1> DEFINE p == w.flight_pool
           claim_expiry == now + CLAIM_EXPIRY_WINDOW
           status == IF variant = "Delayed" THEN "SettledDelayed" ELSE "SettledCancelled"
           settle(q) == IF variant = "Delayed" THEN settle_delayed(q, f, claim_expiry)
                                               ELSE settle_cancelled(q, f, claim_expiry)
<1>0. PICK q2 \in UNION {settle(q) : q \in PayoutReceived(p, f)},
           v \in settle_payout_from_vault(w.vault, PayoutDiff(p, f), TotalPayoff(p, f)) :
         x = [w EXCEPT !.flight_pool = q2, !.vault = v, !.paid = @ + PayoutDiff(p, f)]
  BY DEF settle_payout_branch
<1>1. PICK q \in PayoutReceived(p, f) : q2 \in settle(q)
  BY <1>0
<1>2. /\ x = [ vault |-> v, flight_pool |-> q2, oracle |-> w.oracle,
               paid |-> w.paid + PayoutDiff(p, f) ]
      /\ p \in FlightPoolType
  BY <1>0 DEF IsWork
<1>3. q \in FlightPoolType /\ q.pools = p.pools
         /\ \A q3 : PoolStep(q, q3, f) => PoolStep(p, q3, f)
  BY <1>2, PayoutEnters
<1>4. q2 = WindowOpened(q, f, status, claim_expiry)
  BY <1>1 DEF settle_delayed, settle_cancelled, When, WindowOpened
<1>5. claim_expiry \in Nat /\ status \in Payable
  BY ChainAssumption, ControllerAssumption DEF Time, Payable
<1>6. /\ PoolStep(q, q2, f) /\ q2.pools[f].status = status
      /\ SameTerms(q.pools[f], q2.pools[f])
  <2> HIDE DEF status, claim_expiry
  <2> QED BY <1>3, <1>4, <1>5, OpenWindowPool
<1>7. q2 \in FlightPoolType
  BY <1>6 DEF PoolStep
<1> QED BY <1>2, <1>3, <1>6, <1>7 DEF IsWork

\* settle_flight: the pool is settled, as the flight was classified, with it.
LEMMA SettleFlightMove ==
    ASSUME NEW w, IsWork(w), NEW f \in Flights, now \in Time,
           AllInStep(w.oracle, w.flight_pool),
           NEW w2 \in settle_flight(w, f)
    PROVE  /\ IsWork(w2)
           /\ FlightMove(f, w.oracle, w.flight_pool, w2.oracle, w2.flight_pool)
           /\ w.oracle[f].status \in ToBeSettled /\ w2.oracle[f].status = "Settled"
<1> DEFINE fd == w.oracle[f]
           pool == w.flight_pool.pools[f]
           branch == CASE fd.status = "ToBeSettledOnTime" -> settle_on_time_branch(w, f)
                       [] fd.status = "ToBeSettledDelayed" ->
                             settle_payout_branch(w, f, "Delayed")
                       [] fd.status = "ToBeSettledCancelled" ->
                             settle_payout_branch(w, f, "Cancelled")
                       [] OTHER -> {}
<1>1. PICK x \in branch, o2 \in set_settled(w.oracle, f) : w2 = [x EXCEPT !.oracle = o2]
  BY DEF settle_flight
<1>2. fd \in FlightData /\ pool \in FlightPoolAccount /\ InStep(fd, pool)
  BY PoolFields DEF IsWork, AllInStep
<1>3. fd.status \in ToBeSettled /\ o2 = [w.oracle EXCEPT ![f].status = "Settled"]
  BY DEF set_settled, When
<1>4. /\ IsWork(x) /\ x.oracle = w.oracle
      /\ PoolStep(w.flight_pool, x.flight_pool, f)
      /\ x.flight_pool.pools[f].status = SettledAs(fd.status)
      /\ SameTerms(pool, x.flight_pool.pools[f])
  <2>1. CASE fd.status = "ToBeSettledOnTime"
    BY <2>1, OnTimeBranch DEF SettledAs
  <2>2. CASE fd.status = "ToBeSettledDelayed"
    BY <2>2, PayoutBranch DEF SettledAs
  <2>3. CASE fd.status = "ToBeSettledCancelled"
    BY <2>3, PayoutBranch DEF SettledAs
  <2> QED BY <1>3, <2>1, <2>2, <2>3 DEF ToBeSettled
<1>5. o2[f] = [fd EXCEPT !.status = "Settled"]
  BY <1>3 DEF IsWork
<1>6. x.flight_pool.pools[f] \in FlightPoolAccount
  BY <1>4, PoolFields DEF IsWork
<1>7. o2[f] \in FlightData /\ FlightStep(fd, pool, o2[f], x.flight_pool.pools[f])
  BY <1>2, <1>3, <1>4, <1>5, <1>6, SettledStep
<1>8. /\ o2 \in [Flights -> FlightData]
      /\ \A g \in Flights \ {f} : o2[g] = w.oracle[g]
      /\ o2[f].status = "Settled"
  BY <1>2, <1>3, <1>5, <1>7 DEF IsWork, FlightData
<1>9. IsWork(w2) /\ w2.oracle = o2 /\ w2.flight_pool = x.flight_pool
  BY <1>1, <1>4, <1>8 DEF IsWork
<1> QED BY <1>3, <1>4, <1>7, <1>8, <1>9 DEF FlightMove

\* A flight that settle_flight has settled leaves the list.
LEMMA SettledFlightLeaves ==
    ASSUME NEW w, IsWork(w), NEW f \in Flights, now \in Time,
           AllInStep(w.oracle, w.flight_pool),
           NEW w2 \in settle_flight(w, f)
    PROVE  \A list : Listing(list, w.oracle)
                        => Listing(RemoveFirst(list, f), w2.oracle)
<1>1. /\ \A g \in Flights \ {f} : w2.oracle[g] = w.oracle[g]
      /\ w.oracle[f].status \in ToBeSettled /\ w2.oracle[f].status = "Settled"
  BY SettleFlightMove DEF FlightMove
<1>2. Open(w.oracle[f]) /\ ~Open(w2.oracle[f])
  BY <1>1 DEF Open, ToBeSettled, NoAccount
<1> QED BY <1>1, <1>2, SettledListing

\* A batch names no flight, one, or two.
LEMMA BatchCases ==
    ASSUME NEW batch \in Batches
    PROVE  \/ batch = << >> /\ Len(batch) = 0
           \/ batch # << >> /\ Len(batch) = 1 /\ batch[1] \in Flights
           \/ /\ batch # << >> /\ Len(batch) = 2
              /\ batch[1] \in Flights /\ batch[2] \in Flights
<1>1. PICK n \in 0 .. MAX_FLIGHTS_PER_TX : batch \in [1 .. n -> Flights]
  BY DEF Batches
<1>2. n \in {0, 1, 2}
  BY DEF MAX_FLIGHTS_PER_TX
<1>3. batch \in Seq(Flights) /\ Len(batch) = n /\ DOMAIN batch = 1 .. n
  BY <1>1, <1>2
<1>4. batch = << >> <=> Len(batch) = 0
  BY <1>3
<1>5. n >= 1 => batch[1] \in Flights
  BY <1>1, <1>2
<1>6. n = 2 => batch[2] \in Flights
  BY <1>1, <1>2
<1> QED BY <1>2, <1>3, <1>4, <1>5, <1>6

\* execute_settlements: the flights of a batch, in order.  A flight named
\* twice fails the second time, when its FlightData is Settled.
LEMMA SettleBatchMove ==
    ASSUME NEW w0, IsWork(w0), now \in Time, AllInStep(w0.oracle, w0.flight_pool),
           NEW batch \in Batches, NEW w \in settle_batch(w0, batch)
    PROVE  /\ FlightsMove(w0.oracle, w0.flight_pool, w.oracle, w.flight_pool)
           /\ \A list : Listing(list, w0.oracle)
                         => Listing(RemoveFlights(list, batch), w.oracle)
<1> DEFINE o == w0.oracle
           p == w0.flight_pool
<1>0. o \in [Flights -> FlightData] /\ p \in FlightPoolType
  BY DEF IsWork
<1>1. CASE batch = << >> /\ Len(batch) = 0
  <2>1. w = w0
    BY <1>1 DEF settle_batch
  <2>2. \A list : RemoveFlights(list, batch) = list
    BY <1>1 DEF RemoveFlights
  <2> QED BY <1>0, <2>1, <2>2, NoFlightMoves
<1>2. CASE batch # << >> /\ Len(batch) = 1 /\ batch[1] \in Flights
  <2>1. w \in settle_flight(w0, batch[1])
    BY <1>2 DEF settle_batch
  <2>2. /\ FlightMove(batch[1], o, p, w.oracle, w.flight_pool)
        /\ \A list : Listing(list, o)
                       => Listing(RemoveFirst(list, batch[1]), w.oracle)
    BY <1>2, <2>1, SettleFlightMove, SettledFlightLeaves
  <2>3. \A list : RemoveFlights(list, batch) = RemoveFirst(list, batch[1])
    BY <1>2 DEF RemoveFlights
  <2> QED BY <1>0, <1>2, <2>2, <2>3, OneFlightMoves
<1>3. CASE /\ batch # << >> /\ Len(batch) = 2
           /\ batch[1] \in Flights /\ batch[2] \in Flights
  <2>1. PICK x \in settle_flight(w0, batch[1]) : w \in settle_flight(x, batch[2])
    BY <1>3 DEF settle_batch
  <2>2. /\ IsWork(x) /\ FlightMove(batch[1], o, p, x.oracle, x.flight_pool)
        /\ x.oracle[batch[1]].status = "Settled"
        /\ \A list : Listing(list, o)
                       => Listing(RemoveFirst(list, batch[1]), x.oracle)
    BY <1>3, SettleFlightMove, SettledFlightLeaves
  <2>3. AllInStep(x.oracle, x.flight_pool)
    BY <1>0, <1>3, <2>2, OneFlightMoves
  <2>4. /\ FlightMove(batch[2], x.oracle, x.flight_pool, w.oracle, w.flight_pool)
        /\ x.oracle[batch[2]].status \in ToBeSettled
        /\ \A list : Listing(list, x.oracle)
                       => Listing(RemoveFirst(list, batch[2]), w.oracle)
    BY <1>3, <2>1, <2>2, <2>3, SettleFlightMove, SettledFlightLeaves
  <2>5. batch[1] # batch[2]
    BY <2>2, <2>4 DEF ToBeSettled
  <2>6. \A list : RemoveFlights(list, batch)
                     = RemoveFirst(RemoveFirst(list, batch[1]), batch[2])
    BY <1>3 DEF RemoveFlights
  <2>7. \A list : Listing(list, o) => Listing(RemoveFlights(list, batch), w.oracle)
    BY <2>2, <2>4, <2>6
  <2> QED BY <1>0, <1>3, <2>2, <2>4, <2>5, <2>7, TwoFlightsMove
<1> QED BY <1>1, <1>2, <1>3, BatchCases

\* classify_flights: a flight named twice is skipped the second time.
LEMMA ClassifyFlightsMove ==
    ASSUME FlightsTypeOK, AllInStep(oracle, flight_pool),
           NEW batch \in Batches, classify_flights(batch)
    PROVE  FlightsMove(oracle, flight_pool, oracle', flight_pool)
<1>0. oracle \in [Flights -> FlightData] /\ flight_pool \in FlightPoolType
  BY DEF FlightsTypeOK
<1>1. CASE batch = << >> /\ Len(batch) = 0
  <2>1. oracle' = oracle
    BY <1>1 DEF classify_flights
  <2> QED BY <1>0, <2>1, NoFlightMoves
<1>2. CASE batch # << >> /\ Len(batch) = 1 /\ batch[1] \in Flights
  <2>1. oracle' \in classify_flight(oracle, batch[1])
    BY <1>2 DEF classify_flights
  <2>2. FlightMove(batch[1], oracle, flight_pool, oracle', flight_pool)
    BY <1>0, <1>2, <2>1, ClassifyFlightMove
  <2> QED BY <1>0, <1>2, <2>2, OneFlightMoves
<1>3. CASE /\ batch # << >> /\ Len(batch) = 2
           /\ batch[1] \in Flights /\ batch[2] \in Flights
  <2>1. PICK o1 \in classify_flight(oracle, batch[1]) :
               oracle' \in classify_flight(o1, batch[2])
    BY <1>3 DEF classify_flights
  <2>2. /\ FlightMove(batch[1], oracle, flight_pool, o1, flight_pool)
        /\ \/ o1 = oracle
           \/ \A o3 \in classify_flight(o1, batch[1]) : o3 = o1
    BY <1>0, <1>3, ClassifyFlightMove
  <2>3. o1 \in [Flights -> FlightData] /\ AllInStep(o1, flight_pool)
    BY <1>0, <1>3, <2>2, OneFlightMoves DEF FlightsMove
  <2>4. FlightMove(batch[2], o1, flight_pool, oracle', flight_pool)
    BY <1>0, <1>3, <2>1, <2>3, ClassifyFlightMove
  <2>5. CASE batch[1] # batch[2]
    BY <1>0, <1>3, <2>2, <2>4, <2>5, TwoFlightsMove
  <2>6. CASE batch[1] = batch[2] /\ o1 = oracle
    BY <1>0, <1>3, <2>4, <2>6, OneFlightMoves
  <2>7. CASE batch[1] = batch[2] /\ oracle' = o1
    BY <1>0, <1>3, <2>2, <2>7, OneFlightMoves
  <2> QED BY <2>1, <2>2, <2>5, <2>6, <2>7
<1> QED BY <1>1, <1>2, <1>3, BatchCases
-----------------------------------------------------------------------------
(* Where the terms come from. *)

\* get_route_terms: terms are resolved to values, and the delay to at least an
\* hour, whatever the route overrides.
LEMMA TermsResolved ==
    ASSUME NEW g \in GovernanceType, DelaysBounded(g), NEW r \in Routes,
           NEW terms \in get_route_terms(g, r)
    PROVE  terms \in ResolvedTerms /\ terms.delay_hours \in DelayHours
<1>1. g.routes[r] \in RouteAccount /\ g.default_terms \in ResolvedTerms
  BY DEF GovernanceType
<1>2. terms = [ premium |-> unwrap_or(g.routes[r].premium, g.default_terms.premium),
                payoff |-> unwrap_or(g.routes[r].payoff, g.default_terms.payoff),
                delay_hours |-> unwrap_or(g.routes[r].delay_hours,
                                          g.default_terms.delay_hours) ]
  BY DEF get_route_terms, When
<1>3. /\ unwrap_or(g.routes[r].premium, g.default_terms.premium) \in U64
      /\ unwrap_or(g.routes[r].payoff, g.default_terms.payoff) \in U64
      /\ unwrap_or(g.routes[r].delay_hours, g.default_terms.delay_hours) \in DelayHours
  BY <1>1 DEF RouteAccount, ResolvedTerms, unwrap_or, DelaysBounded
<1>4. DelayHours \subseteq Nat
  BY GovernanceAssumption DEF DelayHours
<1> QED BY <1>2, <1>3, <1>4 DEF ResolvedTerms

\* governance_program checks the delay of every override and update.
LEMMA GovernanceMove ==
    ASSUME governance \in GovernanceType, DelaysBounded(governance), GovernanceNext
    PROVE  governance' \in GovernanceType /\ DelaysBounded(governance')
<1> PICK r \in Routes :
        \/ WhitelistRoute(Owner, r)
        \/ DisableRoute(Owner, r)
        \/ \E update \in TermUpdates : UpdateRouteTerms(Owner, r, update)
  BY DEF GovernanceNext
<1>0. governance.routes \in [Routes -> RouteAccount]
  BY DEF GovernanceType
<1>1. CASE WhitelistRoute(Owner, r)
  <2>1. NoOverrides \in OverridesType
    BY DEF NoOverrides, OverridesType
  <2>2. /\ governance' \in GovernanceType
        /\ \A s \in Routes \ {r} : governance'.routes[s] = governance.routes[s]
    BY <1>1, <2>1, WhitelistRouteType DEF WhitelistRoute
  <2>3. /\ governance'.routes[r].delay_hours = None
        /\ governance'.default_terms = governance.default_terms
    <3> DEFINE new == [ exists |-> TRUE, approved |-> TRUE, premium |-> None,
                        payoff |-> None, delay_hours |-> None ]
               count == IF governance.routes[r].exists THEN governance.route_count
                        ELSE governance.route_count + 1
    <3>1. governance' = [governance EXCEPT !.routes[r] = new, !.route_count = count]
      BY <1>1 DEF WhitelistRoute, whitelist_route, Whitelisted, When, NoOverrides
    <3>2. new.delay_hours = None
      OBVIOUS
    <3>3. /\ governance'.routes[r] = new
          /\ governance'.default_terms = governance.default_terms
      <4> HIDE DEF new, count
      <4> QED BY <1>0, <3>1 DEF GovernanceType
    <3> QED BY <3>2, <3>3
  <2> QED BY <2>2, <2>3 DEF DelaysBounded
<1>2. CASE DisableRoute(Owner, r)
  <2>1. /\ governance' \in GovernanceType
        /\ governance'.routes = [governance.routes EXCEPT ![r].approved = FALSE]
    BY <1>2, DisableRouteType DEF DisableRoute
  <2>2. governance'.default_terms = governance.default_terms
    BY <1>2 DEF DisableRoute, disable_route, When, GovernanceType
  <2>3. \A s \in Routes : governance'.routes[s].delay_hours
                              = governance.routes[s].delay_hours
    BY <1>0, <2>1 DEF RouteAccount
  <2> QED BY <2>1, <2>2, <2>3 DEF DelaysBounded
<1>3. ASSUME NEW update \in TermUpdates, UpdateRouteTerms(Owner, r, update)
      PROVE  governance' \in GovernanceType /\ DelaysBounded(governance')
  <2>0. update \in UpdatesType
    BY SentinelAssumption
  <2>1. /\ governance' \in GovernanceType
        /\ \A s \in Routes \ {r} : governance'.routes[s] = governance.routes[s]
    BY <1>3, <2>0, UpdateRouteTermsType DEF UpdateRouteTerms
  <2>2. /\ update.delay_hours \in DelayHours \cup {Keep, RevertToDefault}
        /\ governance' = [governance EXCEPT !.routes[r] = Updated(@, update)]
    BY <1>3 DEF UpdateRouteTerms, update_route_terms, When
  <2>3. /\ governance'.routes[r] = Updated(governance.routes[r], update)
        /\ governance'.default_terms = governance.default_terms
    BY <1>0, <2>2 DEF GovernanceType
  <2>4. Updated(governance.routes[r], update).delay_hours
           = Applied(update.delay_hours, governance.routes[r].delay_hours)
    BY <1>0 DEF Updated, RouteAccount
  <2>5. governance'.routes[r].delay_hours \in DelayHours \cup {None}
    BY <2>2, <2>3, <2>4 DEF Applied, RevertToDefault, DelaysBounded
  <2> QED BY <2>1, <2>3, <2>5 DEF DelaysBounded
<1> QED BY <1>1, <1>2, <1>3

-----------------------------------------------------------------------------
\* buy_insurance: the first sale of a flight creates its accounts, a later one
\* adds a record to its pool.
LEMMA SaleMove ==
    ASSUME FlightsTypeOK, DelaysBounded(governance), AllInStep(oracle, flight_pool),
           NEW t \in Travelers, NEW f \in Flights, NEW route \in Routes,
           buy_insurance(t, f, route)
    PROVE  FlightsMove(oracle, flight_pool, oracle', flight_pool')
<1> DEFINE fd == oracle[f]
           pool == flight_pool.pools[f]
<1>0. /\ oracle \in [Flights -> FlightData] /\ flight_pool \in FlightPoolType
      /\ fd \in FlightData /\ InStep(fd, pool)
  BY DEF FlightsTypeOK, AllInStep
<1>1. PICK terms \in get_route_terms(governance, route) :
        /\ oracle' \in IF pool.status = NoAccount THEN init_flight_data(oracle, f)
                                                  ELSE {oracle}
        /\ \E p \in PoolForBuyer(flight_pool, f, terms) :
              flight_pool' \in add_buyer(p, f, t)
  BY DEF buy_insurance
<1>2. PICK p \in PoolForBuyer(flight_pool, f, terms) : flight_pool' \in add_buyer(p, f, t)
  BY <1>1
<1>3. terms \in ResolvedTerms /\ terms.delay_hours \in DelayHours
  BY TermsResolved DEF FlightsTypeOK
<1>4. CASE pool.status = NoAccount
  <2>1. p \in register_pool(flight_pool, f, terms)
    BY <1>2, <1>4 DEF PoolForBuyer
  <2>2. /\ PoolStep(flight_pool, p, f) /\ p.pools[f].status = "Active"
        /\ p.pools[f].delay_hours \in DelayHours
    BY <1>0, <1>3, <2>1, RegisterPool
  <2>3. p \in FlightPoolType
    BY <2>2 DEF PoolStep
  <2>4. /\ PoolStep(p, flight_pool', f) /\ flight_pool'.pools[f].status = "Active"
        /\ flight_pool'.pools[f].delay_hours \in DelayHours
    BY <1>2, <2>2, <2>3, AddBuyerPool DEF SameTerms
  <2>5. PoolStep(flight_pool, flight_pool', f)
    BY <2>2, <2>4, PoolStepsCompose
  <2>6. /\ fd.status = NoAccount
        /\ oracle' = [oracle EXCEPT ![f] = [NoFlightData EXCEPT !.status = "NotInitiated"]]
    BY <1>1, <1>4 DEF init_flight_data, When
  <2>7. oracle'[f] = [NoFlightData EXCEPT !.status = "NotInitiated"]
    BY <1>0, <2>6
  <2>8. oracle'[f] \in FlightData
           /\ FlightStep(fd, pool, oracle'[f], flight_pool'.pools[f])
    BY <1>0, <2>4, <2>6, <2>7, CreatedStep
  <2>9. FlightMove(f, oracle, flight_pool, oracle', flight_pool')
    BY <1>0, <2>5, <2>6, <2>8 DEF FlightMove
  <2> QED BY <1>0, <2>9, OneFlightMoves
<1>5. CASE pool.status # NoAccount
  <2>1. p = flight_pool /\ oracle' = oracle
    BY <1>1, <1>2, <1>5 DEF PoolForBuyer
  <2>2. /\ PoolStep(flight_pool, flight_pool', f)
        /\ flight_pool'.pools[f].status = pool.status
        /\ SameTerms(pool, flight_pool'.pools[f])
    BY <1>0, <1>2, <2>1, AddBuyerPool
  <2>3. FlightStep(fd, pool, fd, flight_pool'.pools[f])
    BY <1>0, <2>2, KeptStep
  <2>4. FlightMove(f, oracle, flight_pool, oracle', flight_pool')
    BY <1>0, <2>1, <2>2, <2>3 DEF FlightMove
  <2> QED BY <1>0, <2>4, OneFlightMoves
<1> QED BY <1>4, <1>5
-----------------------------------------------------------------------------
(* Every transaction. *)

\* The oracle's reports, on the flight they name.
LEMMA ReportMove ==
    ASSUME FlightsTypeOK, AllInStep(oracle, flight_pool), OracleNext
    PROVE  FlightsMove(oracle, flight_pool, oracle', flight_pool')
<1>0. oracle \in [Flights -> FlightData] /\ flight_pool \in FlightPoolType
  BY DEF FlightsTypeOK
<1>1. PICK f \in Flights :
        \/ \E eta \in Etas : SetEstimatedArrival(f, eta)
        \/ \E actual_arrival \in Arrivals : SetLanded(f, actual_arrival)
        \/ SetCancelled(f)
  BY DEF OracleNext
<1> DEFINE fd == oracle[f]
           pool == flight_pool.pools[f]
<1>2. fd \in FlightData /\ pool \in FlightPoolAccount /\ InStep(fd, pool)
  BY <1>0, PoolFields DEF AllInStep
<1>3. flight_pool' = flight_pool /\ PoolStep(flight_pool, flight_pool, f)
  BY <1>0, <1>1 DEF SetEstimatedArrival, SetLanded, SetCancelled, PoolStep, BuyersKept
<1>4. ASSUME NEW fd2, fd2 \in FlightData /\ FlightStep(fd, pool, fd2, pool),
             oracle' = [oracle EXCEPT ![f] = fd2]
      PROVE  FlightsMove(oracle, flight_pool, oracle', flight_pool')
  <2>1. FlightMove(f, oracle, flight_pool, oracle', flight_pool')
    BY <1>0, <1>3, <1>4 DEF FlightMove
  <2> QED BY <1>0, <2>1, OneFlightMoves
<1>5. ASSUME NEW eta \in Etas, SetEstimatedArrival(f, eta)
      PROVE  FlightsMove(oracle, flight_pool, oracle', flight_pool')
  <2> DEFINE fd2 == [fd EXCEPT !.status = "Active", !.estimated_arrival_time = eta]
             once == [oracle EXCEPT ![f].status = "Active"]
  <2>1. /\ fd.status = "NotInitiated"
        /\ oracle' = [once EXCEPT ![f].estimated_arrival_time = eta]
    BY <1>0, <1>5 DEF SetEstimatedArrival, set_estimated_arrival, When
  <2>2. oracle' = [oracle EXCEPT ![f] = fd2]
    BY <1>0, <2>1
  <2>3. eta \in Int
    BY SentinelAssumption
  <2>4. fd2 \in FlightData /\ FlightStep(fd, pool, fd2, pool)
    BY <1>2, <2>1, <2>3, ReportStep
  <2> HIDE DEF fd2
  <2> QED BY <1>4, <2>2, <2>4
<1>6. ASSUME NEW actual \in Arrivals, SetLanded(f, actual)
      PROVE  FlightsMove(oracle, flight_pool, oracle', flight_pool')
  <2> DEFINE fd2 == [fd EXCEPT !.status = "Landed", !.actual_arrival_time = actual]
             once == [oracle EXCEPT ![f].status = "Landed"]
  <2>1. /\ fd.status = "Active"
        /\ oracle' = [once EXCEPT ![f].actual_arrival_time = actual]
    BY <1>0, <1>6 DEF SetLanded, set_landed, When
  <2>2. oracle' = [oracle EXCEPT ![f] = fd2]
    BY <1>0, <2>1
  <2>3. fd2 \in FlightData /\ FlightStep(fd, pool, fd2, pool)
    <3>1. 0 \in Int
      OBVIOUS
    <3> QED BY <1>2, <2>1, <3>1, ReportStep
  <2> HIDE DEF fd2
  <2> QED BY <1>4, <2>2, <2>3
<1>7. CASE SetCancelled(f)
  <2> DEFINE fd2 == [fd EXCEPT !.status = "Cancelled"]
  <2>1. /\ fd.status = "Active"
        /\ oracle' = [oracle EXCEPT ![f] = fd2]
    BY <1>0, <1>7 DEF SetCancelled, set_cancelled, When
  <2>2. fd2 \in FlightData /\ FlightStep(fd, pool, fd2, pool)
    <3>1. 0 \in Int
      OBVIOUS
    <3> QED BY <1>2, <2>1, <3>1, ReportStep
  <2> HIDE DEF fd2
  <2> QED BY <1>4, <2>1, <2>2
<1> QED BY <1>1, <1>5, <1>6, <1>7

\* Claims, sweeps and withdrawals leave every status and every term.
LEMMA PoolMove ==
    ASSUME FlightsTypeOK, DelaysBounded(governance), AllInStep(oracle, flight_pool),
           PoolNext
    PROVE  FlightsMove(oracle, flight_pool, oracle', flight_pool')
<1>0. oracle \in [Flights -> FlightData] /\ flight_pool \in FlightPoolType
  BY DEF FlightsTypeOK
<1>1. ASSUME NEW f \in Flights, oracle' = oracle,
             /\ PoolStep(flight_pool, flight_pool', f)
             /\ flight_pool'.pools[f].status = flight_pool.pools[f].status
             /\ SameTerms(flight_pool.pools[f], flight_pool'.pools[f])
      PROVE  FlightsMove(oracle, flight_pool, oracle', flight_pool')
  <2>1. oracle[f] \in FlightData /\ InStep(oracle[f], flight_pool.pools[f])
    BY <1>0 DEF AllInStep
  <2>2. FlightStep(oracle[f], flight_pool.pools[f], oracle[f], flight_pool'.pools[f])
    BY <1>1, <2>1, KeptStep
  <2>3. FlightMove(f, oracle, flight_pool, oracle', flight_pool')
    BY <1>0, <1>1, <2>2 DEF FlightMove
  <2> QED BY <1>0, <2>3, OneFlightMoves
<1>2. ASSUME NEW t \in Travelers, NEW f \in Flights, NEW route \in Routes,
             buy_insurance(t, f, route)
      PROVE  FlightsMove(oracle, flight_pool, oracle', flight_pool')
  BY <1>2, SaleMove
<1>3. ASSUME NEW t \in Travelers, NEW f \in Flights, Claim(t, f)
      PROVE  FlightsMove(oracle, flight_pool, oracle', flight_pool')
  BY <1>0, <1>1, <1>3, ClaimPool DEF Claim
<1>4. ASSUME NEW f \in Flights, SweepExpired(f)
      PROVE  FlightsMove(oracle, flight_pool, oracle', flight_pool')
  BY <1>0, <1>1, <1>4, SweepPool DEF SweepExpired
<1>5. ASSUME NEW amount \in RecoveredAmounts, WithdrawRecovered(amount)
      PROVE  FlightsMove(oracle, flight_pool, oracle', flight_pool')
  <2>1. amount \in U64 /\ oracle' = oracle
    BY <1>5, SentinelAssumption DEF WithdrawRecovered
  <2>2. /\ flight_pool' \in FlightPoolType /\ flight_pool'.pools = flight_pool.pools
        /\ flight_pool'.buyers = flight_pool.buyers
    BY <1>0, <1>5, <2>1, WithdrawPool DEF WithdrawRecovered
  <2> QED BY <1>0, <2>1, <2>2, NoFlightMoves
<1> QED BY <1>2, <1>3, <1>4, <1>5 DEF PoolNext

\* The keeper's two transactions.
LEMMA KeeperMove ==
    ASSUME FlightsTypeOK, AllInStep(oracle, flight_pool), KeeperNext
    PROVE  FlightsMove(oracle, flight_pool, oracle', flight_pool')
<1>1. PICK batch \in Batches :
        \/ classify_flights(batch)
        \/ \E claimables \in Claimables :
              execute_settlements(batch, claimables, Day(now))
  BY DEF KeeperNext
<1>2. CASE classify_flights(batch)
  <2>1. flight_pool' = flight_pool
    BY <1>2 DEF classify_flights
  <2> QED BY <1>2, <2>1, ClassifyFlightsMove
<1>3. ASSUME NEW claimables, execute_settlements(batch, claimables, Day(now))
      PROVE  FlightsMove(oracle, flight_pool, oracle', flight_pool')
  <2>1. PICK w \in settle_batch(Settling, batch) :
          flight_pool' = w.flight_pool /\ oracle' = w.oracle
    BY <1>3 DEF execute_settlements
  <2>2. /\ IsWork(Settling) /\ now \in Time
        /\ Settling.oracle = oracle /\ Settling.flight_pool = flight_pool
    BY DEF FlightsTypeOK, IsWork, Settling
  <2> QED BY <2>1, <2>2, SettleBatchMove
<1> QED BY <1>1, <1>2, <1>3

\* No other transaction touches the accounts of a flight.
LEMMA EveryStepMoves ==
    ASSUME FlightsInv, [SentinelNext]_vars
    PROVE  /\ FlightsMove(oracle, flight_pool, oracle', flight_pool')
           /\ now' \in Time /\ governance' \in GovernanceType
           /\ DelaysBounded(governance')
<1>0. /\ FlightsTypeOK /\ DelaysBounded(governance) /\ AllInStep(oracle, flight_pool)
      /\ oracle \in [Flights -> FlightData] /\ flight_pool \in FlightPoolType
      /\ now \in Time /\ governance \in GovernanceType
  BY DEF FlightsInv, FlightsTypeOK, AllInStep
<1>1. ASSUME oracle' = oracle, flight_pool' = flight_pool
      PROVE  FlightsMove(oracle, flight_pool, oracle', flight_pool')
  BY <1>0, <1>1, NoFlightMoves
<1>2. CASE LpNext
  <2>1. UNCHANGED <<now, flight_pool, oracle, governance>>
    BY <1>2 DEF LpNext, Deposit, Redeem, RequestWithdrawal, CancelWithdrawal, Collect
  <2> QED BY <1>0, <1>1, <2>1
<1>3. CASE PoolNext
  <2>1. UNCHANGED <<now, governance>>
    BY <1>3 DEF PoolNext, buy_insurance, Claim, SweepExpired, WithdrawRecovered
  <2> QED BY <1>0, <1>3, <2>1, PoolMove
<1>4. CASE OracleNext
  <2>1. UNCHANGED <<now, governance>>
    BY <1>4 DEF OracleNext, SetEstimatedArrival, SetLanded, SetCancelled
  <2> QED BY <1>0, <1>4, <2>1, ReportMove
<1>5. CASE KeeperNext
  <2>1. UNCHANGED <<now, governance>>
    BY <1>5 DEF KeeperNext, classify_flights, execute_settlements
  <2> QED BY <1>0, <1>5, <2>1, KeeperMove
<1>6. CASE GovernanceNext
  <2>1. UNCHANGED <<now, flight_pool, oracle>>
    BY <1>6 DEF GovernanceNext, WhitelistRoute, DisableRoute, UpdateRouteTerms
  <2> QED BY <1>0, <1>1, <1>6, <2>1, GovernanceMove
<1>7. CASE ClockNext
  <2>1. UNCHANGED <<flight_pool, oracle, governance>> /\ now' \in Time
    BY <1>0, <1>7, ChainAssumption DEF ClockNext, Tick, Time
  <2> QED BY <1>0, <1>1, <2>1
<1>8. CASE UNCHANGED vars
  BY <1>0, <1>1, <1>8 DEF vars
<1> QED BY <1>2, <1>3, <1>4, <1>5, <1>6, <1>7, <1>8 DEF SentinelNext
-----------------------------------------------------------------------------
(* The theorems. *)

\* FlightsInv holds at first: no flight has an account.
LEMMA FlightsInit == SentinelInit => FlightsInv
<1> SUFFICES ASSUME SentinelInit PROVE FlightsInv
  OBVIOUS
<1>1. now \in Time
  BY ChainAssumption DEF SentinelInit, Time
<1>2. /\ oracle = [f \in Flights |-> NoFlightData] /\ NoFlightData \in FlightData
      /\ \A f \in Flights : oracle[f].status = NoAccount
  BY DEF SentinelInit, initialize_oracle, NoFlightData, FlightData
<1>3. NoPool \in FlightPoolAccount /\ NoPool.status = NoAccount
  BY ChainAssumption DEF NoPool, FlightPoolAccount, U64, U32
<1>4. /\ flight_pool \in FlightPoolType
      /\ \A f \in Flights : flight_pool.pools[f].status = NoAccount
  <2> HIDE DEF NoPool
  <2> QED BY <1>3, ChainAssumption
          DEF SentinelInit, initialize_flight_pool, FlightPoolType, BuyerRecord, U64
<1>5. /\ governance = initialize_governance(DefaultTerms)
      /\ DefaultTerms \in ResolvedTerms /\ DefaultTerms.delay_hours \in DelayHours
  BY SentinelAssumption, GovernanceAssumption DEF SentinelInit, ResolvedTerms, DelayHours
<1>6. governance \in GovernanceType
  BY <1>5, InitializeType
<1>7. DelaysBounded(governance)
  BY <1>5 DEF DelaysBounded, initialize_governance, NoRoute
<1>8. \A f \in Flights : InStep(oracle[f], flight_pool.pools[f])
  BY <1>2, <1>4 DEF InStep, SettlementStatus, NoAccount
<1> QED BY <1>1, <1>2, <1>4, <1>6, <1>7, <1>8 DEF FlightsInv, FlightsTypeOK

\* FlightsInv is inductive: every transaction takes the flights it names by a
\* FlightStep each.
LEMMA FlightsStep == FlightsInv /\ [SentinelNext]_vars => FlightsInv'
<1> SUFFICES ASSUME FlightsInv, [SentinelNext]_vars PROVE FlightsInv'
  OBVIOUS
<1>1. /\ FlightsMove(oracle, flight_pool, oracle', flight_pool')
      /\ now' \in Time /\ governance' \in GovernanceType
      /\ DelaysBounded(governance')
  BY EveryStepMoves
<1>2. DelaysBounded(governance)'
  BY <1>1 DEF DelaysBounded
<1>3. \A f \in Flights : InStep(oracle'[f], flight_pool'.pools[f])
  BY <1>1 DEF FlightsMove, FlightStep
<1> QED BY <1>1, <1>2, <1>3 DEF FlightsInv, FlightsTypeOK, FlightsMove

\* The FlightData and the FlightPool of every flight exist together, and are
\* settled together; and no pool is ever sold with a delay under an hour.
THEOREM FlightsInvariant == SentinelSpec => []FlightsInv
<1> QED BY FlightsInit, FlightsStep, PTL DEF SentinelSpec

\* "State machine (forward-only, never regresses)": for any number of flights,
\* reports and batches, a status moves by single steps forward, and a reported
\* arrival is never rewritten.
THEOREM OracleMovesForward == SentinelSpec => OracleForwardOnly
<1>1. FlightsInv /\ [SentinelNext]_vars
        => [\A f \in Flights :
             /\ oracle'[f].status # oracle[f].status
                   => Rank(oracle'[f].status) = Rank(oracle[f].status) + 1
             /\ Rank(oracle[f].status) >= 3
                   => /\ oracle'[f].actual_arrival_time = oracle[f].actual_arrival_time
                      /\ oracle'[f].estimated_arrival_time
                             = oracle[f].estimated_arrival_time]_vars
  BY EveryStepMoves DEF FlightsMove, FlightStep, Forward
<1> QED BY <1>1, FlightsInvariant, PTL DEF SentinelSpec, OracleForwardOnly

\* The terms of a pool are those of its first sale, and its buyers stay its
\* buyers, whatever the owner and the other travelers do.
THEOREM TermsStayFrozen == SentinelSpec => PolicyTermsFrozen
<1>1. FlightsInv /\ [SentinelNext]_vars
        => [\A f \in Flights :
             Pool(f).status # NoAccount =>
                /\ Pool(f)'.premium = Pool(f).premium
                /\ Pool(f)'.payoff = Pool(f).payoff
                /\ Pool(f)'.delay_hours = Pool(f).delay_hours
                /\ \A t \in Travelers :
                      flight_pool.buyers[f][t] # NoAccount
                         => flight_pool'.buyers[f][t] # NoAccount]_vars
  <2> SUFFICES ASSUME FlightsInv, [SentinelNext]_vars,
                      NEW f \in Flights, Pool(f).status # NoAccount
               PROVE  /\ SameTerms(flight_pool.pools[f], flight_pool'.pools[f])
                      /\ \A t \in Travelers :
                            flight_pool.buyers[f][t] # NoAccount
                               => flight_pool'.buyers[f][t] # NoAccount
    BY DEF Pool, SameTerms
  <2>1. FlightsMove(oracle, flight_pool, oracle', flight_pool')
    BY EveryStepMoves
  <2> QED BY <2>1 DEF FlightsMove, FlightStep, BuyersKept, Pool
<1> QED BY <1>1, FlightsInvariant, PTL DEF SentinelSpec, PolicyTermsFrozen

\* When no arrival is reported as time 0, which is how FlightData says that
\* none was reported, every pool is settled as its flight flew: the oracle's
\* record, the keeper's classification and the settlement agree, whatever
\* happened between them.
THEOREM FlightsSettledAsRecorded ==
    ASSUME 0 \notin Arrivals
    PROVE  SentinelSpec => []SettledAsRecorded
<1> DEFINE Recorded == \A f \in Flights : AsRecorded(oracle[f], flight_pool.pools[f])
<1>1. SentinelInit => Recorded
  BY DEF SentinelInit, initialize_oracle, initialize_flight_pool, NoFlightData, NoPool,
         AsRecorded, NoAccount
<1>2. FlightsInv /\ Recorded /\ [SentinelNext]_vars => Recorded'
  <2> SUFFICES ASSUME FlightsInv, Recorded, [SentinelNext]_vars, NEW f \in Flights
               PROVE  AsRecorded(oracle'[f], flight_pool'.pools[f])
    OBVIOUS
  <2>1. FlightStep(oracle[f], flight_pool.pools[f], oracle'[f], flight_pool'.pools[f])
    BY EveryStepMoves DEF FlightsMove
  <2> QED BY <2>1 DEF FlightStep
<1>3. Recorded => SettledAsRecorded
  BY DEF SettledAsRecorded, AsRecorded, Late, Pool
<1> QED BY <1>1, <1>2, <1>3, FlightsInvariant, PTL DEF SentinelSpec

ControllerFields ==
    controller = [ active_flights            |-> controller.active_flights,
                   total_policies_sold       |-> controller.total_policies_sold,
                   total_premiums_collected  |-> controller.total_premiums_collected,
                   total_payouts_distributed |-> controller.total_payouts_distributed ]

ListInv ==
    /\ ControllerFields
    /\ Listing(controller.active_flights, oracle)

\* The list is empty at first.
LEMMA ListInit == SentinelInit => ListInv
<1> SUFFICES ASSUME SentinelInit PROVE ListInv
  OBVIOUS
<1>1. controller.active_flights = << >> /\ \A f \in Flights : ~Open(oracle[f])
  BY DEF SentinelInit, initialize_controller, initialize_oracle, NoFlightData, Open
<1>2. << >> \in Seq(Flights) /\ Len(<< >>) = 0
  BY EmptySeq
<1>3. ControllerFields
  BY DEF ControllerFields, SentinelInit, initialize_controller
<1> QED BY <1>1, <1>2, <1>3 DEF ListInv, Listing, Listed, Distinct

\* Counting a sale or a payout leaves the list as it was put.
LEMMA CountedList ==
    ASSUME ControllerFields, NEW list, NEW amount,
           \/ controller' \in CountSale([controller EXCEPT !.active_flights = list], amount)
           \/ controller' \in CountPayouts([controller EXCEPT !.active_flights = list], amount)
    PROVE  controller'.active_flights = list /\ ControllerFields'
<1> DEFINE c == [controller EXCEPT !.active_flights = list]
<1>1. c = [ active_flights            |-> list,
            total_policies_sold       |-> controller.total_policies_sold,
            total_premiums_collected  |-> controller.total_premiums_collected,
            total_payouts_distributed |-> controller.total_payouts_distributed ]
  BY DEF ControllerFields
<1>2. \/ controller' = [c EXCEPT !.total_policies_sold = @ + 1,
                                 !.total_premiums_collected = @ + amount]
      \/ controller' = [c EXCEPT !.total_payouts_distributed = @ + amount]
  BY DEF CountSale, CountPayouts, When
<1> HIDE DEF c
<1> QED BY <1>1, <1>2 DEF ControllerFields

\* ListInv is inductive: a sale appends what opens, a settlement removes what closes.
LEMMA ListStep == FlightsInv /\ ListInv /\ [SentinelNext]_vars => ListInv'
<1> SUFFICES ASSUME FlightsInv, ListInv, [SentinelNext]_vars PROVE ListInv'
  OBVIOUS
<1>0. /\ FlightsTypeOK /\ DelaysBounded(governance) /\ AllInStep(oracle, flight_pool)
      /\ oracle \in [Flights -> FlightData] /\ flight_pool \in FlightPoolType
  BY DEF FlightsInv, FlightsTypeOK, AllInStep
<1>1. ASSUME UNCHANGED <<oracle, controller>> PROVE ListInv'
  BY <1>1 DEF ListInv, ControllerFields
<1>2. ASSUME UNCHANGED <<flight_pool, controller>> PROVE ListInv'
  <2>1. FlightsMove(oracle, flight_pool, oracle', flight_pool')
    BY EveryStepMoves
  <2>2. \A f \in Flights : Open(oracle[f]) <=> Open(oracle'[f])
    <3> TAKE f \in Flights
    <3>1. flight_pool.pools[f] \in FlightPoolAccount /\ InStep(oracle[f], flight_pool.pools[f])
      BY <1>0, PoolFields DEF AllInStep
    <3>2. InStep(oracle'[f], flight_pool.pools[f])
      BY <1>2, <2>1 DEF FlightsMove, FlightStep
    <3> QED BY <3>1, <3>2, OpenIsActive
  <2> QED BY <1>2, <2>2 DEF ListInv, ControllerFields, Listing
<1>3. ASSUME NEW t \in Travelers, NEW f \in Flights, NEW route \in Routes,
             buy_insurance(t, f, route)
      PROVE  ListInv'
  <2> DEFINE list == IF flight_pool.pools[f].status = NoAccount
                     THEN Append(controller.active_flights, f)
                     ELSE controller.active_flights
  <2>0. PICK terms \in get_route_terms(governance, route) :
          /\ oracle' \in IF flight_pool.pools[f].status = NoAccount
                         THEN init_flight_data(oracle, f) ELSE {oracle}
          /\ controller' \in CountSale([controller EXCEPT !.active_flights = list],
                                       terms.premium)
    BY <1>3 DEF buy_insurance
  <2>1. /\ oracle' \in IF flight_pool.pools[f].status = NoAccount
                       THEN init_flight_data(oracle, f) ELSE {oracle}
        /\ controller'.active_flights = list /\ ControllerFields'
    <3> HIDE DEF list
    <3> QED BY <2>0, CountedList DEF ListInv
  <2>2. CASE flight_pool.pools[f].status = NoAccount
    <3>1. /\ oracle[f].status = NoAccount
          /\ oracle' = [oracle EXCEPT ![f] = [NoFlightData EXCEPT !.status = "NotInitiated"]]
      BY <2>1, <2>2 DEF init_flight_data, When
    <3>2. /\ \A g \in Flights \ {f} : oracle'[g] = oracle[g]
          /\ oracle'[f].status = "NotInitiated"
      BY <1>0, <3>1 DEF NoFlightData
    <3>3. ~Open(oracle[f]) /\ Open(oracle'[f])
      BY <3>1, <3>2 DEF Open, NoAccount
    <3>4. /\ controller'.active_flights = Append(controller.active_flights, f)
          /\ ControllerFields'
      BY <2>1, <2>2
    <3> QED BY <3>2, <3>3, <3>4, OpenedListing DEF ListInv
  <2>3. CASE flight_pool.pools[f].status # NoAccount
    BY <2>1, <2>3 DEF ListInv
  <2> QED BY <2>2, <2>3
<1>4. ASSUME NEW batch \in Batches, NEW claimables,
             execute_settlements(batch, claimables, Day(now))
      PROVE  ListInv'
  <2>1. PICK w \in settle_batch(Settling, batch) :
          /\ oracle' = w.oracle
          /\ controller' \in
                CountPayouts([controller EXCEPT
                                 !.active_flights = RemoveFlights(controller.active_flights, batch)],
                             w.paid)
    BY <1>4 DEF execute_settlements
  <2>2. /\ IsWork(Settling) /\ now \in Time
        /\ Settling.oracle = oracle /\ Settling.flight_pool = flight_pool
    BY <1>0 DEF FlightsTypeOK, IsWork, Settling
  <2>3. Listing(RemoveFlights(controller.active_flights, batch), w.oracle)
    BY <1>0, <2>2, SettleBatchMove DEF ListInv
  <2>4. /\ controller'.active_flights = RemoveFlights(controller.active_flights, batch)
        /\ ControllerFields'
    BY <2>1, CountedList DEF ListInv
  <2> QED BY <2>1, <2>3, <2>4 DEF ListInv
<1>5. CASE LpNext
  BY <1>1, <1>5
     DEF LpNext, Deposit, Redeem, RequestWithdrawal, CancelWithdrawal, Collect
<1>6. CASE PoolNext
  BY <1>1, <1>3, <1>6 DEF PoolNext, Claim, SweepExpired, WithdrawRecovered
<1>7. CASE OracleNext
  BY <1>2, <1>7 DEF OracleNext, SetEstimatedArrival, SetLanded, SetCancelled
<1>8. CASE KeeperNext
  BY <1>2, <1>4, <1>8 DEF KeeperNext, classify_flights
<1>9. CASE GovernanceNext
  BY <1>1, <1>9 DEF GovernanceNext, WhitelistRoute, DisableRoute, UpdateRouteTerms
<1>10. CASE ClockNext
  BY <1>1, <1>10 DEF ClockNext
<1>11. CASE UNCHANGED vars
  BY <1>1, <1>11 DEF vars
<1> QED BY <1>5, <1>6, <1>7, <1>8, <1>9, <1>10, <1>11 DEF SentinelNext

\* Whatever the order of sales, reports, batches and claims, the FlightData, the
\* FlightPool and the entry of a flight in the controller's list come and go
\* together: no flight is forgotten before it is settled, or settled twice.
THEOREM ProgramsStayInStep == SentinelSpec => []ProgramsInStep
<1>1. FlightsInv /\ ListInv => ProgramsInStep
  <2> SUFFICES ASSUME FlightsInv, ListInv, NEW f \in Flights
               PROVE  /\ InStep(oracle[f], flight_pool.pools[f])
                      /\ Cardinality({i \in 1 .. Len(controller.active_flights) :
                                        controller.active_flights[i] = f})
                            = IF flight_pool.pools[f].status = "Active" THEN 1 ELSE 0
    BY DEF ProgramsInStep, Pool, InStep
  <2> DEFINE list == controller.active_flights
             entries == {i \in 1 .. Len(list) : list[i] = f}
  <2>1. InStep(oracle[f], flight_pool.pools[f])
    BY DEF FlightsInv
  <2>2. Open(oracle[f]) <=> flight_pool.pools[f].status = "Active"
    <3>1. flight_pool.pools[f] \in FlightPoolAccount
      BY PoolFields DEF FlightsInv, FlightsTypeOK
    <3> QED BY <2>1, <3>1, OpenIsActive
  <2>3. CASE flight_pool.pools[f].status = "Active"
    <3>1. PICK i \in 1 .. Len(list) : list[i] = f
      BY <2>2, <2>3 DEF ListInv, Listing, Listed
    <3>2. entries = {i}
      BY <3>1 DEF ListInv, Listing, Distinct
    <3> QED BY <2>1, <2>3, <3>2, FS_Singleton
  <2>4. CASE flight_pool.pools[f].status # "Active"
    <3>1. entries = {}
      BY <2>2, <2>4 DEF ListInv, Listing, Listed
    <3> QED BY <2>1, <2>4, <3>1, FS_EmptySet
  <2> QED BY <2>3, <2>4
<1> QED BY <1>1, ListInit, ListStep, FlightsInvariant, PTL DEF SentinelSpec
=============================================================================
