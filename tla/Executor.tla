------------------------------ MODULE Executor ------------------------------
(***************************************************************************)
(* The fetcher, classifier and settler jobs of the executor, as processes  *)
(* over the five programs.  A tick reads the accounts it needs, then sends *)
(* one transaction after the other, each decided on what it read; ticks    *)
(* overlap, are cut short, and give up on transactions that land later.    *)
(*                                                                         *)
(* The reads with which a tick begins are one step.  The list only loses   *)
(* settled flights, statuses only move forward, and everything read is     *)
(* stale anyway when a transaction lands: reading at one moment, then      *)
(* waiting, loses none of the outcomes.                                    *)
(***************************************************************************)
EXTENDS Sentinel

CONSTANTS
    Ticks,          \* ticks that may run at the same time
    JobOf,          \* the job each of them runs
    Answers,        \* bound: what AeroAPI may come to say of each flight
    INVALID_DATE,   \* dates from here on are not dates of AeroAPI
    MaxFaults       \* bound: failures that are nobody's decision

Jobs == {"fetcher", "classifier", "settler"}

\* The fields of an AeroFlight that decide anything.
AeroFlight ==
    [scheduled_in : Int, actual_in : Int, cancelled : BOOLEAN]

ASSUME ExecutorAssumption ==
    /\ JobOf \in [Ticks -> Jobs]
    /\ Answers \in [Flights -> SUBSET AeroFlight]
    /\ INVALID_DATE \in Nat
    /\ MaxFaults \in Nat

VARIABLES
    aeroapi,        \* what AeroAPI answers of each flight
    ticks,          \* the ticks under way
    late,           \* transactions given up after 30 s that may still land
    faults          \* failures so far

executorVars == <<aeroapi, ticks, late, faults>>

allVars == <<vars, executorVars>>

-----------------------------------------------------------------------------
(* AeroAPI, an external service. *)

NotFound == [scheduled_in |-> None, actual_in |-> None, cancelled |-> FALSE]

IsOver(flight) == flight.cancelled \/ flight.actual_in # None

\* A schedule stays, and so does what is over.
AeroLearns(f) ==
    /\ ~IsOver(aeroapi[f])
    /\ \E answer \in Answers[f] \ {aeroapi[f]} :
          /\ aeroapi[f].scheduled_in \in {None, answer.scheduled_in}
          /\ aeroapi' = [aeroapi EXCEPT ![f] = answer]
    /\ UNCHANGED <<vars, ticks, late, faults>>

-----------------------------------------------------------------------------
(* Transactions. *)

Report(f, eta, outcome, arrival) ==
    [kind |-> "report", flight |-> f, eta |-> eta, outcome |-> outcome,
     arrival |-> arrival]

Classify(batch) == [kind |-> "classify", batch |-> batch]

Settle(batch, claimables, day) ==
    [kind |-> "settle", batch |-> batch, claimables |-> claimables, day |-> day]

NoTx == [kind |-> "none"]

\* One or two oracle instructions, both or neither.
ReportLands(tx) ==
    /\ LET seeded == IF tx.eta = None THEN {oracle}
                     ELSE set_estimated_arrival(oracle, tx.flight, tx.eta)
       IN oracle' \in UNION { CASE tx.outcome = "landed" ->
                                       set_landed(o, tx.flight, tx.arrival)
                                [] tx.outcome = "cancelled" ->
                                       set_cancelled(o, tx.flight)
                                [] OTHER -> {o} : o \in seeded }
    /\ UNCHANGED <<now, vault, flight_pool, governance, controller>>

Lands(tx) ==
    \/ tx.kind = "report" /\ ReportLands(tx)
    \/ tx.kind = "classify" /\ classify_flights(tx.batch)
    \/ tx.kind = "settle" /\ execute_settlements(tx.batch, tx.claimables, tx.day)

-----------------------------------------------------------------------------
(* What a tick does next. *)

\* todo: the flights a fetcher has yet to look at, or the batches a classifier
\* or a settler has yet to get through; the first batch is the one in tx.
Idle == [todo |-> << >>, tx |-> NoTx, claimables |-> << >>, day |-> 0]

IsIdle(k) == ticks[k] = Idle

Sending(tick) == tick.tx # NoTx

Chunked(flights) ==
    LET n == MAX_FLIGHTS_PER_TX
        last(i) == IF n * i > Len(flights) THEN Len(flights) ELSE n * i
    IN [i \in 1 .. (Len(flights) + n - 1) \div n |->
           SubSeq(flights, n * (i - 1) + 1, last(i))]

\* The flights of list whose status is one of statuses, in its order.
WithStatus(list, statuses) ==
    LET kept[n \in 0 .. Len(list)] ==
            IF n = 0 THEN << >>
            ELSE IF oracle[list[n]].status \in statuses THEN Append(kept[n - 1], list[n])
            ELSE kept[n - 1]
    IN kept[Len(list)]

\* Listed flights whose status is one of statuses, in batches.
BatchesOf(statuses) == Chunked(WithStatus(controller.active_flights, statuses))

\* Mutated forms, for the checks of the properties.

\* Every listed flight, whatever its status.
unfiltered_batches == Chunked(controller.active_flights)

\* The arrival that was planned, for a flight whose landing is news.
report_schedule_as_arrival(flight, status, f) ==
    IF status \in {"NotInitiated", "Active"} /\ flight.scheduled_in # None
    THEN Report(f, IF status = "NotInitiated" THEN flight.scheduled_in ELSE None,
                IF flight.cancelled THEN "cancelled"
                ELSE IF flight.actual_in # None THEN "landed" ELSE "none",
                flight.scheduled_in)
    ELSE NoTx

\* Only an active flight is reported: what was over before the first tick that
\* looked at it is skipped, as the contract wants Active first.
decide_active_only(flight, status, f) ==
    CASE status = "NotInitiated" /\ flight.scheduled_in # None /\ ~IsOver(flight) ->
            Report(f, flight.scheduled_in, "none", None)
      [] status = "Active" /\ flight.cancelled -> Report(f, None, "cancelled", None)
      [] status = "Active" /\ ~flight.cancelled /\ flight.actual_in # None ->
            Report(f, None, "landed", flight.actual_in)
      [] OTHER -> NoTx

\* NoTx: skip.  A flight that is over by the first tick that looks at it gets
\* its estimate and its outcome in one transaction.
decideFetcherActions(flight, status, f) ==
    LET first == status = "NotInitiated"
        outcome == CASE flight.cancelled -> "cancelled"
                     [] ~flight.cancelled /\ flight.actual_in # None -> "landed"
                     [] OTHER -> "none"
    IN IF \/ status \notin {"NotInitiated", "Active"}
          \/ first /\ flight.scheduled_in = None
          \/ ~first /\ outcome = "none"
       THEN NoTx
       ELSE Report(f, IF first THEN flight.scheduled_in ELSE None, outcome,
                   IF outcome = "landed" THEN flight.actual_in ELSE None)

decideClassifierBatches == BatchesOf({"Landed", "Cancelled"})

decideSettlementBatches == BatchesOf(ToBeSettled)

readWithdrawalQueueClaimables ==
    [i \in 1 .. Len(vault.requests) |-> vault.requests[i].owner]

-----------------------------------------------------------------------------
(* The steps of a tick. *)

\* The tick that still has todo to do; a batch is sent at once, a flight of the
\* fetcher is looked up first.
Resume(tick, todo, job) ==
    IF todo = << >> THEN Idle
    ELSE [tick EXCEPT
             !.todo = todo,
             !.tx = CASE job = "fetcher" -> NoTx
                      [] job = "classifier" -> Classify(todo[1])
                      [] job = "settler" -> Settle(todo[1], tick.claimables, tick.day)]

GoOn(k) == ticks' = [ticks EXCEPT ![k] = Resume(@, Tail(@.todo), JobOf[k])]

\* The schedule, or a manual trigger, starts a tick whatever else is running.
StartTick(k) ==
    /\ IsIdle(k)
    /\ LET job == JobOf[k]
           read == CASE job = "fetcher" ->
                            [Idle EXCEPT !.todo = [i \in DOMAIN controller.active_flights
                                                    |-> <<controller.active_flights[i]>>]]
                     [] job = "classifier" ->
                            [Idle EXCEPT !.todo = decideClassifierBatches]
                     [] job = "settler" ->
                            [Idle EXCEPT !.todo = decideSettlementBatches,
                                         !.claimables = readWithdrawalQueueClaimables,
                                         !.day = Day(now)]
       IN ticks' = [ticks EXCEPT ![k] = Resume(read, read.todo, job)]
    /\ UNCHANGED <<vars, aeroapi, late, faults>>

\* AeroAPI answers; null, an empty list and a skip go on to the next flight.
\* The lookup of a flight whose date is none throws outside any try, which ends
\* the tick.
LookUp(k) ==
    /\ ~IsIdle(k) /\ ~Sending(ticks[k])
    /\ LET f == ticks[k].todo[1][1]
           tx == decideFetcherActions(aeroapi[f], oracle[f].status, f)
       IN CASE DateOf[f] >= INVALID_DATE ->
                  ticks' = [ticks EXCEPT ![k] = Idle]
            [] DateOf[f] < INVALID_DATE /\ (aeroapi[f] = NotFound \/ tx = NoTx) ->
                  GoOn(k)
            [] OTHER -> ticks' = [ticks EXCEPT ![k].tx = tx]
    /\ UNCHANGED <<vars, aeroapi, late, faults>>

Confirmed(k) ==
    /\ Sending(ticks[k])
    /\ GoOn(k)
    /\ Lands(ticks[k].tx)
    /\ UNCHANGED <<aeroapi, late, faults>>

\* The transaction reverts; the failure is logged.
Refused(k) ==
    /\ Sending(ticks[k])
    /\ GoOn(k)
    /\ ~ENABLED Lands(ticks[k].tx)
    /\ UNCHANGED <<vars, aeroapi, late, faults>>

-----------------------------------------------------------------------------
(* Failures. *)

Fault == faults < MaxFaults /\ faults' = faults + 1

\* AeroAPI is not reached, or the transaction is lost: on to the next.
Missed(k) ==
    /\ ~IsIdle(k)
    /\ Fault
    /\ GoOn(k)
    /\ UNCHANGED <<vars, aeroapi, late>>

\* Not confirmed within 30 s: a failure to the tick, still valid on the chain.
TimesOut(k) ==
    /\ Sending(ticks[k])
    /\ Fault
    /\ GoOn(k)
    /\ late' = late \cup {ticks[k].tx}
    /\ UNCHANGED <<vars, aeroapi>>

\* A read throws, or the process is stopped and started again; a transaction
\* that was sent may land nevertheless.
CutShort(k) ==
    /\ ~IsIdle(k)
    /\ Fault
    /\ ticks' = [ticks EXCEPT ![k] = Idle]
    /\ late' \in {late} \cup IF Sending(ticks[k]) THEN {late \cup {ticks[k].tx}} ELSE {}
    /\ UNCHANGED <<vars, aeroapi>>

LandsLate(tx) ==
    /\ Lands(tx)
    /\ late' = late \ {tx}
    /\ UNCHANGED <<aeroapi, ticks, faults>>

\* Refused, or its blockhash is too old.
Expires(tx) ==
    /\ late' = late \ {tx}
    /\ UNCHANGED <<vars, aeroapi, ticks, faults>>

-----------------------------------------------------------------------------
TickNext(k) ==
    \/ StartTick(k)
    \/ LookUp(k)
    \/ Confirmed(k)
    \/ Refused(k)

FaultNext ==
    \/ \E k \in Ticks : Missed(k) \/ TimesOut(k) \/ CutShort(k)
    \/ \E tx \in late : LandsLate(tx) \/ Expires(tx)

\* What the jobs look at: not the routes, nor what becomes of a settled pool.
EnvironmentNext ==
    /\ \/ LpNext
       \/ \E t \in Travelers, f \in Flights, route \in Routes :
             buy_insurance(t, f, route)
       \/ \E route \in Routes : WhitelistRoute(Owner, route)
       \/ ClockNext
    /\ UNCHANGED executorVars

ExecutorInit ==
    /\ SentinelInit
    /\ aeroapi = [f \in Flights |-> NotFound]
    /\ ticks = [k \in Ticks |-> Idle]
    /\ late = {}
    /\ faults = 0

ExecutorNext ==
    \/ EnvironmentNext
    \/ \E f \in Flights : AeroLearns(f)
    \/ \E k \in Ticks : TickNext(k)
    \/ FaultNext

ExecutorSpec == ExecutorInit /\ [][ExecutorNext]_allVars

\* The schedules run forever, and a tick goes on unless a failure stops it.
\* Nothing is assumed of AeroAPI, the LPs or the travelers; failures occur at
\* most MaxFaults times.
ExecutorFairness == \A k \in Ticks : WF_ticks(TickNext(k))

ExecutorFairSpec == ExecutorSpec /\ ExecutorFairness

-----------------------------------------------------------------------------
(* What the jobs promise. *)

\* Transactions sent or given up, and not yet on the chain.
Underway == {ticks[k].tx : k \in {k \in Ticks : Sending(ticks[k])}} \cup late

\* What the chain holds of a flight is what the service says of it, although
\* estimate and outcome may be reported by two ticks that overlap, or by a
\* transaction that was given up long before.
ChainMatchesService ==
    \A f \in Flights :
        /\ Rank(oracle[f].status) >= 2
              => oracle[f].estimated_arrival_time = aeroapi[f].scheduled_in
        /\ Rank(oracle[f].status) >= 3
              => IF aeroapi[f].cancelled
                 THEN oracle[f].actual_arrival_time = 0
                 ELSE oracle[f].actual_arrival_time = aeroapi[f].actual_in

\* What a tick read is behind the chain, never ahead of it: the flights of its
\* batches have the status it wants, or are further.  A transaction that is
\* under way therefore never fails for a flight that is not ready, only because
\* another tick did the work first or the vault refuses.
BatchesNeverAhead ==
    /\ \A k \in Ticks : \A i \in DOMAIN ticks[k].todo : \A j \in DOMAIN ticks[k].todo[i] :
          LET f == ticks[k].todo[i][j]
          IN Rank(oracle[f].status) >= CASE JobOf[k] = "fetcher" -> 1
                                         [] JobOf[k] = "classifier" -> 3
                                         [] JobOf[k] = "settler" -> 4
    /\ \A tx \in late : tx.kind = "settle" =>
          \A j \in DOMAIN tx.batch : Rank(oracle[tx.batch[j]].status) >= 4

Sunk == vault.locked_capital > vault.total_managed_assets

\* Whatever ticks overlap, give up or are cut short: a policy whose flight the
\* service says is over, with a scheduled arrival, is eventually resolved, even
\* if nothing is ever heard of the other flights; unless withdrawal requests
\* have sunk the managed assets below the locked capital.
PoliciesEventuallyResolved ==
    \A f \in Flights, t \in Travelers :
        PolicyOf(f, t) = "live" /\ DateOf[f] < INVALID_DATE
            /\ IsOver(aeroapi[f]) /\ aeroapi[f].scheduled_in # None
          ~> PolicyOf(f, t) # "live" \/ Sunk

-----------------------------------------------------------------------------
(* What documents of the repository say and the jobs do not do. *)

\* The settler runs every five minutes "so payouts and underwriter exits are
\* prompt": a request the free capital covers does not wait forever.
HeadFillable ==
    /\ vault.requests # << >>
    /\ vault.requests[1].pending_assets + vault.locked_capital
          <= vault.total_managed_assets

ExitsArePrompt == HeadFillable ~> ~HeadFillable
=============================================================================
