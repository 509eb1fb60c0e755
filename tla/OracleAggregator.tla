-------------------------- MODULE OracleAggregator --------------------------
(***************************************************************************)
(* oracle_aggregator_program: the life of every insured flight.  The       *)
(* authorized oracle (the FlightDataFetcher cron) reports the estimate and *)
(* what became of the flight; the authorized consumer (the controller)     *)
(* classifies it and closes it.  Each handler checks the status it starts  *)
(* from.                                                                   *)
(***************************************************************************)
EXTENDS FlightKeys

VARIABLE oracle         \* FlightData of every flight

ToBeSettled == {"ToBeSettledOnTime", "ToBeSettledDelayed", "ToBeSettledCancelled"}

FlightStatus ==
    {"NotInitiated", "Active", "Landed", "Cancelled", "Settled"} \cup ToBeSettled

\* No transaction has created the flight's FlightData PDA.
NoFlightData ==
    [status |-> NoAccount, estimated_arrival_time |-> 0, actual_arrival_time |-> 0]

FlightData ==
    [ status                 : FlightStatus \cup {NoAccount},
      estimated_arrival_time : Int,
      actual_arrival_time    : Int ]

initialize_oracle == [f \in Flights |-> NoFlightData]

-----------------------------------------------------------------------------
\* Mutated form, for the checks of the properties: the estimate may be
\* refreshed until the flight is settled.
set_estimated_arrival_again(o, f, eta) ==
    When(o[f].status \notin {NoAccount, "Settled"},
         [o EXCEPT ![f].status = "Active",
                   ![f].estimated_arrival_time = eta])

-----------------------------------------------------------------------------
\* Consumer-only operations.

init_flight_data(o, f) ==
    When(o[f].status = NoAccount,
         [o EXCEPT ![f] = [NoFlightData EXCEPT !.status = "NotInitiated"]])

\* Strict pairing: a landed flight is not classified as cancelled, nor a
\* cancelled one as flown.
set_to_be_settled(o, f, new_status) ==
    When(\/ /\ o[f].status = "Landed"
            /\ new_status \in {"ToBeSettledOnTime", "ToBeSettledDelayed"}
         \/ /\ o[f].status = "Cancelled"
            /\ new_status = "ToBeSettledCancelled",
         [o EXCEPT ![f].status = new_status])

set_settled(o, f) ==
    When(o[f].status \in ToBeSettled,
         [o EXCEPT ![f].status = "Settled"])

-----------------------------------------------------------------------------
\* Oracle-only operations.

set_estimated_arrival(o, f, eta) ==
    When(o[f].status = "NotInitiated",
         [o EXCEPT ![f].status = "Active",
                   ![f].estimated_arrival_time = eta])

set_landed(o, f, actual_arrival) ==
    When(o[f].status = "Active",
         [o EXCEPT ![f].status = "Landed",
                   ![f].actual_arrival_time = actual_arrival])

set_cancelled(o, f) ==
    When(o[f].status = "Active",
         [o EXCEPT ![f].status = "Cancelled"])
=============================================================================
