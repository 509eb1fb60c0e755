----------------------------- MODULE FlightKeys -----------------------------
(***************************************************************************)
(* An insured flight is a (flight_id, date) pair: the seeds of its         *)
(* FlightData account in oracle_aggregator, of its FlightPool account in   *)
(* flight_pool, and its entry in the controller's ActiveFlightList.        *)
(***************************************************************************)
EXTENDS Chain, FiniteSets

CONSTANT Flights        \* the flights of some period: finitely many

ASSUME FlightsAssumption == IsFiniteSet(Flights)

\* The status of an account (PDA) that no transaction has created.
NoAccount == "NoAccount"
=============================================================================
