----------------------------- MODULE MCSentinel -----------------------------
(***************************************************************************)
(* Two flights of one flight_id and route, departing on days 1 and 2.      *)
(***************************************************************************)
EXTENDS Sentinel

CONSTANTS a, f1, f2, t1, t2, r

MCDateOf == [f \in Flights |-> IF f = f1 THEN 1 ELSE 2]

\* Day 2 of two seconds each, as the frontend passes it.
MCDateInSeconds == [f \in Flights |-> 4]

MCRoutesOf == [f \in Flights |-> {r}]

MCTerms == [premium |-> 1, payoff |-> 2, delay_hours |-> 1]

NoUpdates == {}

\* The owner raises the payoff.
MCUpdates == {[premium |-> Keep, payoff |-> 3, delay_hours |-> Keep]}

TravelerSymmetry == Permutations(Travelers)
=============================================================================
