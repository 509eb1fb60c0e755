-------------------------- MODULE MCTravelerPages --------------------------
EXTENDS TravelerPages

CONSTANTS a, f1, f2, t1, t2, r

\* The flight departs on day 1.
MCDateOf == [f \in Flights |-> 1]

MCRoutesOf == [f \in Flights |-> {r}]

MCTerms == [premium |-> 1, payoff |-> 2, delay_hours |-> 1]

\* The owner raises the payoff.
MCUpdates == {[premium |-> Keep, payoff |-> 3, delay_hours |-> Keep]}
=============================================================================
