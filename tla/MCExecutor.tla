---------------------------- MODULE MCExecutor ----------------------------
(***************************************************************************)
(* Two flights of one route, which fill one transaction, and one tick of   *)
(* each job.                                                               *)
(***************************************************************************)
EXTENDS Executor

CONSTANTS a, f1, f2, t1, r, k1, k2, k3

MCDateOf == [f \in Flights |-> IF f = f1 THEN 1 ELSE 2]

MCRoutesOf == [f \in Flights |-> {r}]

MCTerms == [premium |-> 1, payoff |-> 2, delay_hours |-> 1]

MCJobOf == [k \in Ticks |-> CASE k = k1 -> "fetcher"
                              [] k = k2 -> "classifier"
                              [] OTHER -> "settler"]

Scheduled == [scheduled_in |-> 2, actual_in |-> None, cancelled |-> FALSE]

\* One flight is seen before it lands, late; the other only once cancelled.
MCAnswers ==
    [f \in Flights |-> IF f = f1 THEN {Scheduled, [Scheduled EXCEPT !.actual_in = 4]}
                                 ELSE {[Scheduled EXCEPT !.cancelled = TRUE]}]
=============================================================================
