---------------------------- MODULE MCRepricer ----------------------------
(***************************************************************************)
(* Two ticks of the repricer and one route.                                *)
(***************************************************************************)
EXTENDS Repricer, TLC

CONSTANTS k1, k2, r1

MCJobOf == [k \in Ticks |-> "repricer"]

Overrides(premium, payoff) ==
    [premium |-> premium, payoff |-> payoff, delay_hours |-> None]

TickSymmetry == Permutations(Ticks)

MCHumanTerms == {Overrides(None, 4)}

MCHumanUpdates == {[premium |-> RevertToDefault, payoff |-> Keep, delay_hours |-> Keep]}

MCHumanDefaults == {[premium |-> 1, payoff |-> 4, delay_hours |-> 1]}
=============================================================================
