---------------------------- MODULE PolicyLedger ----------------------------
(***************************************************************************)
(* What the insurance promises a traveler, without the programs, accounts  *)
(* and counters that keep it: a policy is sold once, for the flight's one  *)
(* set of terms, while the flight is open; all policies of a flight are    *)
(* resolved together, as expired or payable; a payable policy is either    *)
(* paid to its holder or recovered by the owner, once; and one pot holds   *)
(* the money for all of it.                                                *)
(***************************************************************************)
EXTENDS FiniteSets, Functions

CONSTANTS Flights, Holders, Amounts

VARIABLES
    policy,             \* the state of each holder's policy of each flight
    terms,              \* premium and payoff of each flight, once sold
    pot,                \* the money held
    recovered           \* the part of it that is the owner's

vars == <<policy, terms, pot, recovered>>

States == {"none", "live", "expired", "payable", "paid", "recovered"}

Terms == [premium : Amounts, payoff : Amounts]

With(f, s) == {h \in Holders : policy[f][h] = s}

\* Nothing of the flight has been resolved.
Open(f) == \A h \in Holders : policy[f][h] \in {"none", "live"}

Init ==
    /\ policy = [f \in Flights |-> [h \in Holders |-> "none"]]
    /\ terms \in [Flights -> Terms]
    /\ pot = 0
    /\ recovered = 0

\* The first sale fixes the terms of the flight.
Sell(f, h) ==
    /\ Open(f) /\ policy[f][h] = "none"
    /\ policy' = [policy EXCEPT ![f][h] = "live"]
    /\ IF With(f, "live") = {}
       THEN terms'[f] \in Terms /\ terms' = [terms EXCEPT ![f] = terms'[f]]
       ELSE UNCHANGED terms
    /\ pot' = pot + terms'[f].premium
    /\ UNCHANGED recovered

\* The live policies of some flights become what the flights' outcomes say:
\* premiums leave the pot, or payoffs are made up.
MoneyMoved(f, s) ==
    Cardinality(With(f, "live")) *
        IF s = "payable" THEN terms[f].payoff - terms[f].premium
                         ELSE -terms[f].premium

Resolve(outcome) ==
    /\ \A f \in DOMAIN outcome : Open(f) /\ With(f, "live") # {}
    /\ policy' = [f \in Flights |-> [h \in Holders |->
                     IF f \in DOMAIN outcome /\ policy[f][h] = "live"
                     THEN outcome[f] ELSE policy[f][h]]]
    /\ pot' = pot + SumFunction([f \in DOMAIN outcome |->
                                    MoneyMoved(f, outcome[f])])
    /\ UNCHANGED <<terms, recovered>>

Pay(f, h) ==
    /\ policy[f][h] = "payable"
    /\ policy' = [policy EXCEPT ![f][h] = "paid"]
    /\ pot' = pot - terms[f].payoff
    /\ UNCHANGED <<terms, recovered>>

\* All that is still payable of a flight becomes the owner's at once.
Recover(f) ==
    /\ policy' = [policy EXCEPT ![f] =
                     [h \in Holders |-> IF policy[f][h] = "payable" THEN "recovered"
                                                                    ELSE policy[f][h]]]
    /\ recovered' = recovered + Cardinality(With(f, "payable")) * terms[f].payoff
    /\ UNCHANGED <<terms, pot>>

Withdraw(amount) ==
    /\ amount \in 1 .. recovered
    /\ recovered' = recovered - amount
    /\ pot' = pot - amount
    /\ UNCHANGED <<policy, terms>>

Next ==
    \/ \E f \in Flights, h \in Holders : Sell(f, h) \/ Pay(f, h)
    \/ \E F \in SUBSET Flights : \E outcome \in [F -> {"expired", "payable"}] :
          F # {} /\ Resolve(outcome)
    \/ \E f \in Flights : Recover(f)
    \/ \E amount \in Amounts : Withdraw(amount)

Spec == Init /\ [][Next]_vars
=============================================================================
