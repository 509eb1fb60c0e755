----------------------------- MODULE FlightPool -----------------------------
(***************************************************************************)
(* flight_pool_program: one pool of policies per insured flight, one       *)
(* record per buyer, and one treasury token account shared by every pool.  *)
(* A premium enters the treasury with its buyer; a flight on time sends    *)
(* its premiums to the vault; a delayed or cancelled flight opens a claim  *)
(* window, after which anyone may sweep what was not claimed into the      *)
(* balance the owner can withdraw.                                         *)
(*                                                                         *)
(* The travelers' own token accounts are outside the model.                *)
(***************************************************************************)
EXTENDS FlightKeys

CONSTANT Travelers

ASSUME TravelersAssumption == IsFiniteSet(Travelers)

VARIABLE flight_pool

SettlementStatus == {"Active", "SettledOnTime", "SettledDelayed", "SettledCancelled"}

Payable == {"SettledDelayed", "SettledCancelled"}

FlightPoolAccount ==
    [ status        : SettlementStatus \cup {NoAccount},
      premium       : U64,
      payoff        : U64,
      delay_hours   : Nat,
      buyer_count   : U32,
      claimed_count : U32,
      claim_expiry  : Nat ]

NoPool ==
    [ status |-> NoAccount, premium |-> 0, payoff |-> 0, delay_hours |-> 0,
      buyer_count |-> 0, claimed_count |-> 0, claim_expiry |-> 0 ]

\* A BuyerRecord is created with has_policy and never loses it.
BuyerRecord == {NoAccount, "HasPolicy", "Claimed"}

\* FlightPoolConfig.recovered_balance, the pools, the buyer records and the
\* balance of the shared treasury token account.
FlightPoolType ==
    [ pools             : [Flights -> FlightPoolAccount],
      buyers            : [Flights -> [Travelers -> BuyerRecord]],
      recovered_balance : U64,
      pool_treasury     : U64 ]

initialize_flight_pool ==
    [ pools             |-> [f \in Flights |-> NoPool],
      buyers            |-> [f \in Flights |-> [t \in Travelers |-> NoAccount]],
      recovered_balance |-> 0,
      pool_treasury     |-> 0 ]

-----------------------------------------------------------------------------
\* Mutated forms, for the checks of the properties.

\* No claim window.
claim_any_time(p, f, t) ==
    When(/\ p.pools[f].status \in Payable
         /\ p.buyers[f][t] = "HasPolicy"
         /\ p.pools[f].claimed_count + 1 \in U32
         /\ p.pools[f].payoff <= p.pool_treasury,
         [p EXCEPT !.buyers[f][t] = "Claimed",
                   !.pools[f].claimed_count = @ + 1,
                   !.pool_treasury = @ - p.pools[f].payoff])

\* The window is closed at its last instant.
claim_before_expiry(p, f, t) ==
    When(/\ p.pools[f].status \in Payable
         /\ now < p.pools[f].claim_expiry
         /\ p.buyers[f][t] = "HasPolicy"
         /\ p.pools[f].claimed_count + 1 \in U32
         /\ p.pools[f].payoff <= p.pool_treasury,
         [p EXCEPT !.buyers[f][t] = "Claimed",
                   !.pools[f].claimed_count = @ + 1,
                   !.pool_treasury = @ - p.pools[f].payoff])

\* The pool does not remember that it was swept.
sweep_again(p, f) ==
    When(p.pools[f].status \in Payable /\ now > p.pools[f].claim_expiry,
         [p EXCEPT !.recovered_balance =
              @ + (p.pools[f].buyer_count - p.pools[f].claimed_count)
                    * p.pools[f].payoff])

\* No InsufficientRecovered check.
withdraw_from_treasury(p, amount) ==
    When(amount > 0 /\ amount <= p.pool_treasury,
         [p EXCEPT !.pool_treasury = @ - amount,
                   !.recovered_balance = @ - amount])

-----------------------------------------------------------------------------
\* Controller-only operations.

register_pool(p, f, terms) ==
    When(p.pools[f].status = NoAccount,
         [p EXCEPT !.pools[f] = [NoPool EXCEPT !.status = "Active",
                                               !.premium = terms.premium,
                                               !.payoff = terms.payoff,
                                               !.delay_hours = terms.delay_hours]])

add_buyer(p, f, t) ==
    When(/\ p.pools[f].status = "Active"
         /\ p.buyers[f][t] = NoAccount
         /\ p.pool_treasury + p.pools[f].premium \in U64
         /\ p.pools[f].buyer_count + 1 \in U32,
         [p EXCEPT !.buyers[f][t] = "HasPolicy",
                   !.pool_treasury = @ + p.pools[f].premium,
                   !.pools[f].buyer_count = @ + 1])

TotalPremium(p, f) == p.pools[f].premium * p.pools[f].buyer_count

TotalPayoff(p, f) == p.pools[f].payoff * p.pools[f].buyer_count

\* The recipient's side of the transfer is the caller's.
settle_on_time(p, f) ==
    When(/\ p.pools[f].status = "Active"
         /\ TotalPremium(p, f) <= p.pool_treasury,
         [p EXCEPT !.pool_treasury = @ - TotalPremium(p, f),
                   !.pools[f].status = "SettledOnTime"])

settle_delayed(p, f, claim_expiry) ==
    When(p.pools[f].status = "Active",
         [p EXCEPT !.pools[f].status = "SettledDelayed",
                   !.pools[f].claim_expiry = claim_expiry])

settle_cancelled(p, f, claim_expiry) ==
    When(p.pools[f].status = "Active",
         [p EXCEPT !.pools[f].status = "SettledCancelled",
                   !.pools[f].claim_expiry = claim_expiry])

-----------------------------------------------------------------------------
\* Traveler, public and owner operations.

claim(p, f, t) ==
    When(/\ p.pools[f].status \in Payable
         /\ now <= p.pools[f].claim_expiry
         /\ p.buyers[f][t] = "HasPolicy"
         /\ p.pools[f].claimed_count + 1 \in U32
         /\ p.pools[f].payoff <= p.pool_treasury,
         [p EXCEPT !.buyers[f][t] = "Claimed",
                   !.pools[f].claimed_count = @ + 1,
                   !.pool_treasury = @ - p.pools[f].payoff])

\* Nothing moves out of the treasury: the unclaimed payoffs become the
\* owner's, and the pool counts them as claimed.
sweep_expired(p, f) ==
    LET unclaimed == p.pools[f].buyer_count - p.pools[f].claimed_count
        amount == unclaimed * p.pools[f].payoff
    IN When(/\ p.pools[f].status \in Payable
            /\ now > p.pools[f].claim_expiry
            /\ unclaimed >= 0
            /\ amount \in U64
            /\ p.recovered_balance + amount \in U64,
            [p EXCEPT !.pools[f].claimed_count = p.pools[f].buyer_count,
                      !.recovered_balance = @ + amount])

withdraw_recovered(p, amount) ==
    When(/\ amount > 0
         /\ amount <= p.recovered_balance
         /\ amount <= p.pool_treasury,
         [p EXCEPT !.pool_treasury = @ - amount,
                   !.recovered_balance = @ - amount])
=============================================================================
