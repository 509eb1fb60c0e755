---------------------------- MODULE TravelerPages ----------------------------
(***************************************************************************)
(* The frontend's /buy and /portfolio pages, used by some of the travelers *)
(* while everybody else calls the programs directly.                       *)
(*                                                                         *)
(* /buy resolves a route's terms as governance does and enables the sale   *)
(* by the vault's free capital; /portfolio decides from a policy's record  *)
(* and pool whether there is anything to claim.  Both work on copies of    *)
(* the chain and build transactions that land later, or not at all.        *)
(***************************************************************************)
EXTENDS Sentinel

CONSTANTS
    PageUsers,          \* travelers that use the pages
    MaxPending          \* bound: transactions of a user awaiting the wallet

ASSUME TravelerPagesAssumption ==
    /\ PageUsers \subseteq Travelers
    /\ MaxPending \in Nat

VARIABLES
    buy,                \* the BuyState each /buy page shows
    policies,           \* the MyPolicy of every flight each /portfolio shows
    pending             \* transactions built by a click and not sent yet

pageVars == <<buy, policies, pending>>
travelerVars == <<vars, pageVars>>

\* Before the first load: nothing is approved, nothing can be sold.
NoBuyState ==
    [ routes   |-> [r \in Routes |-> NoRoute],
      defaults |-> DefaultTerms,
      free     |-> 0 ]

NoPolicy == [record |-> NoAccount, pool |-> NoPool]

TravelerInit ==
    /\ SentinelInit
    /\ buy = [t \in PageUsers |-> NoBuyState]
    /\ policies = [t \in PageUsers |-> [f \in Flights |-> NoPolicy]]
    /\ pending = {}

-----------------------------------------------------------------------------
\* Mutated forms, for the checks of the properties.

\* The route's own terms are not looked at.
defaults_only(state, r) == state.defaults

-----------------------------------------------------------------------------
\* /buy

freeCapital(tma, locked) == IF tma > locked THEN tma - locked ELSE 0

LoadBuyState(t) ==
    /\ buy' = [buy EXCEPT ![t] =
                 [ routes   |-> governance.routes,
                   defaults |-> governance.default_terms,
                   free     |-> freeCapital(vault.total_managed_assets,
                                            vault.locked_capital) ]]
    /\ UNCHANGED <<vars, policies, pending>>

\* Each term is the route's, or else the default.
resolvedTerms(state, r) ==
    LET account == state.routes[r] IN
    [ premium     |-> unwrap_or(account.premium, state.defaults.premium),
      payoff      |-> unwrap_or(account.payoff, state.defaults.payoff),
      delay_hours |-> unwrap_or(account.delay_hours, state.defaults.delay_hours) ]

CoverEnabled(state, f, r) ==
    /\ r \in RoutesOf[f]
    /\ state.routes[r].approved
    /\ state.free >= resolvedTerms(state, r).payoff
    /\ DateOf[f] # 0

Sends(t, tx) ==
    /\ Cardinality({other \in pending : other.traveler = t}) < MaxPending
    /\ pending' = pending \cup {tx}
    /\ UNCHANGED <<vars, buy, policies>>

\* The transaction names the route and the flight; what it costs is decided
\* when it lands.
ClickCover(t, f, r) ==
    /\ CoverEnabled(buy[t], f, r)
    /\ Sends(t, [op |-> "buy_insurance", traveler |-> t, flight |-> f,
                 route |-> r, shown |-> resolvedTerms(buy[t], r),
                 read |-> << buy[t].routes[r], buy[t].defaults >>])

-----------------------------------------------------------------------------
\* /portfolio

\* The records are read first, the pools they name after them; a policy whose
\* pool changes in between is shown as the newer pool with the older record,
\* which a claim of the same traveler apart is the state of that moment.
readMyPolicies(t) ==
    [f \in Flights |->
        IF flight_pool.buyers[f][t] = NoAccount THEN NoPolicy
        ELSE [record |-> flight_pool.buyers[f][t], pool |-> flight_pool.pools[f]]]

LoadPolicies(t) ==
    /\ policies' = [policies EXCEPT ![t] = readMyPolicies(t)]
    /\ UNCHANGED <<vars, buy, pending>>

\* The page compares the browser's clock when it renders; taken as the chain's.
expired(policy) == policy.pool.claim_expiry > 0 /\ now > policy.pool.claim_expiry

eligible(policy) ==
    /\ policy.record = "HasPolicy"
    /\ ~expired(policy)
    /\ policy.pool.status \in Payable

ClickClaim(t, f) ==
    /\ eligible(policies[t][f])
    /\ Sends(t, [op |-> "claim", traveler |-> t, flight |-> f])

\* The address of the account holding the stable mint for an owner depends on
\* the token program it is derived with.  The program has the treasury's
\* address in its config; the page derives it again.
AtaOf(authority, token_program) == <<authority, token_program>>

config_pool_treasury == AtaOf("pool_treasury", "STABLE_TOKEN_PROGRAM")

poolTreasuryAta == AtaOf("pool_treasury", "TOKEN_PROGRAM")

\* claim, with the account constraints of its instruction.
claim_with_treasury(p, f, t, pool_treasury) ==
    IF pool_treasury = config_pool_treasury THEN claim(p, f, t) ELSE {}

-----------------------------------------------------------------------------
\* What becomes of a transaction.

Done(tx) == pending' = pending \ {tx} /\ UNCHANGED <<buy, policies>>

CoverLands(tx) ==
    /\ tx.op = "buy_insurance"
    /\ buy_insurance(tx.traveler, tx.flight, tx.route)
    /\ Done(tx)

\* A claim the program accepts changes flight_pool; one it refuses, in the
\* simulation before the wallet is asked to sign, is reported and forgotten.
ClaimSent(tx) ==
    /\ tx.op = "claim"
    /\ LET after == claim_with_treasury(flight_pool, tx.flight, tx.traveler,
                                        poolTreasuryAta)
       IN flight_pool' \in IF after = {} THEN {flight_pool} ELSE after
    /\ Done(tx)
    /\ UNCHANGED <<now, vault, oracle, governance, controller>>

\* Declined, refused by the program, or expired.
CoverRejected(tx) ==
    /\ tx.op = "buy_insurance"
    /\ Done(tx)
    /\ UNCHANGED vars

-----------------------------------------------------------------------------
PagesNext ==
    \/ \E t \in PageUsers :
          \/ LoadBuyState(t)
          \/ LoadPolicies(t)
          \/ \E f \in Flights :
                \/ \E r \in Routes : ClickCover(t, f, r)
                \/ ClickClaim(t, f)
    \/ \E tx \in pending : CoverLands(tx) \/ ClaimSent(tx) \/ CoverRejected(tx)

TravelerNext ==
    \/ PagesNext
    \/ SentinelNext /\ UNCHANGED pageVars

TravelerSpec == TravelerInit /\ [][TravelerNext]_travelerVars
-----------------------------------------------------------------------------
(* What the pages promise. *)

\* A page's copy of a policy only ages: it may show a policy that was claimed
\* or a pool not settled yet, but a claim it offers is owed, however long the
\* page has been open: unless the traveler has claimed it elsewhere meanwhile,
\* flight_pool pays it.  And a page just loaded hides nothing: what flight_pool
\* would pay is offered.
OfferedClaimIsOwed ==
    \A t \in PageUsers, f \in Flights :
        /\ eligible(policies[t][f]) /\ flight_pool.buyers[f][t] = "HasPolicy"
              => claim(flight_pool, f, t) # {}
        /\ claim(flight_pool, f, t) # {} => eligible(readMyPolicies(t)[f])

\* What the accounts the page read its terms from hold by now.
Unchanged(tx) == tx.read = << governance.routes[tx.route], governance.default_terms >>

SoldAsShown(tx) ==
    /\ Pool(tx.flight)'.premium = tx.shown.premium
    /\ Pool(tx.flight)'.payoff = tx.shown.payoff
    /\ Pool(tx.flight)'.delay_hours = tx.shown.delay_hours

Sold(tx) == tx.op = "buy_insurance" /\ flight_pool' # flight_pool

\* The first buyer of a flight is sold exactly what the page showed when the
\* button was clicked, unless the owner changed the terms before the sale
\* landed: a page and two programs resolve overrides against defaults, at
\* different times.
FirstBuyerGetsShownTerms ==
    [][\A tx \in pending \ pending' :
          Sold(tx) /\ Unchanged(tx) /\ Pool(tx.flight).status = NoAccount
             => SoldAsShown(tx)]_travelerVars
=============================================================================
