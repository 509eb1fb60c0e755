----------------------------- MODULE Governance -----------------------------
(***************************************************************************)
(* governance_program: which routes may be insured and on which terms.  A  *)
(* route overrides each of the global default terms or leaves it; the      *)
(* terms are resolved when they are read.  The owner and the active admins *)
(* may change routes, the owner alone the defaults and the admins.         *)
(***************************************************************************)
EXTENDS Chain

CONSTANTS
    Routes,             \* (flight_id, origin, destination) triples
    Admins,             \* keys that may be made admins
    Owner,              \* GovernanceConfig.owner
    MAX_DELAY_HOURS     \* 168 on chain

ASSUME GovernanceAssumption ==
    /\ MAX_DELAY_HOURS \in Nat \ {0}
    /\ Owner \notin Admins

VARIABLE governance

DelayHours == 1 .. MAX_DELAY_HOURS

\* Option<u64> and Option<u32>
None == -1

unwrap_or(option, default) == IF option = None THEN default ELSE option

RouteAccount ==
    [ exists      : BOOLEAN,
      approved    : BOOLEAN,
      premium     : U64 \cup {None},
      payoff      : U64 \cup {None},
      delay_hours : Nat \cup {None} ]

ResolvedTerms == [premium : U64, payoff : U64, delay_hours : Nat]

\* GovernanceConfig, the RouteAccounts and the AdminRecords.
GovernanceType ==
    [ default_terms : ResolvedTerms,
      route_count   : U32,
      routes        : [Routes -> RouteAccount],
      admins        : [Admins -> {"NoRecord", "Active", "Removed"}] ]

NoRoute ==
    [ exists |-> FALSE, approved |-> FALSE,
      premium |-> None, payoff |-> None, delay_hours |-> None ]

initialize_governance(default_terms) ==
    [ default_terms |-> default_terms,
      route_count   |-> 0,
      routes        |-> [r \in Routes |-> NoRoute],
      admins        |-> [a \in Admins |-> "NoRecord"] ]

require_owner_or_active_admin(g, caller) ==
    caller = Owner \/ (caller \in Admins /\ g.admins[caller] = "Active")

-----------------------------------------------------------------------------
\* Owner operations.

set_defaults(g, terms) ==
    When(terms.delay_hours \in DelayHours, [g EXCEPT !.default_terms = terms])

add_admin(g, admin) == {[g EXCEPT !.admins[admin] = "Active"]}

remove_admin(g, admin) ==
    When(g.admins[admin] # "NoRecord", [g EXCEPT !.admins[admin] = "Removed"])

-----------------------------------------------------------------------------
\* Owner or admin operations.

\* The overrides a caller may pass.
OverridesType ==
    [ premium     : U64 \cup {None},
      payoff      : U64 \cup {None},
      delay_hours : Nat \cup {None} ]

Whitelisted(overrides) ==
    [ exists |-> TRUE, approved |-> TRUE, premium |-> overrides.premium,
      payoff |-> overrides.payoff, delay_hours |-> overrides.delay_hours ]

\* Mutated form: whatever is approved is counted.
whitelist_counts_again(g, caller, r, overrides) ==
    When(/\ overrides.delay_hours \in DelayHours \cup {None}
         /\ require_owner_or_active_admin(g, caller)
         /\ g.route_count + 1 \in U32,
         [g EXCEPT !.routes[r] = Whitelisted(overrides), !.route_count = @ + 1])

\* Creates the route, or approves it again and replaces its overrides.
whitelist_route(g, caller, r, overrides) ==
    LET is_new == ~g.routes[r].exists IN
    When(/\ overrides.delay_hours \in DelayHours \cup {None}
         /\ require_owner_or_active_admin(g, caller)
         /\ is_new => g.route_count + 1 \in U32,
         [g EXCEPT !.routes[r] = Whitelisted(overrides),
                   !.route_count = IF is_new THEN @ + 1 ELSE @])

disable_route(g, caller, r) ==
    When(/\ g.routes[r].exists
         /\ require_owner_or_active_admin(g, caller),
         [g EXCEPT !.routes[r].approved = FALSE])

\* U64Update and U32Update: Keep, Set(v) or RevertToDefault.
Keep == -2
RevertToDefault == None

UpdatesType ==
    [ premium     : U64 \cup {RevertToDefault, Keep},
      payoff      : U64 \cup {RevertToDefault, Keep},
      delay_hours : Nat \cup {RevertToDefault, Keep} ]

Applied(update, current) == IF update = Keep THEN current ELSE update

Updated(route, update) ==
    [route EXCEPT !.premium = Applied(update.premium, @),
                  !.payoff = Applied(update.payoff, @),
                  !.delay_hours = Applied(update.delay_hours, @)]

update_route_terms(g, caller, r, update) ==
    When(/\ g.routes[r].exists
         /\ require_owner_or_active_admin(g, caller)
         /\ update.delay_hours \in DelayHours \cup {Keep, RevertToDefault},
         [g EXCEPT !.routes[r] = Updated(@, update)])

-----------------------------------------------------------------------------
\* Readers.

is_route_whitelisted(g, r) == g.routes[r].exists /\ g.routes[r].approved

get_route_terms(g, r) ==
    When(g.routes[r].approved,
         [ premium |-> unwrap_or(g.routes[r].premium, g.default_terms.premium),
           payoff |-> unwrap_or(g.routes[r].payoff, g.default_terms.payoff),
           delay_hours |-> unwrap_or(g.routes[r].delay_hours,
                                     g.default_terms.delay_hours) ])
=============================================================================
