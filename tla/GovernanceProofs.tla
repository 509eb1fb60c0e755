-------------------------- MODULE GovernanceProofs --------------------------
(***************************************************************************)
(* What the handlers of governance_program leave: accounts of their types, *)
(* and every route but the one they name as it was.                        *)
(***************************************************************************)
EXTENDS Governance, TLAPS

\* A handler that succeeds found its guard true.  (Chain, When)
LEMMA WhenHolds ==
    ASSUME NEW guard \in BOOLEAN, NEW after, NEW result \in When(guard, after)
    PROVE  guard /\ result = after
BY DEF When

\* governance_program's initialize leaves no route.
LEMMA InitializeType ==
    ASSUME NEW terms \in ResolvedTerms
    PROVE  initialize_governance(terms) \in GovernanceType
BY ChainAssumption
   DEF initialize_governance, GovernanceType, NoRoute, RouteAccount, None, U32

\* set_defaults changes no route.
LEMMA SetDefaultsType ==
    ASSUME NEW g \in GovernanceType, NEW terms \in ResolvedTerms,
           NEW h \in set_defaults(g, terms)
    PROVE  /\ h \in GovernanceType
           /\ h.routes = g.routes /\ h.route_count = g.route_count
BY DEF set_defaults, When, GovernanceType

\* add_admin changes no route.
LEMMA AddAdminType ==
    ASSUME NEW g \in GovernanceType, NEW admin \in Admins,
           NEW h \in add_admin(g, admin)
    PROVE  /\ h \in GovernanceType
           /\ h.routes = g.routes /\ h.route_count = g.route_count
BY DEF add_admin, GovernanceType

\* remove_admin changes no route.
LEMMA RemoveAdminType ==
    ASSUME NEW g \in GovernanceType, NEW admin \in Admins,
           NEW h \in remove_admin(g, admin)
    PROVE  /\ h \in GovernanceType
           /\ h.routes = g.routes /\ h.route_count = g.route_count
BY DEF remove_admin, When, GovernanceType

\* whitelist_route counts the route it names when it is new.
LEMMA WhitelistRouteCounts ==
    ASSUME NEW g \in GovernanceType, NEW caller, NEW r \in Routes,
           NEW overrides \in OverridesType,
           NEW h \in whitelist_route(g, caller, r, overrides)
    PROVE  /\ g.routes[r].exists => h.route_count = g.route_count
           /\ ~g.routes[r].exists => h.route_count = g.route_count + 1
           /\ h.route_count \in U32
<1>1. /\ ~g.routes[r].exists => g.route_count + 1 \in U32
      /\ h = [g EXCEPT !.routes[r] = Whitelisted(overrides),
                       !.route_count = IF ~g.routes[r].exists THEN @ + 1 ELSE @]
  BY DEF whitelist_route, When
<1>2. g.route_count \in U32
  BY DEF GovernanceType
<1> QED
  BY <1>1, <1>2 DEF GovernanceType

\* whitelist_route writes the one route it names.
LEMMA WhitelistRouteType ==
    ASSUME NEW g \in GovernanceType, NEW caller, NEW r \in Routes,
           NEW overrides \in OverridesType,
           NEW h \in whitelist_route(g, caller, r, overrides)
    PROVE  /\ h \in GovernanceType
           /\ h.routes[r].exists /\ h.routes[r].approved
           /\ \A s \in Routes \ {r} : h.routes[s] = g.routes[s]
<1> DEFINE route == Whitelisted(overrides)
<1>1. route \in RouteAccount /\ route.exists /\ route.approved
  BY DEF RouteAccount, OverridesType, Whitelisted
<1>2. h = [g EXCEPT !.routes[r] = route,
                    !.route_count = IF ~g.routes[r].exists THEN @ + 1 ELSE @]
  BY DEF whitelist_route, When
<1>3. h.route_count \in U32
  BY WhitelistRouteCounts
<1> HIDE DEF route
<1>4. g.routes \in [Routes -> RouteAccount]
  BY DEF GovernanceType
<1>5. h.routes = [g.routes EXCEPT ![r] = route]
  BY <1>2 DEF GovernanceType
<1>6. h.routes \in [Routes -> RouteAccount]
  BY <1>1, <1>4, <1>5
<1>7. h \in GovernanceType
  BY <1>2, <1>3, <1>6 DEF GovernanceType
<1> QED
  BY <1>1, <1>4, <1>5, <1>7

\* disable_route only takes the approval of the route it names.
LEMMA DisableRouteType ==
    ASSUME NEW g \in GovernanceType, NEW caller, NEW r \in Routes,
           NEW h \in disable_route(g, caller, r)
    PROVE  /\ h \in GovernanceType
           /\ h.routes = [g.routes EXCEPT ![r].approved = FALSE]
           /\ ~h.routes[r].approved
<1>1. h = [g EXCEPT !.routes[r].approved = FALSE]
  BY DEF disable_route, When
<1>2. g.routes \in [Routes -> RouteAccount]
  BY DEF GovernanceType
<1>3. h.routes = [g.routes EXCEPT ![r].approved = FALSE]
  BY <1>1 DEF GovernanceType
<1>4. h.routes \in [Routes -> RouteAccount] /\ ~h.routes[r].approved
  BY <1>2, <1>3 DEF RouteAccount
<1> QED
  BY <1>1, <1>3, <1>4 DEF GovernanceType

\* disable_route creates and counts no route.
LEMMA DisableRouteCounts ==
    ASSUME NEW g \in GovernanceType, NEW caller, NEW r \in Routes,
           NEW h \in disable_route(g, caller, r)
    PROVE  /\ h \in GovernanceType /\ h.route_count = g.route_count
           /\ \A q \in Routes : h.routes[q].exists = g.routes[q].exists
<1>1. h = [g EXCEPT !.routes[r].approved = FALSE]
  BY DEF disable_route, When
<1>2. g.routes \in [Routes -> RouteAccount]
  BY DEF GovernanceType
<1>3. /\ h.routes = [g.routes EXCEPT ![r].approved = FALSE]
      /\ h.route_count = g.route_count
  BY <1>1 DEF GovernanceType
<1>4. ASSUME NEW q \in Routes PROVE h.routes[q].exists = g.routes[q].exists
  BY <1>2, <1>3 DEF RouteAccount
<1>5. h.routes \in [Routes -> RouteAccount]
  BY <1>2, <1>3 DEF RouteAccount
<1>6. h \in GovernanceType
  BY <1>1, <1>3, <1>5 DEF GovernanceType
<1> QED
  BY <1>3, <1>4, <1>6

\* update_route_terms writes terms of the route it names, never its approval,
\* and keeps a term whose update is Keep.
LEMMA UpdateRouteTermsType ==
    ASSUME NEW g \in GovernanceType, NEW caller, NEW r \in Routes,
           NEW update \in UpdatesType,
           NEW h \in update_route_terms(g, caller, r, update)
    PROVE  /\ h \in GovernanceType
           /\ h.routes[r].approved = g.routes[r].approved
           /\ update.payoff = Keep => h.routes[r].payoff = g.routes[r].payoff
           /\ update.delay_hours = Keep
                 => h.routes[r].delay_hours = g.routes[r].delay_hours
           /\ \A s \in Routes \ {r} : h.routes[s] = g.routes[s]
<1> DEFINE old == g.routes[r]
           new == Updated(old, update)
<1>1. h = [g EXCEPT !.routes[r] = new]
  BY DEF update_route_terms, When
<1>2. g.routes \in [Routes -> RouteAccount] /\ old \in RouteAccount
  BY DEF GovernanceType
<1>3. h.routes = [g.routes EXCEPT ![r] = new]
  BY <1>1, <1>2 DEF GovernanceType, RouteAccount
<1>4. /\ new \in RouteAccount /\ new.approved = old.approved
      /\ update.payoff = Keep => new.payoff = old.payoff
      /\ update.delay_hours = Keep => new.delay_hours = old.delay_hours
  BY <1>2 DEF RouteAccount, UpdatesType, Updated, Applied, U64, Keep, RevertToDefault, None
<1>5. h \in GovernanceType
  <2> HIDE DEF new
  <2> QED BY <1>1, <1>2, <1>3, <1>4 DEF GovernanceType
<1> QED
  BY <1>2, <1>3, <1>4, <1>5
=============================================================================
