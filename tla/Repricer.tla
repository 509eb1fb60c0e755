------------------------------ MODULE Repricer ------------------------------
(***************************************************************************)
(* The route repricer: ticks of the daemon that walk the routes, ask the   *)
(* pricing agent and Grok about each, and update, disable or re-enable it  *)
(* with the key that owns governance, while people change the same routes. *)
(* What a tick knows is old: the log it read at its start tells which      *)
(* routes earlier ticks disabled, and all routes were read before the      *)
(* first was priced.                                                       *)
(***************************************************************************)
EXTENDS Governance, JobServer, FiniteSets

CONSTANTS
    MIN_PREMIUM,        \* $1
    MAX_PREMIUM,        \* $5
    DRIFT_THRESHOLD,    \* 10 cents
    Baselines,          \* bound: the agent's premiums
    Multipliers,        \* bound: Grok's multipliers, whole numbers
    HumanTerms,         \* bound: overrides people set
    HumanUpdates,       \* bound: changes of overrides people make
    HumanDefaults,      \* bound: default terms the owner sets
    MaxLate             \* bound: transactions given up and not yet expired

ASSUME RepricerAssumption ==
    /\ MIN_PREMIUM \in U64 /\ MAX_PREMIUM \in U64 /\ MIN_PREMIUM <= MAX_PREMIUM
    /\ DRIFT_THRESHOLD \in Nat \ {0}
    /\ \A k \in Ticks : JobOf[k] = "repricer"
    /\ Baselines \subseteq Nat /\ Multipliers \subseteq Nat \ {0}
    /\ HumanTerms \subseteq OverridesType
    /\ HumanUpdates \subseteq UpdatesType
    /\ HumanDefaults \subseteq ResolvedTerms

VARIABLES
    work,               \* what each tick of the repricer has read and done
    late,               \* transactions given up after 30 s that may still land
    held,               \* history: routes a person disabled, and none approved since
    everDisabled        \* history: routes the repricer said it disabled

repricerVars == <<work, late, held, everDisabled>>

allVars == <<now, governance, serverVars, repricerVars>>

-----------------------------------------------------------------------------
(* decide_route_actions.ts *)

\* Grok's answer, or what stands for it when Grok does not answer.
Verdict == [action : {"ok", "raise", "disable"}, multiplier : Multipliers]

GROK_SAFE_DEFAULT == [action |-> "ok", multiplier |-> 1]

\* A multiplier comes with a raise only.
Verdicts ==
    {GROK_SAFE_DEFAULT} \cup {v \in Verdict : v.action # "raise" => v.multiplier = 1}

RouteAction(kind, r, premium) == [kind |-> kind, route |-> r, premium |-> premium]

Noop == [kind |-> "noop"]

clampPremium(baseline, multiplier) ==
    LET adjusted == baseline * multiplier
    IN CASE adjusted < MIN_PREMIUM -> MIN_PREMIUM
         [] adjusted > MAX_PREMIUM -> MAX_PREMIUM
         [] OTHER -> adjusted

WithinDrift(target, current) ==
    /\ current # None
    /\ target - current < DRIFT_THRESHOLD
    /\ current - target < DRIFT_THRESHOLD

\* Mutated form: any route that is disabled is re-enabled once Grok says ok.
reenable_any(was, target, verdict, recent) ==
    CASE verdict.action = "disable" /\ was.approved ->
            RouteAction("disable", was.route, None)
      [] verdict.action = "ok" /\ ~was.approved ->
            RouteAction("reenable", was.route, target)
      [] verdict.action # "disable" /\ was.approved
            /\ ~WithinDrift(target, was.premium) ->
            RouteAction("update", was.route, target)
      [] OTHER -> Noop

\* was: a route as the tick read it; recent: the routes the log says the
\* repricer disabled.
decideRouteAction(was, target, verdict, recent) ==
    CASE verdict.action = "disable" /\ was.approved ->
            RouteAction("disable", was.route, None)
      [] verdict.action = "ok" /\ ~was.approved /\ was.route \in recent ->
            RouteAction("reenable", was.route, target)
      [] verdict.action # "disable" /\ was.approved
            /\ ~WithinDrift(target, was.premium) ->
            RouteAction("update", was.route, target)
      [] OTHER -> Noop

-----------------------------------------------------------------------------
(* run-repricer.ts, run_log.ts *)

\* Mutated form: the overrides a repricing does not name are cleared.
revert_other_terms(premium) ==
    [premium |-> premium, payoff |-> RevertToDefault, delay_hours |-> RevertToDefault]

PremiumOnly(premium) ==
    [premium |-> premium, payoff |-> Keep, delay_hours |-> Keep]

\* The instruction of an action, signed by the owner of governance.
routeActionToIxs(tx) ==
    CASE tx.kind = "update" ->
            update_route_terms(governance, Owner, tx.route, PremiumOnly(tx.premium))
      [] tx.kind = "disable" -> disable_route(governance, Owner, tx.route)
      [] tx.kind = "reenable" ->
            whitelist_route(governance, Owner, tx.route,
                [premium |-> tx.premium, payoff |-> None, delay_hours |-> None])
      [] OTHER -> {}

readDisabledByRepricer ==
    UNION {buffers["repricer"][i] : i \in DOMAIN buffers["repricer"]}

-----------------------------------------------------------------------------
(* The steps of a tick: tickRepricer, runRepricerOnce. *)

\* What decides of a route.
RouteState(r) ==
    [route |-> r, approved |-> governance.routes[r].approved,
     premium |-> governance.routes[r].premium]

\* todo: the routes the tick has yet to price, as it read them.
NoWork == [stage |-> "none", dryRun |-> FALSE, recent |-> {}, todo |-> {},
           disabled |-> {}, tx |-> Noop]

Sending(k) == work[k].tx # Noop

Record(k, r) ==
    /\ work' = [work EXCEPT ![k].tx = Noop, ![k].disabled = @ \cup {r}]
    /\ everDisabled' = everDisabled \cup {r}

StartTick(k, by, dryRun) ==
    /\ Begin(k, by)
    /\ work' = [work EXCEPT ![k] =
                    [NoWork EXCEPT !.stage = "reading", !.dryRun = dryRun,
                                   !.recent = readDisabledByRepricer]]
    /\ UNCHANGED <<now, governance, late, held, everDisabled>>

\* getProgramAccounts: every route there is, at one moment.
ReadRoutes(k) ==
    /\ work[k].stage = "reading"
    /\ work' = [work EXCEPT
                    ![k].stage = "walking",
                    ![k].todo = {RouteState(r) :
                                    r \in {r \in Routes : governance.routes[r].exists}}]
    /\ UNCHANGED <<now, governance, serverVars, late, held, everDisabled>>

\* The agent or the RPC node is not reached: the entry says nothing.
Throws(k) ==
    /\ work[k].stage = "reading"
    /\ End(k, FALSE, {})
    /\ work' = [work EXCEPT ![k] = NoWork]
    /\ UNCHANGED <<now, governance, late, held, everDisabled>>

\* The agent has no price: the route is skipped.
AgentFails(k) ==
    /\ ~Sending(k)
    /\ \E entry \in work[k].todo :
          work' = [work EXCEPT ![k].todo = @ \ {entry}]
    /\ UNCHANGED <<now, governance, serverVars, late, held, everDisabled>>

\* A dry run records what it would have disabled.
Decide(k) ==
    /\ ~Sending(k)
    /\ \E entry \in work[k].todo, baseline \in Baselines, verdict \in Verdicts :
          LET action == decideRouteAction(entry,
                            clampPremium(baseline, verdict.multiplier),
                            verdict, work[k].recent)
              dry == work[k].dryRun /\ action.kind = "disable"
          IN /\ work' = [work EXCEPT
                            ![k].todo = @ \ {entry},
                            ![k].tx = IF work[k].dryRun THEN Noop ELSE action,
                            ![k].disabled = IF dry THEN @ \cup {entry.route} ELSE @]
             /\ everDisabled' = everDisabled \cup (IF dry THEN {entry.route} ELSE {})
    /\ UNCHANGED <<now, governance, serverVars, late, held>>

Confirmed(k) ==
    /\ Sending(k)
    /\ governance' \in routeActionToIxs(work[k].tx)
    /\ IF work[k].tx.kind = "disable"
       THEN Record(k, work[k].tx.route)
       ELSE /\ work' = [work EXCEPT ![k].tx = Noop]
            /\ UNCHANGED everDisabled
    /\ UNCHANGED <<now, serverVars, late, held>>

\* Not sent, or not confirmed within 30 s, when it may land later: a warning.
GivenUp(k) ==
    /\ Sending(k)
    /\ late' \in {late, late \cup {work[k].tx}}
    /\ Cardinality(late') <= MaxLate
    /\ work' = [work EXCEPT ![k].tx = Noop]
    /\ UNCHANGED <<now, governance, serverVars, held, everDisabled>>

EndTick(k) ==
    /\ work[k].stage = "walking" /\ work[k].todo = {} /\ ~Sending(k)
    /\ End(k, TRUE, work[k].disabled)
    /\ work' = [work EXCEPT ![k] = NoWork]
    /\ UNCHANGED <<now, governance, late, held, everDisabled>>

-----------------------------------------------------------------------------
(* Failures. *)

LandsLate(tx) ==
    /\ governance' \in routeActionToIxs(tx)
    /\ late' = late \ {tx}
    /\ UNCHANGED <<now, serverVars, work, held, everDisabled>>

Expires(tx) ==
    /\ late' = late \ {tx}
    /\ UNCHANGED <<now, governance, serverVars, work, held, everDisabled>>

\* What was being sent may land.
Restart ==
    /\ ServerRestart
    /\ work' = [k \in Ticks |-> NoWork]
    /\ late' \in {late, late \cup {work[k].tx : k \in {k \in Ticks : Sending(k)}}}
    /\ Cardinality(late') <= MaxLate
    /\ UNCHANGED <<now, governance, held, everDisabled>>

-----------------------------------------------------------------------------
(* People, at the admin page or with a script. *)

People == Admins \cup {Owner}

DisableRoute(caller, r) ==
    /\ governance' \in disable_route(governance, caller, r)
    /\ held' = held \cup {r}
    /\ UNCHANGED <<now, serverVars, work, late, everDisabled>>

WhitelistRoute(caller, r) ==
    /\ \E terms \in HumanTerms : governance' \in whitelist_route(governance, caller, r, terms)
    /\ held' = held \ {r}
    /\ UNCHANGED <<now, serverVars, work, late, everDisabled>>

UpdateRouteTerms(caller, r) ==
    /\ \E update \in HumanUpdates :
          governance' \in update_route_terms(governance, caller, r, update)
    /\ UNCHANGED <<now, serverVars, repricerVars>>

SetDefaults ==
    /\ \E terms \in HumanDefaults : governance' \in set_defaults(governance, terms)
    /\ UNCHANGED <<now, serverVars, repricerVars>>

PeopleNext ==
    \/ \E caller \in People, r \in Routes :
          DisableRoute(caller, r) \/ WhitelistRoute(caller, r) \/ UpdateRouteTerms(caller, r)
    \/ SetDefaults

-----------------------------------------------------------------------------
RepricerInit ==
    /\ now = 0
    /\ \E terms \in HumanDefaults : governance = initialize_governance(terms)
    /\ ServerInit
    /\ work = [k \in Ticks |-> NoWork]
    /\ late = {}
    /\ held = {}
    /\ everDisabled = {}

\* The steps of a tick once it has started.
TickNext(k) ==
    \/ ReadRoutes(k) \/ Throws(k) \/ AgentFails(k) \/ Decide(k)
    \/ Confirmed(k) \/ GivenUp(k) \/ EndTick(k)

\* The schedule asks for no dry run, as REPRICER_DRY_RUN is not set.
StartNext(k) ==
    \/ StartTick(k, "schedule", FALSE)
    \/ \E dryRun \in BOOLEAN : StartTick(k, "trigger", dryRun)

RepricerNext ==
    \/ \E k \in Ticks : StartNext(k) \/ TickNext(k)
    \/ \E tx \in late : LandsLate(tx) \/ Expires(tx)
    \/ Restart
    \/ PeopleNext

RepricerSpec == RepricerInit /\ [][RepricerNext]_allVars

-----------------------------------------------------------------------------
\* A route a person disabled stays disabled until a person approves it, unless
\* the repricer once said it had disabled it as well: whatever a tick has read
\* before the person acted, and whatever lands late.  The exception is wider
\* than the routes it did disable, as a dry run says so too.
HumanDisableStandsUnlessOwn ==
    \A r \in held \ everDisabled : ~governance.routes[r].approved

\* Only people change the payoff and the delay of a route, unless the repricer
\* re-enables it, which it does to routes it once said it had disabled.
PayoffAndDelayAreHuman ==
    [][PeopleNext \/ \A r \in Routes :
          \/ r \in everDisabled
          \/ /\ governance'.routes[r].payoff = governance.routes[r].payoff
             /\ governance'.routes[r].delay_hours = governance.routes[r].delay_hours]_allVars
=============================================================================
