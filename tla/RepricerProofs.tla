--------------------------- MODULE RepricerProofs ---------------------------
(***************************************************************************)
(* Theorems about the route repricer, for any number of routes, people and *)
(* overlapping ticks, any prices and any length of the log.                *)
(***************************************************************************)
EXTENDS Repricer, GovernanceProofs

(* The inductive invariant.  Whatever makes the repricer re-enable a route  *)
(* -- the log, what a tick has read of it, a transaction being sent or      *)
(* given up -- names only routes it once said it had disabled.              *)

TxType ==
    [kind : {"update", "disable", "reenable"}, route : Routes, premium : U64 \cup {None}]

RouteStateType ==
    [route : Routes, approved : BOOLEAN, premium : U64 \cup {None}]

WorkType ==
    [ stage    : {"none", "reading", "walking"},
      dryRun   : BOOLEAN,
      recent   : SUBSET Routes,
      todo     : SUBSET RouteStateType,
      disabled : SUBSET Routes,
      tx       : {Noop} \cup TxType ]

RepricerTypeOK ==
    /\ governance \in GovernanceType
    /\ buffers \in [Jobs -> Seq(SUBSET Routes)]
    /\ work \in [Ticks -> WorkType]
    /\ late \subseteq TxType
    /\ held \subseteq Routes
    /\ everDisabled \subseteq Routes

\* What tx re-enables, the repricer once said it had disabled.
OwnReenable(tx) == tx # Noop /\ tx.kind = "reenable" => tx.route \in everDisabled

BuffersAreOwn ==
    \A j \in Jobs : \A i \in DOMAIN buffers[j] : buffers[j][i] \subseteq everDisabled

WorkIsOwn ==
    \A k \in Ticks :
        /\ work[k].recent \subseteq everDisabled
        /\ work[k].disabled \subseteq everDisabled
        /\ OwnReenable(work[k].tx)

LateIsOwn == \A tx \in late : OwnReenable(tx)

RepricerInv ==
    /\ RepricerTypeOK
    /\ BuffersAreOwn
    /\ WorkIsOwn
    /\ LateIsOwn
    /\ HumanDisableStandsUnlessOwn

-----------------------------------------------------------------------------
\* Grok's multipliers, and the one that stands for no answer.
LEMMA MultiplierType ==
    ASSUME NEW verdict \in Verdicts
    PROVE  verdict.multiplier \in Nat
<1>1. Multipliers \subseteq Nat
  BY RepricerAssumption
<1>2. CASE verdict = GROK_SAFE_DEFAULT
  BY <1>2 DEF GROK_SAFE_DEFAULT
<1>3. CASE verdict \in Verdict
  <2>1. verdict.multiplier \in Multipliers
    BY <1>3 DEF Verdict
  <2> QED BY <1>1, <2>1
<1> QED
  BY <1>2, <1>3 DEF Verdicts

\* The clamp keeps a premium between its limits, whatever is multiplied.
LEMMA ClampInU64 ==
    ASSUME NEW baseline \in Baselines, NEW multiplier \in Nat
    PROVE  clampPremium(baseline, multiplier) \in U64
<1>1. baseline \in Nat /\ multiplier \in Nat
  BY RepricerAssumption
<1> DEFINE adjusted == baseline * multiplier
<1>2. adjusted \in Nat
  BY <1>1
<1>3. clampPremium(baseline, multiplier) =
        CASE adjusted < MIN_PREMIUM -> MIN_PREMIUM
          [] adjusted > MAX_PREMIUM -> MAX_PREMIUM
          [] OTHER -> adjusted
  BY DEF clampPremium
<1> HIDE DEF adjusted
<1> QED
  BY <1>2, <1>3, RepricerAssumption, ChainAssumption DEF U64

\* An action is a transaction or none; it re-enables only what the log names.
LEMMA DecisionType ==
    ASSUME NEW was \in RouteStateType, NEW target \in U64, NEW verdict \in Verdicts,
           NEW recent \in SUBSET Routes
    PROVE  LET action == decideRouteAction(was, target, verdict, recent)
           IN /\ action \in {Noop} \cup TxType
              /\ action # Noop /\ action.kind = "reenable" => action.route \in recent
<1> DEFINE off == verdict.action = "disable" /\ was.approved
           on == verdict.action = "ok" /\ ~was.approved /\ was.route \in recent
           move == /\ verdict.action # "disable" /\ was.approved
                   /\ ~WithinDrift(target, was.premium)
           action == decideRouteAction(was, target, verdict, recent)
<1>1. action = CASE off -> RouteAction("disable", was.route, None)
                 [] on -> RouteAction("reenable", was.route, target)
                 [] move -> RouteAction("update", was.route, target)
                 [] OTHER -> Noop
  BY DEF decideRouteAction
<1>2. /\ ~(off /\ on) /\ ~(off /\ move) /\ ~(on /\ move)
  OBVIOUS
<1>3. /\ off \in BOOLEAN /\ on \in BOOLEAN /\ move \in BOOLEAN
  OBVIOUS
<1>4. \/ off /\ action = RouteAction("disable", was.route, None)
      \/ on /\ action = RouteAction("reenable", was.route, target)
      \/ move /\ action = RouteAction("update", was.route, target)
      \/ action = Noop
  <2> HIDE DEF off, on, move, action
  <2> QED BY <1>1, <1>2, <1>3
<1>5. was.route \in Routes
  BY DEF RouteStateType
<1>6. on => was.route \in recent
  OBVIOUS
<1> HIDE DEF off, on, move, action
<1>7. action \in {Noop} \cup TxType
  BY <1>4, <1>5 DEF RouteAction, TxType
<1>8. action # Noop /\ action.kind = "reenable" => action.route \in recent
  BY <1>4, <1>6 DEF RouteAction
<1> QED
  BY <1>7, <1>8 DEF action

\* logRun keeps only what the buffer held and the new entry.
LEMMA LogKeeps ==
    ASSUME NEW buffer \in Seq(SUBSET Routes), NEW entry \in SUBSET Routes
    PROVE  /\ logRun(buffer, entry) \in Seq(SUBSET Routes)
           /\ \A i \in DOMAIN logRun(buffer, entry) :
                 \/ logRun(buffer, entry)[i] = entry
                 \/ \E j \in DOMAIN buffer : logRun(buffer, entry)[i] = buffer[j]
<1> DEFINE longer == Append(buffer, entry)
<1>1. longer \in Seq(SUBSET Routes) /\ Len(longer) = Len(buffer) + 1
  OBVIOUS
<1>2. \A i \in 1 .. Len(longer) :
         longer[i] = entry \/ \E j \in DOMAIN buffer : longer[i] = buffer[j]
  OBVIOUS
<1>3. longer # << >> /\ Len(longer) \in Nat
  BY <1>1
<1> HIDE DEF longer
<1>4. CASE logRun(buffer, entry) = longer
  BY <1>1, <1>2, <1>4
<1>5. CASE logRun(buffer, entry) = Tail(longer)
  <2>1. /\ Tail(longer) \in Seq(SUBSET Routes)
        /\ \A i \in 1 .. Len(Tail(longer)) :
              i + 1 \in 1 .. Len(longer) /\ Tail(longer)[i] = longer[i + 1]
    BY <1>1, <1>3
  <2> QED BY <1>2, <1>5, <2>1
<1> QED
  BY <1>4, <1>5 DEF logRun, longer

\* A transaction of the repricer leaves governance of its type, approves only a
\* route that was approved or that it re-enables, and changes payoff and delay
\* only of a route it re-enables.
LEMMA TxEffect ==
    ASSUME governance \in GovernanceType, NEW tx \in TxType,
           NEW after \in routeActionToIxs(tx)
    PROVE  /\ after \in GovernanceType
           /\ \A r \in Routes :
                 \/ tx.kind = "reenable" /\ tx.route = r
                 \/ /\ after.routes[r].approved => governance.routes[r].approved
                    /\ after.routes[r].payoff = governance.routes[r].payoff
                    /\ after.routes[r].delay_hours = governance.routes[r].delay_hours
<1>0. /\ tx.route \in Routes /\ tx.premium \in U64 \cup {None}
      /\ tx.kind \in {"update", "disable", "reenable"}
  BY DEF TxType
<1>1. CASE tx.kind = "update"
  <2>1. PremiumOnly(tx.premium) \in UpdatesType
    BY <1>0 DEF PremiumOnly, UpdatesType, RevertToDefault
  <2>2. after \in update_route_terms(governance, Owner, tx.route, PremiumOnly(tx.premium))
    BY <1>1 DEF routeActionToIxs
  <2>3. PremiumOnly(tx.premium).payoff = Keep /\ PremiumOnly(tx.premium).delay_hours = Keep
    BY DEF PremiumOnly
  <2> DEFINE update == PremiumOnly(tx.premium)
  <2> HIDE DEF update
  <2>4. /\ after \in GovernanceType
        /\ after.routes[tx.route].approved = governance.routes[tx.route].approved
        /\ update.payoff = Keep
              => after.routes[tx.route].payoff = governance.routes[tx.route].payoff
        /\ update.delay_hours = Keep
              => after.routes[tx.route].delay_hours = governance.routes[tx.route].delay_hours
        /\ \A s \in Routes \ {tx.route} : after.routes[s] = governance.routes[s]
    BY <1>0, <2>1, <2>2, UpdateRouteTermsType DEF update
  <2> QED BY <2>3, <2>4 DEF update
<1>2. CASE tx.kind = "disable"
  <2>1. after \in disable_route(governance, Owner, tx.route)
    BY <1>2 DEF routeActionToIxs
  <2>2. /\ after \in GovernanceType
        /\ after.routes = [governance.routes EXCEPT ![tx.route].approved = FALSE]
    BY <1>0, <2>1, DisableRouteType
  <2>3. governance.routes \in [Routes -> RouteAccount]
    BY DEF GovernanceType
  <2> QED BY <1>0, <2>2, <2>3 DEF RouteAccount
<1>3. CASE tx.kind = "reenable"
  <2> DEFINE terms == [premium |-> tx.premium, payoff |-> None, delay_hours |-> None]
  <2>1. terms \in OverridesType
    BY <1>0 DEF OverridesType
  <2>2. after \in whitelist_route(governance, Owner, tx.route, terms)
    BY <1>3 DEF routeActionToIxs
  <2> HIDE DEF terms
  <2>3. /\ after \in GovernanceType
        /\ \A s \in Routes \ {tx.route} : after.routes[s] = governance.routes[s]
    BY <1>0, <2>1, <2>2, WhitelistRouteType
  <2> QED BY <1>3, <2>3
<1> QED
  BY <1>0, <1>1, <1>2, <1>3

-----------------------------------------------------------------------------
\* RepricerInv holds before the first tick.
LEMMA InitRepricerInv == RepricerInit => RepricerInv
<1> SUFFICES ASSUME RepricerInit PROVE RepricerInv
  OBVIOUS
<1>1. governance \in GovernanceType
  BY InitializeType, RepricerAssumption DEF RepricerInit
<1>2. buffers \in [Jobs -> Seq(SUBSET Routes)] /\ BuffersAreOwn
  BY DEF RepricerInit, ServerInit, BuffersAreOwn
<1>3. NoWork \in WorkType
  BY DEF NoWork, WorkType
<1>4. work \in [Ticks -> WorkType] /\ WorkIsOwn
  BY <1>3 DEF RepricerInit, WorkIsOwn, NoWork, OwnReenable
<1>5. late = {} /\ held = {} /\ everDisabled = {}
  BY DEF RepricerInit
<1> QED
  BY <1>1, <1>2, <1>4, <1>5
  DEF RepricerInv, RepricerTypeOK, LateIsOwn, HumanDisableStandsUnlessOwn

\* What the log names is the repricer's own, and of routes.
LEMMA LogIsOwn ==
    ASSUME RepricerInv, NEW k \in Ticks
    PROVE  /\ readDisabledByRepricer \subseteq everDisabled
           /\ readDisabledByRepricer \subseteq Routes
<1>1. "repricer" \in Jobs
  BY JobServerAssumption, RepricerAssumption
<1> QED
  BY <1>1 DEF RepricerInv, RepricerTypeOK, BuffersAreOwn, readDisabledByRepricer

\* An entry of a tick that ends names routes that are the repricer's own.
LEMMA EndLogs ==
    ASSUME RepricerInv, NEW k \in Ticks, NEW ok, NEW entry \in SUBSET Routes,
           entry \subseteq everDisabled, End(k, ok, entry), UNCHANGED everDisabled
    PROVE  buffers' \in [Jobs -> Seq(SUBSET Routes)] /\ BuffersAreOwn'
<1>1. buffers \in [Jobs -> Seq(SUBSET Routes)] /\ JobOf[k] \in Jobs
  BY JobServerAssumption DEF RepricerInv, RepricerTypeOK
<1> DEFINE longer == logRun(buffers[JobOf[k]], entry)
<1>2. buffers' = [buffers EXCEPT ![JobOf[k]] = longer]
  BY DEF End
<1>3. /\ longer \in Seq(SUBSET Routes)
      /\ \A i \in DOMAIN longer :
            longer[i] = entry \/ \E j \in DOMAIN buffers[JobOf[k]] :
                                    longer[i] = buffers[JobOf[k]][j]
  BY <1>1, LogKeeps
<1> HIDE DEF longer
<1>4. \A i \in DOMAIN longer : longer[i] \subseteq everDisabled
  BY <1>1, <1>3 DEF RepricerInv, BuffersAreOwn
<1> QED
  BY <1>1, <1>2, <1>3, <1>4 DEF RepricerInv, BuffersAreOwn

\* A transaction of the repricer respects what a person disabled.
LEMMA EffectKeeps ==
    ASSUME RepricerInv, NEW tx \in TxType, OwnReenable(tx),
           governance' \in routeActionToIxs(tx), UNCHANGED held,
           everDisabled \subseteq everDisabled'
    PROVE  governance' \in GovernanceType /\ HumanDisableStandsUnlessOwn'
<1>1. tx # Noop
  BY DEF TxType, Noop
<1>2. tx.kind = "reenable" => tx.route \in everDisabled
  BY <1>1 DEF OwnReenable
<1>3. governance \in GovernanceType /\ held \subseteq Routes
  BY DEF RepricerInv, RepricerTypeOK
<1>4. /\ governance' \in GovernanceType
      /\ \A r \in Routes :
            \/ tx.kind = "reenable" /\ tx.route = r
            \/ governance'.routes[r].approved => governance.routes[r].approved
  BY <1>3, TxEffect
<1> QED
  BY <1>2, <1>3, <1>4 DEF RepricerInv, HumanDisableStandsUnlessOwn

\* The steps of a tick of the repricer.
LEMMA TickStepsInv ==
    ASSUME RepricerInv, NEW k \in Ticks, StartNext(k) \/ TickNext(k)
    PROVE  RepricerInv'
<1> USE DEF RepricerInv, RepricerTypeOK
<1>0. /\ work[k] \in WorkType
      /\ work[k].recent \subseteq everDisabled /\ work[k].disabled \subseteq everDisabled
      /\ OwnReenable(work[k].tx)
  BY DEF WorkIsOwn
<1>1. NoWork \in WorkType /\ OwnReenable(Noop)
  BY DEF NoWork, WorkType, OwnReenable
\* A tick whose record is w, when nothing else the invariant reads moves.
<1>2. ASSUME NEW w \in WorkType, work' = [work EXCEPT ![k] = w],
             w.recent \subseteq everDisabled, w.disabled \subseteq everDisabled',
             OwnReenable(w.tx), everDisabled \subseteq everDisabled'
      PROVE  work' \in [Ticks -> WorkType] /\ WorkIsOwn'
  BY <1>2 DEF WorkIsOwn, OwnReenable
<1>3. ASSUME everDisabled \subseteq everDisabled', UNCHANGED <<buffers, late>>
      PROVE  BuffersAreOwn' /\ LateIsOwn'
  BY <1>3 DEF BuffersAreOwn, LateIsOwn, OwnReenable
<1>4. ASSUME NEW by, NEW dryRun \in BOOLEAN, StartTick(k, by, dryRun)
      PROVE  RepricerInv'
  <2> DEFINE w == [NoWork EXCEPT !.stage = "reading", !.dryRun = dryRun,
                                 !.recent = readDisabledByRepricer]
  <2>1. readDisabledByRepricer \subseteq everDisabled
    BY LogIsOwn
  <2>2. /\ w \in WorkType /\ w.recent \subseteq everDisabled
        /\ w.disabled = {} /\ w.tx = Noop
    BY <2>1 DEF NoWork, WorkType
  <2>3. /\ work' = [work EXCEPT ![k] = w]
        /\ UNCHANGED <<governance, buffers, late, held, everDisabled>>
    BY <1>4 DEF StartTick, Begin
  <2> HIDE DEF w
  <2>4. work' \in [Ticks -> WorkType] /\ WorkIsOwn'
    BY <1>1, <1>2, <2>2, <2>3
  <2> QED BY <1>3, <2>3, <2>4 DEF HumanDisableStandsUnlessOwn
<1>5. CASE ReadRoutes(k)
  <2> DEFINE read == {RouteState(r) : r \in {r \in Routes : governance.routes[r].exists}}
             w == [work[k] EXCEPT !.stage = "walking", !.todo = read]
  <2>1. read \subseteq RouteStateType
    BY DEF RouteState, RouteStateType, GovernanceType, RouteAccount
  <2> HIDE DEF read
  <2>2. /\ w \in WorkType /\ w.recent = work[k].recent
        /\ w.disabled = work[k].disabled /\ w.tx = work[k].tx
    BY <1>0, <2>1 DEF WorkType
  <2>3. /\ work' = [work EXCEPT ![k] = w]
        /\ UNCHANGED <<governance, buffers, late, held, everDisabled>>
    BY <1>5 DEF ReadRoutes, serverVars, read
  <2> HIDE DEF w
  <2>4. work' \in [Ticks -> WorkType] /\ WorkIsOwn'
    BY <1>0, <1>2, <2>2, <2>3
  <2> QED BY <1>3, <2>3, <2>4 DEF HumanDisableStandsUnlessOwn
<1>6. ASSUME NEW ok, NEW entry \in {{}, work[k].disabled}, End(k, ok, entry),
             work' = [work EXCEPT ![k] = NoWork],
             UNCHANGED <<governance, late, held, everDisabled>>
      PROVE  RepricerInv'
  <2>1. buffers' \in [Jobs -> Seq(SUBSET Routes)] /\ BuffersAreOwn'
    BY <1>0, <1>6, EndLogs DEF WorkType
  <2>2. NoWork.recent = {} /\ NoWork.disabled = {} /\ NoWork.tx = Noop
    BY DEF NoWork
  <2>3. work' \in [Ticks -> WorkType] /\ WorkIsOwn'
    BY <1>1, <1>2, <1>6, <2>2
  <2> QED BY <1>6, <2>1, <2>3 DEF LateIsOwn, OwnReenable, HumanDisableStandsUnlessOwn
<1>7. CASE AgentFails(k)
  <2>1. PICK entry \in work[k].todo : work' = [work EXCEPT ![k].todo = @ \ {entry}]
    BY <1>7 DEF AgentFails
  <2> DEFINE w == [work[k] EXCEPT !.todo = @ \ {entry}]
  <2>2. /\ w \in WorkType /\ w.recent = work[k].recent
        /\ w.disabled = work[k].disabled /\ w.tx = work[k].tx
    BY <1>0 DEF WorkType
  <2>3. /\ work' = [work EXCEPT ![k] = w]
        /\ UNCHANGED <<governance, buffers, late, held, everDisabled>>
    BY <1>7, <2>1 DEF AgentFails, serverVars
  <2> HIDE DEF w
  <2>4. work' \in [Ticks -> WorkType] /\ WorkIsOwn'
    BY <1>0, <1>2, <2>2, <2>3
  <2> QED BY <1>3, <2>3, <2>4 DEF HumanDisableStandsUnlessOwn
<1>8. CASE Decide(k)
  <2>1. PICK entry \in work[k].todo, baseline \in Baselines, verdict \in Verdicts :
          LET action == decideRouteAction(entry,
                            clampPremium(baseline, verdict.multiplier),
                            verdict, work[k].recent)
              dry == work[k].dryRun /\ action.kind = "disable"
          IN /\ work' = [work EXCEPT
                            ![k].todo = @ \ {entry},
                            ![k].tx = IF work[k].dryRun THEN Noop ELSE action,
                            ![k].disabled = IF dry THEN @ \cup {entry.route} ELSE @]
             /\ everDisabled' = everDisabled \cup (IF dry THEN {entry.route} ELSE {})
    BY <1>8 DEF Decide
  <2> DEFINE target == clampPremium(baseline, verdict.multiplier)
             action == decideRouteAction(entry, target, verdict, work[k].recent)
             dry == work[k].dryRun /\ action.kind = "disable"
             named == IF dry THEN {entry.route} ELSE {}
             w == [work[k] EXCEPT !.todo = @ \ {entry},
                                  !.tx = IF work[k].dryRun THEN Noop ELSE action,
                                  !.disabled = IF dry THEN @ \cup {entry.route} ELSE @]
  <2>2. /\ work' = [work EXCEPT ![k] = w]
        /\ everDisabled' = everDisabled \cup named
        /\ UNCHANGED <<governance, buffers, late, held>>
    <3>1. /\ work' = [work EXCEPT
                            ![k].todo = @ \ {entry},
                            ![k].tx = IF work[k].dryRun THEN Noop ELSE action,
                            ![k].disabled = IF dry THEN @ \cup {entry.route} ELSE @]
          /\ everDisabled' = everDisabled \cup named
      BY <2>1
    <3>2. UNCHANGED <<governance, buffers, late, held>>
      BY <1>8 DEF Decide, serverVars
    <3> HIDE DEF action, dry, named
    <3> QED BY <1>0, <3>1, <3>2 DEF WorkType
  <2>3. entry \in RouteStateType /\ entry.route \in Routes
    BY <1>0 DEF WorkType, RouteStateType
  <2>4. target \in U64
    BY MultiplierType, ClampInU64
  <2>5. /\ action \in {Noop} \cup TxType
        /\ action # Noop /\ action.kind = "reenable" => action.route \in work[k].recent
    <3> HIDE DEF target
    <3> QED BY <1>0, <2>3, <2>4, DecisionType DEF WorkType
  <2> HIDE DEF action, target, dry
  <2>6. named \subseteq Routes
    BY <2>3
  <2> HIDE DEF named
  <2>7. /\ w \in WorkType /\ w.recent = work[k].recent
        /\ w.disabled = work[k].disabled \cup named
        /\ w.tx \in {Noop, action}
    BY <1>0, <2>3, <2>5 DEF WorkType, named
  <2>8. OwnReenable(w.tx)
    BY <1>0, <1>1, <2>5, <2>7 DEF OwnReenable
  <2> HIDE DEF w
  <2>9. work' \in [Ticks -> WorkType] /\ WorkIsOwn'
    BY <1>0, <1>2, <2>2, <2>7, <2>8
  <2> QED BY <1>3, <2>2, <2>6, <2>9 DEF HumanDisableStandsUnlessOwn
<1>9. CASE Confirmed(k)
  <2> DEFINE tx == work[k].tx
             off == tx.kind = "disable"
             named == IF off THEN {tx.route} ELSE {}
             w == [work[k] EXCEPT !.tx = Noop,
                                  !.disabled = IF off THEN @ \cup {tx.route} ELSE @]
  <2>1. tx \in TxType
    BY <1>0, <1>9 DEF Confirmed, Sending, WorkType
  <2>2. /\ governance' \in routeActionToIxs(tx)
        /\ UNCHANGED <<buffers, late, held>>
    BY <1>9 DEF Confirmed, serverVars
  <2>3. /\ work' = [work EXCEPT ![k] = w]
        /\ everDisabled' = everDisabled \cup named
    <3>1. CASE off
      <4>1. /\ work' = [work EXCEPT ![k].tx = Noop, ![k].disabled = @ \cup {tx.route}]
            /\ everDisabled' = everDisabled \cup {tx.route}
        BY <1>9, <3>1 DEF Confirmed, Record
      <4> QED BY <1>0, <3>1, <4>1 DEF WorkType
    <3>2. CASE ~off
      <4>1. work' = [work EXCEPT ![k].tx = Noop] /\ UNCHANGED everDisabled
        BY <1>9, <3>2 DEF Confirmed
      <4> QED BY <1>0, <3>2, <4>1 DEF WorkType
    <3> QED BY <3>1, <3>2
  <2>4. named \subseteq Routes
    BY <2>1 DEF TxType
  <2>5. governance' \in GovernanceType /\ HumanDisableStandsUnlessOwn'
    <3> HIDE DEF tx, named, w
    <3> QED BY <1>0, <2>1, <2>2, <2>3, EffectKeeps DEF tx
  <2>6. /\ w \in WorkType /\ w.recent = work[k].recent
        /\ w.disabled = work[k].disabled \cup named /\ w.tx = Noop
    <3>1. tx.route \in Routes
      BY <2>1 DEF TxType
    <3> HIDE DEF tx, off
    <3> QED BY <1>0, <3>1 DEF WorkType
  <2> HIDE DEF named
  <2> HIDE DEF w
  <2>7. work' \in [Ticks -> WorkType] /\ WorkIsOwn'
    BY <1>0, <1>1, <1>2, <2>3, <2>6
  <2> QED BY <1>3, <2>2, <2>3, <2>4, <2>5, <2>7
<1>10. CASE GivenUp(k)
  <2> DEFINE w == [work[k] EXCEPT !.tx = Noop]
  <2>1. work[k].tx \in TxType
    BY <1>0, <1>10 DEF GivenUp, Sending, WorkType
  <2>2. /\ work' = [work EXCEPT ![k] = w]
        /\ late' \subseteq late \cup {work[k].tx}
        /\ UNCHANGED <<governance, buffers, held, everDisabled>>
    BY <1>10 DEF GivenUp, serverVars
  <2>3. w \in WorkType /\ w.recent = work[k].recent /\ w.disabled = work[k].disabled
          /\ w.tx = Noop
    BY <1>0 DEF WorkType
  <2> HIDE DEF w
  <2>4. work' \in [Ticks -> WorkType] /\ WorkIsOwn'
    BY <1>0, <1>1, <1>2, <2>2, <2>3
  <2>5. late' \subseteq TxType /\ LateIsOwn'
    BY <1>0, <2>1, <2>2 DEF LateIsOwn, OwnReenable
  <2> QED BY <2>2, <2>4, <2>5 DEF BuffersAreOwn, HumanDisableStandsUnlessOwn
<1>11. CASE Throws(k)
  BY <1>6, <1>11 DEF Throws
<1>12. CASE EndTick(k)
  BY <1>6, <1>12 DEF EndTick
<1> QED
  BY <1>4, <1>5, <1>7, <1>8, <1>9, <1>10, <1>11, <1>12 DEF StartNext, TickNext

\* Transactions the repricer gave up, and the restart that forgets everything.
LEMMA FailureStepsInv ==
    ASSUME RepricerInv, Restart \/ \E tx \in late : LandsLate(tx) \/ Expires(tx)
    PROVE  RepricerInv'
<1> USE DEF RepricerInv, RepricerTypeOK
<1>1. ASSUME NEW tx \in late, LandsLate(tx) PROVE RepricerInv'
  <2>1. tx \in TxType /\ OwnReenable(tx)
    BY DEF LateIsOwn
  <2>2. /\ governance' \in routeActionToIxs(tx) /\ late' = late \ {tx}
        /\ UNCHANGED <<buffers, work, held, everDisabled>>
    BY <1>1 DEF LandsLate, serverVars
  <2>3. governance' \in GovernanceType /\ HumanDisableStandsUnlessOwn'
    BY <2>1, <2>2, EffectKeeps
  <2> QED
    BY <2>2, <2>3 DEF BuffersAreOwn, WorkIsOwn, LateIsOwn, OwnReenable
<1>2. ASSUME NEW tx \in late, Expires(tx) PROVE RepricerInv'
  <2>1. /\ late' = late \ {tx}
        /\ UNCHANGED <<governance, buffers, work, held, everDisabled>>
    BY <1>2 DEF Expires, serverVars
  <2> QED
    BY <2>1
    DEF BuffersAreOwn, WorkIsOwn, LateIsOwn, OwnReenable, HumanDisableStandsUnlessOwn
<1>3. CASE Restart
  <2>1. /\ buffers' = [j \in Jobs |-> << >>]
        /\ work' = [k \in Ticks |-> NoWork]
        /\ late' \subseteq late \cup {work[k].tx : k \in {k \in Ticks : Sending(k)}}
        /\ UNCHANGED <<governance, held, everDisabled>>
    BY <1>3 DEF Restart, ServerRestart
  <2>2. buffers' \in [Jobs -> Seq(SUBSET Routes)] /\ BuffersAreOwn'
    BY <2>1 DEF BuffersAreOwn
  <2>3. work' \in [Ticks -> WorkType] /\ WorkIsOwn'
    BY <2>1 DEF NoWork, WorkType, WorkIsOwn, OwnReenable
  <2>4. \A k \in Ticks : Sending(k) => work[k].tx \in TxType /\ OwnReenable(work[k].tx)
    BY DEF WorkType, WorkIsOwn, Sending
  <2>5. late' \subseteq TxType /\ LateIsOwn'
    BY <2>1, <2>4 DEF LateIsOwn, OwnReenable
  <2> QED
    BY <2>1, <2>2, <2>3, <2>5 DEF HumanDisableStandsUnlessOwn
<1> QED
  BY <1>1, <1>2, <1>3

\* What a person's transaction leaves of the approvals.
LEMMA DisablingApproves ==
    ASSUME governance \in GovernanceType, NEW caller, NEW r \in Routes,
           NEW after \in disable_route(governance, caller, r)
    PROVE  /\ after \in GovernanceType
           /\ \A s \in Routes : after.routes[s].approved
                                   => s # r /\ governance.routes[s].approved
<1>1. after.routes = [governance.routes EXCEPT ![r].approved = FALSE]
  BY DisableRouteType
<1>2. governance.routes \in [Routes -> RouteAccount]
  BY DEF GovernanceType
<1>3. after \in GovernanceType
  BY DisableRouteType
<1> QED
  BY <1>1, <1>2, <1>3 DEF RouteAccount

\* A person's whitelist_route touches the one route it names.
LEMMA WhitelistingApproves ==
    ASSUME governance \in GovernanceType, NEW caller, NEW r \in Routes,
           NEW terms \in HumanTerms,
           NEW after \in whitelist_route(governance, caller, r, terms)
    PROVE  /\ after \in GovernanceType
           /\ \A s \in Routes \ {r} : after.routes[s] = governance.routes[s]
<1>1. terms \in OverridesType
  BY RepricerAssumption
<1> QED
  BY <1>1, WhitelistRouteType

\* A person's update_route_terms approves and disables nothing.
LEMMA UpdatingApproves ==
    ASSUME governance \in GovernanceType, NEW caller, NEW r \in Routes,
           NEW update \in HumanUpdates,
           NEW after \in update_route_terms(governance, caller, r, update)
    PROVE  /\ after \in GovernanceType
           /\ \A s \in Routes :
                 after.routes[s].approved = governance.routes[s].approved
<1>1. update \in UpdatesType
  BY RepricerAssumption
<1>2. /\ after \in GovernanceType
      /\ after.routes[r].approved = governance.routes[r].approved
      /\ \A s \in Routes \ {r} : after.routes[s] = governance.routes[s]
  BY <1>1, UpdateRouteTermsType
<1> QED
  BY <1>2

\* What people do.
LEMMA PeopleStepsInv == RepricerInv /\ PeopleNext => RepricerInv'
<1> SUFFICES ASSUME RepricerInv, PeopleNext PROVE RepricerInv'
  OBVIOUS
<1> USE DEF RepricerInv, RepricerTypeOK
<1>0. governance \in GovernanceType
  OBVIOUS
<1>1. UNCHANGED <<buffers, work, late, everDisabled>>
  BY DEF PeopleNext, DisableRoute, WhitelistRoute, UpdateRouteTerms, SetDefaults,
         serverVars, repricerVars
<1>2. BuffersAreOwn' /\ WorkIsOwn' /\ LateIsOwn'
  BY <1>1 DEF BuffersAreOwn, WorkIsOwn, LateIsOwn, OwnReenable
<1>3. SUFFICES governance' \in GovernanceType /\ held' \subseteq Routes
                 /\ HumanDisableStandsUnlessOwn'
  BY <1>1, <1>2
<1>4. ASSUME NEW caller \in People, NEW r \in Routes, DisableRoute(caller, r)
      PROVE  /\ governance' \in GovernanceType /\ held' \subseteq Routes
             /\ HumanDisableStandsUnlessOwn'
  <2>1. governance' \in disable_route(governance, caller, r) /\ held' = held \cup {r}
    BY <1>4 DEF DisableRoute
  <2>2. /\ governance' \in GovernanceType
        /\ \A q \in Routes : governance'.routes[q].approved
                              => q # r /\ governance.routes[q].approved
    BY <1>0, <2>1, DisablingApproves
  <2> QED BY <1>1, <2>1, <2>2 DEF HumanDisableStandsUnlessOwn
<1>5. ASSUME NEW caller \in People, NEW r \in Routes, WhitelistRoute(caller, r)
      PROVE  /\ governance' \in GovernanceType /\ held' \subseteq Routes
             /\ HumanDisableStandsUnlessOwn'
  <2>1. PICK terms \in HumanTerms : governance' \in whitelist_route(governance, caller, r, terms)
    BY <1>5 DEF WhitelistRoute
  <2>3. /\ governance' \in GovernanceType
        /\ \A s \in Routes \ {r} : governance'.routes[s] = governance.routes[s]
    <3>1. terms \in HumanTerms
      OBVIOUS
    <3>2. ASSUME NEW after \in whitelist_route(governance, caller, r, terms)
          PROVE  /\ after \in GovernanceType
                 /\ \A s \in Routes \ {r} : after.routes[s] = governance.routes[s]
      BY <1>0, <3>1, WhitelistingApproves
    <3> QED BY <2>1, <3>2
  <2>4. held' = held \ {r}
    BY <1>5 DEF WhitelistRoute
  <2> QED BY <1>1, <2>3, <2>4 DEF HumanDisableStandsUnlessOwn
<1>6. ASSUME NEW caller \in People, NEW r \in Routes, UpdateRouteTerms(caller, r)
      PROVE  /\ governance' \in GovernanceType /\ held' \subseteq Routes
             /\ HumanDisableStandsUnlessOwn'
  <2>1. PICK update \in HumanUpdates :
           governance' \in update_route_terms(governance, caller, r, update)
    BY <1>6 DEF UpdateRouteTerms
  <2>3. /\ governance' \in GovernanceType
        /\ \A q \in Routes : governance'.routes[q].approved = governance.routes[q].approved
    BY <1>0, <2>1, UpdatingApproves
  <2>5. held' = held
    BY <1>6 DEF UpdateRouteTerms, repricerVars
  <2> QED BY <1>1, <2>3, <2>5 DEF HumanDisableStandsUnlessOwn
<1>7. ASSUME SetDefaults
      PROVE  /\ governance' \in GovernanceType /\ held' \subseteq Routes
             /\ HumanDisableStandsUnlessOwn'
  <2>1. governance' \in GovernanceType /\ governance'.routes = governance.routes
    BY <1>7, SetDefaultsType, RepricerAssumption DEF SetDefaults
  <2>2. held' = held
    BY <1>7 DEF SetDefaults, repricerVars
  <2> QED BY <1>1, <2>1, <2>2 DEF HumanDisableStandsUnlessOwn
<1> QED
  BY <1>4, <1>5, <1>6, <1>7 DEF PeopleNext

\* RepricerInv is inductive: a case for each step of a tick, of the late
\* transactions, of the server and of people.
LEMMA NextRepricerInv == RepricerInv /\ [RepricerNext]_allVars => RepricerInv'
<1> SUFFICES ASSUME RepricerInv, [RepricerNext]_allVars PROVE RepricerInv'
  OBVIOUS
<1>1. CASE RepricerNext
  BY <1>1, TickStepsInv, FailureStepsInv, PeopleStepsInv DEF RepricerNext
<1>2. CASE UNCHANGED allVars
  BY <1>2
  DEF allVars, serverVars, repricerVars, RepricerInv, RepricerTypeOK, BuffersAreOwn,
      WorkIsOwn, LateIsOwn, OwnReenable, HumanDisableStandsUnlessOwn
<1> QED
  BY <1>1, <1>2

\* A route a person disabled, that the repricer never said it had disabled, stays
\* disabled until a person approves it: for any number of overlapping ticks,
\* however stale what they read, any late transaction, restart and log length.
\* (decide_route_actions.ts, run_log.ts, route_repricer.ts)
THEOREM HumanDisablesStand == RepricerSpec => []HumanDisableStandsUnlessOwn
<1>1. RepricerInv => HumanDisableStandsUnlessOwn
  BY DEF RepricerInv
<1> QED
  BY <1>1, InitRepricerInv, NextRepricerInv, PTL DEF RepricerSpec

\* The repricer changes no payoff and no delay of a route it did not itself say
\* it had disabled.  (run-repricer.ts, routeActionToIxs; Keep of
\* update_route_terms)
THEOREM PayoffAndDelayStayHuman == RepricerSpec => PayoffAndDelayAreHuman
<1> DEFINE Terms ==
      PeopleNext \/ \A r \in Routes :
          \/ r \in everDisabled
          \/ /\ governance'.routes[r].payoff = governance.routes[r].payoff
             /\ governance'.routes[r].delay_hours = governance.routes[r].delay_hours
<1>1. ASSUME RepricerInv, [RepricerNext]_allVars
      PROVE  [Terms]_allVars
  <2>1. ASSUME NEW tx \in TxType, OwnReenable(tx), governance' \in routeActionToIxs(tx)
        PROVE  Terms
    <3>1. tx # Noop
      BY DEF TxType, Noop
    <3>2. governance \in GovernanceType
      BY <1>1 DEF RepricerInv, RepricerTypeOK
    <3> QED BY <2>1, <3>1, <3>2, TxEffect DEF OwnReenable
  <2>2. ASSUME UNCHANGED governance PROVE Terms
    BY <2>2
  <2>3. ASSUME NEW k \in Ticks, Confirmed(k) PROVE Terms
    <3>1. /\ work[k].tx \in TxType /\ OwnReenable(work[k].tx)
          /\ governance' \in routeActionToIxs(work[k].tx)
      BY <1>1, <2>3
      DEF RepricerInv, RepricerTypeOK, WorkType, WorkIsOwn, Confirmed, Sending
    <3> QED BY <2>1, <3>1
  <2>4. ASSUME NEW tx \in late, LandsLate(tx) PROVE Terms
    <3>1. /\ tx \in TxType /\ OwnReenable(tx)
          /\ governance' \in routeActionToIxs(tx)
      BY <1>1, <2>4 DEF RepricerInv, RepricerTypeOK, LateIsOwn, LandsLate
    <3> QED BY <2>1, <3>1
  <2>5. ASSUME RepricerNext PROVE Terms
    <3>1. ASSUME NEW k \in Ticks, StartNext(k) \/ TickNext(k), ~Confirmed(k)
          PROVE  UNCHANGED governance
      BY <3>1
      DEF StartNext, TickNext, StartTick, ReadRoutes, Throws, AgentFails, Decide,
          GivenUp, EndTick
    <3>2. ASSUME NEW tx \in late, Expires(tx) PROVE UNCHANGED governance
      BY <3>2 DEF Expires
    <3>3. ASSUME Restart PROVE UNCHANGED governance
      BY <3>3 DEF Restart
    <3>4. PeopleNext => Terms
      OBVIOUS
    <3> HIDE DEF Terms
    <3> QED BY <2>2, <2>3, <2>4, <2>5, <3>1, <3>2, <3>3, <3>4 DEF RepricerNext
  <2> QED BY <1>1, <2>5
<1> QED
  BY <1>1, InitRepricerInv, NextRepricerInv, PTL
  DEF RepricerSpec, PayoffAndDelayAreHuman

-----------------------------------------------------------------------------
(* The mutex of the HTTP server. *)

RunType == [by : {"nobody", "schedule", "trigger"}, saved : Ticks \cup {"stdout"}]

MutexInv ==
    /\ RUNNING \in [Jobs -> BOOLEAN]
    /\ runs \in [Ticks -> RunType]
    /\ console \in Ticks \cup {"stdout"}
    /\ MutexHeldByOneTrigger

\* A tick that begins on request sets the flag of its job.
LEMMA BeginMutex ==
    ASSUME MutexInv, NEW k \in Ticks, NEW by \in {"schedule", "trigger"}, Begin(k, by)
    PROVE  MutexInv'
<1> USE DEF MutexInv, RunType
<1>0. JobOf \in [Ticks -> Jobs]
  BY JobServerAssumption
<1>1. /\ runs' = [runs EXCEPT ![k] = [by |-> by, saved |-> console]]
      /\ runs' \in [Ticks -> RunType]
      /\ console' \in Ticks \cup {"stdout"}
  BY DEF Begin
<1>2. \A q \in Ticks : Triggered(q)' <=> (IF q = k THEN by = "trigger" ELSE Triggered(q))
  BY <1>1 DEF Triggered
<1>3. ~Triggered(k)
  BY DEF Begin, Started, NotRunning, Triggered
<1>4. CASE by = "schedule"
  <2>1. UNCHANGED RUNNING /\ \A q \in Ticks : Triggered(q)' <=> Triggered(q)
    BY <1>2, <1>3, <1>4 DEF Begin
  <2> QED BY <1>1, <2>1 DEF MutexHeldByOneTrigger
<1>5. CASE by = "trigger"
  <2>1. ~RUNNING[JobOf[k]] /\ RUNNING' = [RUNNING EXCEPT ![JobOf[k]] = TRUE]
    BY <1>5 DEF Begin
  <2>2. \A q \in Ticks : Triggered(q) => JobOf[q] # JobOf[k]
    BY <1>0, <2>1 DEF MutexHeldByOneTrigger
  <2>3. \A q \in Ticks : Triggered(q)' <=> q = k \/ Triggered(q)
    BY <1>2, <1>5
  <2> QED BY <1>0, <1>1, <2>1, <2>2, <2>3 DEF MutexHeldByOneTrigger
<1> QED
  BY <1>4, <1>5

\* A tick that ends clears the flag if it was requested, and no other tick holds it.
LEMMA EndMutex ==
    ASSUME MutexInv, NEW k \in Ticks, NEW ok, NEW entry, End(k, ok, entry)
    PROVE  MutexInv'
<1> USE DEF MutexInv, RunType
<1>0. JobOf \in [Ticks -> Jobs]
  BY JobServerAssumption
<1>1. /\ runs' = [runs EXCEPT ![k] = NotRunning]
      /\ runs' \in [Ticks -> RunType]
      /\ console' \in Ticks \cup {"stdout"}
  BY DEF End, NotRunning, Restored
<1>2. \A q \in Ticks : Triggered(q)' <=> q # k /\ Triggered(q)
  BY <1>1 DEF Triggered, NotRunning
<1>3. CASE Triggered(k)
  <2>1. RUNNING' = [RUNNING EXCEPT ![JobOf[k]] = FALSE]
    BY <1>3 DEF End, Freed
  <2>2. \A q \in Ticks : Triggered(q) /\ q # k => JobOf[q] # JobOf[k]
    BY <1>0, <1>3 DEF MutexHeldByOneTrigger
  <2> QED BY <1>0, <1>1, <1>2, <2>1, <2>2 DEF MutexHeldByOneTrigger
<1>4. CASE ~Triggered(k)
  <2>1. UNCHANGED RUNNING
    BY <1>4 DEF End, Freed
  <2>2. \A q \in Ticks : Triggered(q)' <=> Triggered(q)
    BY <1>2, <1>4
  <2> QED BY <1>1, <2>1, <2>2 DEF MutexHeldByOneTrigger
<1> QED
  BY <1>3, <1>4

\* MutexInv is inductive.
LEMMA NextMutexInv == MutexInv /\ [RepricerNext]_allVars => MutexInv'
<1> SUFFICES ASSUME MutexInv, [RepricerNext]_allVars PROVE MutexInv'
  OBVIOUS
<1>1. ASSUME UNCHANGED serverVars PROVE MutexInv'
  BY <1>1 DEF serverVars, MutexInv, MutexHeldByOneTrigger, Triggered
<1>2. ASSUME NEW k \in Ticks, StartNext(k) PROVE MutexInv'
  BY <1>2, BeginMutex DEF StartNext, StartTick
<1>3. ASSUME NEW k \in Ticks, TickNext(k) PROVE MutexInv'
  <2>1. CASE Throws(k)
    BY <2>1, EndMutex DEF Throws
  <2>2. CASE EndTick(k)
    BY <2>2, EndMutex DEF EndTick
  <2>3. CASE ReadRoutes(k) \/ AgentFails(k) \/ Decide(k) \/ Confirmed(k) \/ GivenUp(k)
    BY <1>1, <2>3 DEF ReadRoutes, AgentFails, Decide, Confirmed, GivenUp
  <2> QED BY <1>3, <2>1, <2>2, <2>3 DEF TickNext
<1>4. CASE Restart
  BY <1>4 DEF Restart, ServerRestart, MutexInv, MutexHeldByOneTrigger, Triggered,
              NotRunning, RunType
<1>5. ASSUME NEW tx \in late, LandsLate(tx) \/ Expires(tx) PROVE MutexInv'
  BY <1>1, <1>5 DEF LandsLate, Expires
<1>6. CASE PeopleNext
  BY <1>1, <1>6
  DEF PeopleNext, DisableRoute, WhitelistRoute, UpdateRouteTerms, SetDefaults
<1>7. CASE UNCHANGED allVars
  BY <1>1, <1>7 DEF allVars
<1> QED
  BY <1>2, <1>3, <1>4, <1>5, <1>6, <1>7 DEF RepricerNext

\* The mutex of a job is held exactly while a requested tick of it runs, for any
\* number of jobs and ticks, whatever the schedule starts, throws or is
\* restarted.  (server.ts, trigger and its .finally)
THEOREM MutexIsSound == RepricerSpec => []MutexHeldByOneTrigger
<1>1. RepricerInit => MutexInv
  BY DEF RepricerInit, ServerInit, MutexInv, MutexHeldByOneTrigger, Triggered,
         NotRunning, RunType
<1>2. MutexInv => MutexHeldByOneTrigger
  BY DEF MutexInv
<1> QED
  BY <1>1, <1>2, NextMutexInv, PTL DEF RepricerSpec

-----------------------------------------------------------------------------
(* The console of the process. *)

\* s lists the running ticks in the order in which they started: each found the
\* console of the one before it, the first found stdout, and the last has it.
IsStack(n, s) ==
    /\ \A k \in Ticks : Started(k) <=> \E i \in 1 .. n : s[i] = k
    /\ \A i, j \in 1 .. n : s[i] = s[j] => i = j
    /\ \A i \in 1 .. n : runs[s[i]].saved = IF i = 1 THEN "stdout" ELSE s[i - 1]
    /\ console = IF n = 0 THEN "stdout" ELSE s[n]

ConsoleInv == ~crossed => \E n \in Nat : \E s \in [1 .. n -> Ticks] : IsStack(n, s)

\* With no tick running the list is empty.
LEMMA EmptyStack ==
    console = "stdout" /\ (\A k \in Ticks : ~Started(k)) => ConsoleInv
<1> SUFFICES ASSUME console = "stdout", \A k \in Ticks : ~Started(k)
             PROVE  ConsoleInv
  OBVIOUS
<1> DEFINE s == [i \in 1 .. 0 |-> "stdout"]
<1>1. s \in [1 .. 0 -> Ticks]
  OBVIOUS
<1>2. IsStack(0, s)
  BY DEF IsStack
<1> HIDE DEF s
<1> QED
  BY <1>1, <1>2 DEF ConsoleInv

\* A tick that starts is the last of the list.
LEMMA BeginConsole ==
    ASSUME MutexInv, ConsoleInv, NEW k \in Ticks, NEW by \in {"schedule", "trigger"},
           Begin(k, by)
    PROVE  ConsoleInv'
<1> SUFFICES ASSUME ~crossed'
             PROVE  \E n \in Nat : \E s \in [1 .. n -> Ticks] : IsStack(n, s)'
  BY DEF ConsoleInv
<1>1. /\ ~Started(k) /\ console' = k
      /\ runs' = [runs EXCEPT ![k] = [by |-> by, saved |-> console]]
      /\ runs \in [Ticks -> RunType] /\ ~crossed
  BY DEF Begin, MutexInv
<1>2. PICK n \in Nat : \E s \in [1 .. n -> Ticks] : IsStack(n, s)
  BY <1>1 DEF ConsoleInv
<1>3. PICK s \in [1 .. n -> Ticks] : IsStack(n, s)
  BY <1>2
<1> DEFINE m == n + 1
           t == [i \in 1 .. m |-> IF i = m THEN k ELSE s[i]]
<1>4. /\ t \in [1 .. m -> Ticks] /\ m \in Nat /\ m # 0 /\ t[m] = k
      /\ \A i \in 1 .. n : t[i] = s[i] /\ s[i] \in Ticks
      /\ \A i \in 1 .. m : i = m \/ i \in 1 .. n
  OBVIOUS
<1>5. \A i \in 1 .. n : s[i] # k
  BY <1>1, <1>3 DEF IsStack
<1>6. \A q \in Ticks : Started(q)' <=> q = k \/ Started(q)
  BY <1>1 DEF Started, NotRunning
<1>7. /\ runs'[k].saved = console
      /\ \A i \in 1 .. n : runs'[s[i]].saved = runs[s[i]].saved
  BY <1>1, <1>4, <1>5
<1> HIDE DEF t
<1>8. \A q \in Ticks : Started(q)' <=> \E i \in 1 .. m : t[i] = q
  <2>1. \A q \in Ticks : Started(q) <=> \E i \in 1 .. n : s[i] = q
    BY <1>3 DEF IsStack
  <2>2. \A q \in Ticks : (\E i \in 1 .. m : t[i] = q) <=> q = k \/ \E i \in 1 .. n : s[i] = q
    <3>1. m \in 1 .. m /\ \A i \in 1 .. n : i \in 1 .. m
      BY <1>4
    <3> HIDE DEF m
    <3> QED BY <1>4, <3>1
  <2> QED BY <1>6, <2>1, <2>2
<1>9. \A i, j \in 1 .. m : t[i] = t[j] => i = j
  <2>1. \A i, j \in 1 .. n : s[i] = s[j] => i = j
    BY <1>3 DEF IsStack
  <2> HIDE DEF m
  <2> QED
    BY <1>4, <1>5, <2>1
<1>10. \A i \in 1 .. m : runs'[t[i]].saved = IF i = 1 THEN "stdout" ELSE t[i - 1]
  <2> SUFFICES ASSUME NEW i \in 1 .. m
               PROVE  runs'[t[i]].saved = IF i = 1 THEN "stdout" ELSE t[i - 1]
    OBVIOUS
  <2>1. CASE i = m
    <3>1. runs'[t[i]].saved = console
      BY <1>4, <1>7, <2>1
    <3>2. CASE n = 0
      BY <1>3, <2>1, <3>1, <3>2 DEF IsStack
    <3>3. CASE n # 0
      <4>1. i - 1 = n /\ i # 1 /\ n \in 1 .. n
        BY <2>1, <3>3
      <4>2. t[i - 1] = s[n] /\ console = s[n]
        BY <1>3, <1>4, <3>3, <4>1 DEF IsStack
      <4> QED
        BY <3>1, <4>1, <4>2
    <3> QED
      BY <3>2, <3>3
  <2>2. CASE i \in 1 .. n
    <3>1. runs'[t[i]].saved = IF i = 1 THEN "stdout" ELSE s[i - 1]
      BY <1>3, <1>4, <1>7, <2>2 DEF IsStack
    <3>2. i # 1 => i - 1 \in 1 .. n
      BY <2>2
    <3> QED
      BY <1>4, <3>1, <3>2
  <2> QED
    BY <1>4, <2>1, <2>2
<1>11. IsStack(m, t)'
  BY <1>1, <1>4, <1>8, <1>9, <1>10 DEF IsStack
<1> QED
  BY <1>4, <1>11

\* A tick that has the console is the last of the list; those before it stay.
LEMMA EndConsole ==
    ASSUME MutexInv, ConsoleInv, NEW k \in Ticks, NEW ok, NEW entry, End(k, ok, entry)
    PROVE  ConsoleInv'
<1> SUFFICES ASSUME ~crossed'
             PROVE  \E n \in Nat : \E s \in [1 .. n -> Ticks] : IsStack(n, s)'
  BY DEF ConsoleInv
<1>1. /\ Started(k) /\ console' = runs[k].saved
      /\ runs' = [runs EXCEPT ![k] = NotRunning]
      /\ runs \in [Ticks -> RunType] /\ ~crossed /\ console = k
  BY DEF End, Restored, MutexInv
<1>2. PICK n \in Nat : \E s \in [1 .. n -> Ticks] : IsStack(n, s)
  BY <1>1 DEF ConsoleInv
<1>3. PICK s \in [1 .. n -> Ticks] : IsStack(n, s)
  BY <1>2
<1>4. n # 0 /\ s[n] = k
  <2>1. \E i \in 1 .. n : s[i] = k
    BY <1>1, <1>3 DEF IsStack
  <2> QED
    BY <1>1, <1>3, <2>1 DEF IsStack
<1> DEFINE m == n - 1
           t == [i \in 1 .. m |-> s[i]]
<1>5. /\ t \in [1 .. m -> Ticks] /\ m \in Nat
      /\ \A i \in 1 .. m : t[i] = s[i] /\ i \in 1 .. n /\ i # n
      /\ \A i \in 1 .. n : i = n \/ i \in 1 .. m
      /\ n \in 1 .. n
  BY <1>4
<1>6. \A i \in 1 .. m : s[i] # k /\ s[i] \in Ticks
  BY <1>3, <1>4, <1>5 DEF IsStack
<1>7. \A q \in Ticks : Started(q)' <=> q # k /\ Started(q)
  BY <1>1 DEF Started, NotRunning
<1>8. \A i \in 1 .. m : runs'[s[i]].saved = runs[s[i]].saved
  BY <1>1, <1>6
<1> HIDE DEF t, m
<1>9. \A q \in Ticks : Started(q)' <=> \E i \in 1 .. m : t[i] = q
  BY <1>3, <1>4, <1>5, <1>6, <1>7 DEF IsStack
<1>10. \A i, j \in 1 .. m : t[i] = t[j] => i = j
  BY <1>3, <1>5 DEF IsStack
<1>11. \A i \in 1 .. m : runs'[t[i]].saved = IF i = 1 THEN "stdout" ELSE t[i - 1]
  <2> SUFFICES ASSUME NEW i \in 1 .. m
               PROVE  runs'[t[i]].saved = IF i = 1 THEN "stdout" ELSE t[i - 1]
    OBVIOUS
  <2>1. runs'[t[i]].saved = IF i = 1 THEN "stdout" ELSE s[i - 1]
    BY <1>3, <1>5, <1>8 DEF IsStack
  <2>2. i # 1 => i - 1 \in 1 .. m
    BY <1>5
  <2> QED
    BY <1>5, <2>1, <2>2
<1>12. console' = IF m = 0 THEN "stdout" ELSE t[m]
  <2>1. console' = IF n = 1 THEN "stdout" ELSE s[n - 1]
    BY <1>1, <1>3, <1>4, <1>5 DEF IsStack
  <2>2. CASE n = 1
    BY <2>1, <2>2 DEF m
  <2>3. CASE n # 1
    <3>1. m # 0 /\ m \in 1 .. m /\ n - 1 = m
      BY <1>4, <2>3 DEF m
    <3> QED
      BY <1>5, <2>1, <2>3, <3>1
  <2> QED
    BY <2>2, <2>3
<1>13. IsStack(m, t)'
  BY <1>9, <1>10, <1>11, <1>12 DEF IsStack
<1> QED
  BY <1>5, <1>13

\* ConsoleInv is inductive.
LEMMA NextConsoleInv == MutexInv /\ ConsoleInv /\ [RepricerNext]_allVars => ConsoleInv'
<1> SUFFICES ASSUME MutexInv, ConsoleInv, [RepricerNext]_allVars PROVE ConsoleInv'
  OBVIOUS
<1>1. ASSUME UNCHANGED serverVars PROVE ConsoleInv'
  BY <1>1 DEF serverVars, ConsoleInv, IsStack, Started
<1>2. ASSUME NEW k \in Ticks, StartNext(k) PROVE ConsoleInv'
  BY <1>2, BeginConsole DEF StartNext, StartTick
<1>3. ASSUME NEW k \in Ticks, TickNext(k) PROVE ConsoleInv'
  <2>1. CASE Throws(k)
    BY <2>1, EndConsole DEF Throws
  <2>2. CASE EndTick(k)
    BY <2>2, EndConsole DEF EndTick
  <2>3. CASE ReadRoutes(k) \/ AgentFails(k) \/ Decide(k) \/ Confirmed(k) \/ GivenUp(k)
    BY <1>1, <2>3 DEF ReadRoutes, AgentFails, Decide, Confirmed, GivenUp
  <2> QED
    BY <1>3, <2>1, <2>2, <2>3 DEF TickNext
<1>4. CASE Restart
  <2>1. (console = "stdout" /\ \A k \in Ticks : ~Started(k))'
    BY <1>4 DEF Restart, ServerRestart, Started
  <2> QED
    BY <2>1, EmptyStack, PTL
<1>5. ASSUME NEW tx \in late, LandsLate(tx) \/ Expires(tx) PROVE ConsoleInv'
  BY <1>1, <1>5 DEF LandsLate, Expires
<1>6. CASE PeopleNext
  BY <1>1, <1>6
  DEF PeopleNext, DisableRoute, WhitelistRoute, UpdateRouteTerms, SetDefaults
<1>7. CASE UNCHANGED allVars
  BY <1>1, <1>7 DEF allVars
<1> QED
  BY <1>2, <1>3, <1>4, <1>5, <1>6, <1>7 DEF RepricerNext

\* Ticks that nest leave the console as they found it, however deep they nest
\* and whichever of them throw: the console is stdout when none runs, and a
\* running tick's sink otherwise.  (server.ts, captureConsole)
THEOREM ConsoleIsRestored == RepricerSpec => []ConsoleRestored
<1>1. RepricerInit => MutexInv
  BY DEF RepricerInit, ServerInit, MutexInv, MutexHeldByOneTrigger, Triggered,
         NotRunning, RunType
<1>2. RepricerInit => ConsoleInv
  <2> SUFFICES ASSUME RepricerInit PROVE ConsoleInv
    OBVIOUS
  <2>1. console = "stdout" /\ \A k \in Ticks : ~Started(k)
    BY DEF RepricerInit, ServerInit, Started
  <2> QED
    BY <2>1, EmptyStack
<1>3. ConsoleInv => ConsoleRestored
  <2> SUFFICES ASSUME ConsoleInv, ~crossed
               PROVE  IF \E k \in Ticks : Started(k)
                      THEN console \in Ticks /\ Started(console)
                      ELSE console = "stdout"
    BY DEF ConsoleRestored
  <2>1. PICK n \in Nat : \E s \in [1 .. n -> Ticks] : IsStack(n, s)
    BY DEF ConsoleInv
  <2>2. PICK s \in [1 .. n -> Ticks] : IsStack(n, s)
    BY <2>1
  <2>3. CASE n = 0
    BY <2>2, <2>3 DEF IsStack
  <2>4. CASE n # 0
    <3>1. n \in 1 .. n
      BY <2>4
    <3> QED
      BY <2>2, <2>4, <3>1 DEF IsStack
  <2> QED
    BY <2>3, <2>4
<1> QED
  BY <1>1, <1>2, <1>3, NextMutexInv, NextConsoleInv, PTL DEF RepricerSpec
=============================================================================
