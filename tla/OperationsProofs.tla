-------------------------- MODULE OperationsProofs --------------------------
(***************************************************************************)
(* Theorems about bringing the programs up, for any keys, mints, routes    *)
(* and admins, and any number of runs, failures and rotations.             *)
(***************************************************************************)
EXTENDS Operations, GovernanceProofs, FiniteSetTheorems

(* The inductive invariant: what the runs of deploy.ts and the transactions *)
(* they left in flight may carry, besides the types.  A deployment that was *)
(* verified stays complete because no instruction of it can succeed again.  *)

StepType ==
    [kind : {"initialize"}, program : Programs]
       \cup [kind : {"wire"}, program : Consumers]

ScriptType ==
    {NoScript} \cup [step : 1 .. Len(Steps) + 1, args : DeployArgs, clients : Clients]

SeedType == [kind : {"seed"}, by : Seeders, route : Routes]

DeployTxType ==
    [ kind : {"initialize"}, program : Programs, args : DeployArgs, clients : Clients ]
       \cup
    [ kind : {"wire"}, program : Consumers, args : DeployArgs, clients : Clients ]

OperationsInv ==
    /\ OperationsTypeOK
    /\ script \in ScriptType
    /\ late \subseteq SeedType \cup DeployTxType
    /\ VerifiedIsWired
    /\ CountMatchesRoutes

Existing(g) == {r \in Routes : g.routes[r].exists}

\* The steps of deploy.ts are instructions of programs it knows.
LEMMA StepsType ==
    ASSUME NEW i \in 1 .. Len(Steps)
    PROVE  Steps[i] \in StepType
<1>1. Len(Steps) = 8
  BY DEF Steps
<1>2. i \in {1, 2, 3, 4, 5, 6, 7, 8}
  BY <1>1
<1> QED
  BY <1>2 DEF Steps, Create, Wire, StepType, Programs, Consumers

\* What the instructions leave, and that none of them undoes a complete wiring.
LEMMA InitializeAccounts ==
    ASSUME NEW acc \in AccountsType, NEW program \in Programs,
           NEW args \in DeployArgs, NEW clients \in Clients,
           NEW after \in initialize(acc, program, args, clients)
    PROVE  after \in AccountsType /\ program \notin acc.ready
<1>1. /\ args.mint \in Mints /\ args.oracle \in Keys /\ args.keeper \in Keys
      /\ clients \in {"v1", Fresh}
  BY OperationsAssumption
<1>2. /\ program \notin acc.ready
      /\ after = [acc EXCEPT
             !.ready = acc.ready \cup {program},
             !.mint = [p \in WithMint |-> IF p = program THEN args.mint ELSE acc.mint[p]],
             !.oracle = IF program = "oracle" THEN args.oracle ELSE acc.oracle,
             !.keeper = IF program = "controller" THEN args.keeper ELSE acc.keeper,
             !.pointer = IF program = "controller" THEN clients ELSE acc.pointer]
  BY DEF initialize, When
<1>3. [p \in WithMint |-> IF p = program THEN args.mint ELSE acc.mint[p]]
         \in [WithMint -> Mints \cup {Unset}]
  BY <1>1 DEF AccountsType
<1> QED
  BY <1>1, <1>2, <1>3 DEF AccountsType

\* set_controller wires one consumer that was not wired, and keeps the types.
LEMMA WireAccounts ==
    ASSUME NEW acc \in AccountsType, NEW program \in Consumers,
           NEW after \in set_controller(acc, program)
    PROVE  after \in AccountsType /\ program \notin acc.consumers
BY DEF set_controller, When, AccountsType

\* Rotating a key touches neither mint, nor initialization, nor wiring.
LEMMA KeyAccounts ==
    ASSUME NEW acc \in AccountsType, NEW key \in Keys,
           NEW after \in set_authorized_keeper(acc, key)
                            \cup set_authorized_oracle(acc, key)
    PROVE  /\ after \in AccountsType /\ after.ready = acc.ready
           /\ after.consumers = acc.consumers /\ after.mint = acc.mint
BY DEF set_authorized_keeper, set_authorized_oracle, When, AccountsType

\* Nor does the repair of the oracle pointer.
LEMMA RepairAccounts ==
    ASSUME NEW acc \in AccountsType,
           NEW after \in repair_oracle_config_pointer(acc, Fresh)
    PROVE  /\ after \in AccountsType /\ after.ready = acc.ready
           /\ after.consumers = acc.consumers /\ after.mint = acc.mint
BY DEF repair_oracle_config_pointer, When, AccountsType

\* A step of deploy.ts, at once or late, leaves accounts of their type, and
\* cannot succeed once all programs are initialized and wired.
LEMMA StepEffectAccounts ==
    ASSUME accounts \in AccountsType, NEW step,
           \/ step.kind = "initialize" /\ step.program \in Programs
           \/ step.kind = "wire" /\ step.program \in Consumers,
           NEW args \in DeployArgs, NEW clients \in Clients,
           NEW after \in StepEffect(step, args, clients)
    PROVE  after \in AccountsType /\ ~AllWired
<1>1. ~IsStale(step, clients)
  BY DEF StepEffect
<1>2. CASE step.kind = "initialize"
  <2>1. after \in initialize(accounts, step.program, args, clients)
    BY <1>1, <1>2 DEF StepEffect
  <2> QED BY <1>2, <2>1, InitializeAccounts DEF AllWired
<1>3. CASE step.kind = "wire"
  <2>1. after \in set_controller(accounts, step.program)
    BY <1>1, <1>3 DEF StepEffect
  <2> QED BY <1>3, <2>1, WireAccounts DEF AllWired
<1> QED
  BY <1>2, <1>3

\* OperationsInv holds of an empty chain.
LEMMA InitOperationsInv == OperationsInit => OperationsInv
<1> SUFFICES ASSUME OperationsInit PROVE OperationsInv
  OBVIOUS
<1>1. governance \in GovernanceType
  BY InitializeType, OperationsAssumption DEF OperationsInit
<1>2. accounts \in AccountsType
  BY DEF OperationsInit, NoAccounts, AccountsType
<1>3. faults \in 0 .. MaxFaults /\ rotations \in 0 .. MaxRotations
  BY OperationsAssumption DEF OperationsInit
<1>4. script \in ScriptType /\ late \subseteq SeedType \cup DeployTxType
  BY DEF OperationsInit, ScriptType
<1>5. artifact = FALSE /\ seeding \in [Seeders -> Routes \cup {Idle}]
  BY DEF OperationsInit
<1>6. CountMatchesRoutes
  <2>1. governance.route_count = 0 /\ Existing(governance) = {}
    BY DEF OperationsInit, initialize_governance, NoRoute, Existing
  <2> QED BY <2>1, FS_EmptySet DEF CountMatchesRoutes, Existing
<1> QED
  BY <1>1, <1>2, <1>3, <1>4, <1>5, <1>6
  DEF OperationsInv, OperationsTypeOK, VerifiedIsWired

\* A route that is whitelisted is counted when it is new, and only then.
LEMMA WhitelistCounts ==
    ASSUME OperationsInv, NEW caller, NEW r \in Routes, NEW overrides \in OverridesType,
           governance' \in whitelist_route(governance, caller, r, overrides)
    PROVE  governance' \in GovernanceType /\ CountMatchesRoutes'
<1>1. governance \in GovernanceType
  BY DEF OperationsInv, OperationsTypeOK
<1>2. /\ governance' \in GovernanceType /\ governance'.routes[r].exists
      /\ \A q \in Routes \ {r} : governance'.routes[q] = governance.routes[q]
      /\ governance'.route_count =
            IF governance.routes[r].exists THEN governance.route_count
                                           ELSE governance.route_count + 1
  <2>1. PICK g \in GovernanceType : g = governance
    BY <1>1
  <2>2. PICK h : h = governance'
    OBVIOUS
  <2>3. h \in whitelist_route(g, caller, r, overrides)
    BY <2>1, <2>2
  <2>4. /\ h \in GovernanceType /\ h.routes[r].exists
        /\ \A q \in Routes \ {r} : h.routes[q] = g.routes[q]
    BY <2>3, WhitelistRouteType
  <2>5. /\ g.routes[r].exists => h.route_count = g.route_count
        /\ ~g.routes[r].exists => h.route_count = g.route_count + 1
    BY <2>3, WhitelistRouteCounts
  <2> QED BY <2>1, <2>2, <2>4, <2>5
<1>3. Existing(governance') = Existing(governance) \cup {r}
  BY <1>2 DEF Existing
<1>4. IsFiniteSet(Existing(governance))
  <2>1. Existing(governance) \in SUBSET Routes
    BY DEF Existing
  <2> QED BY <2>1, FS_Subset, OperationsAssumption
<1>5. Cardinality(Existing(governance')) =
         IF r \in Existing(governance) THEN Cardinality(Existing(governance))
                                       ELSE Cardinality(Existing(governance)) + 1
  BY <1>3, <1>4, FS_AddElement
<1>6. governance.route_count = Cardinality(Existing(governance))
  BY DEF OperationsInv, CountMatchesRoutes, Existing
<1>7. governance'.route_count = Cardinality(Existing(governance'))
  BY <1>2, <1>5, <1>6 DEF Existing
<1> QED
  BY <1>2, <1>7 DEF CountMatchesRoutes, Existing

\* The same routes are as many.
LEMMA SameRoutes ==
    ASSUME OperationsInv, governance'.route_count = governance.route_count,
           \A r \in Routes : governance'.routes[r].exists = governance.routes[r].exists
    PROVE  CountMatchesRoutes'
<1>1. {r \in Routes : governance'.routes[r].exists}
         = {r \in Routes : governance.routes[r].exists}
  OBVIOUS
<1> QED
  BY <1>1 DEF OperationsInv, CountMatchesRoutes

\* The account fields VerifiedIsWired reads decide it.
LEMMA SameWiring ==
    ASSUME OperationsInv, UNCHANGED artifact,
           \/ UNCHANGED accounts
           \/ /\ accounts'.ready = accounts.ready
              /\ accounts'.consumers = accounts.consumers
              /\ accounts'.mint = accounts.mint
           \/ ~AllWired
    PROVE  VerifiedIsWired'
BY DEF OperationsInv, VerifiedIsWired, AllWired, OneMint

\* Every step of deploy.ts keeps OperationsInv.
LEMMA DeployStepsInv == OperationsInv /\ DeployNext => OperationsInv'
<1> SUFFICES ASSUME OperationsInv, DeployNext PROVE OperationsInv'
  OBVIOUS
<1>c. UNCHANGED <<governance, seeding>> /\ CountMatchesRoutes'
  <2>1. UNCHANGED <<governance, seeding>>
    BY DEF DeployNext, StartDeploy, DeployStep, DeployReverts, Verify
  <2> QED BY <2>1, SameRoutes
<1> USE <1>c DEF OperationsInv, OperationsTypeOK
<1>0. ASSUME AtStep
      PROVE  /\ script.step \in 1 .. Len(Steps) /\ script.args \in DeployArgs
             /\ script.clients \in Clients
             /\ [script EXCEPT !.step = @ + 1] \in ScriptType
             /\ Step \in StepType
  <2>1. script \in [step : 1 .. Len(Steps) + 1, args : DeployArgs, clients : Clients]
    BY <1>0 DEF AtStep, Running, ScriptType
  <2>2. Len(Steps) = 8
    BY DEF Steps
  <2>3. script.step \in 1 .. Len(Steps)
    BY <1>0, <2>1, <2>2 DEF AtStep
  <2>4. Step \in StepType
    BY <2>3, StepsType DEF Step
  <2> QED BY <2>1, <2>2, <2>3, <2>4 DEF ScriptType
<1>1. ASSUME NEW args \in DeployArgs, NEW clients \in Clients,
             StartDeploy(args, clients)
      PROVE  OperationsInv'
  <2>1. script' \in ScriptType
    <3>1. Len(Steps) = 8
      BY DEF Steps
    <3> QED BY <1>1, <3>1 DEF StartDeploy, ScriptType
  <2>2. VerifiedIsWired'
    BY <1>1, SameWiring DEF StartDeploy
  <2> QED BY <1>1, <2>1, <2>2 DEF StartDeploy, ScriptType, SeedType, DeployTxType
<1>2. CASE DeployStep
  <2>1. AtStep /\ script' \in ScriptType
    BY <1>2, <1>0 DEF DeployStep
  <2>2. CASE AlreadyDone(Step, script.clients)
    <3>1. UNCHANGED <<now, governance, accounts, artifact, late, faults, rotations>>
      BY <1>2, <2>2 DEF DeployStep
    <3> QED BY <2>1, <3>1, SameWiring
  <2>3. CASE ~AlreadyDone(Step, script.clients)
    <3>1. accounts' \in StepEffect(Step, script.args, script.clients)
      BY <1>2, <2>3 DEF DeployStep
    <3>2. accounts' \in AccountsType /\ ~AllWired
      BY <1>0, <2>1, <3>1, StepEffectAccounts DEF StepType
    <3>3. VerifiedIsWired'
      BY <1>2, <3>2, SameWiring DEF DeployStep
    <3> QED BY <1>2, <2>1, <3>2, <3>3 DEF DeployStep
  <2> QED BY <2>2, <2>3
<1>3. CASE DeployReverts
  <2>1. UNCHANGED <<governance, accounts, artifact, late, rotations>> /\ script' = NoScript
    BY <1>3 DEF DeployReverts
  <2>2. faults' \in 0 .. MaxFaults
    BY <1>3, OperationsAssumption DEF DeployReverts, Fault
  <2> QED BY <2>1, <2>2, SameWiring DEF ScriptType
<1>4. CASE Verify
  <2>1. UNCHANGED <<governance, accounts, late, faults, rotations>> /\ script' = NoScript
    BY <1>4 DEF Verify
  <2>2. artifact' = (artifact \/ Verified(script.args, script.clients))
    BY <1>4 DEF Verify
  <2>3. Verified(script.args, script.clients) => AllWired /\ OneMint
    BY DEF Verified, AllWired, OneMint
  <2>4. VerifiedIsWired'
    BY <2>1, <2>2, <2>3 DEF VerifiedIsWired, AllWired, OneMint
  <2>5. artifact' \in BOOLEAN
    BY <2>2
  <2> QED BY <2>1, <2>4, <2>5 DEF ScriptType
<1> QED
  BY <1>1, <1>2, <1>3, <1>4 DEF DeployNext

\* So does every other step: rotations, the repair, the admin page, seed-routes.ts
\* and the late transactions.
LEMMA OtherStepsInv ==
    ASSUME OperationsInv,
           \/ Rotate \/ Repair \/ AdminPage \/ DisableRoute \/ DeployFails
           \/ SeedNext
           \/ \E tx \in late : LandsLate(tx) \/ Expires(tx)
    PROVE  OperationsInv'
<1> USE DEF OperationsInv, OperationsTypeOK
<1>1. CASE Rotate
  <2>1. PICK key \in Keys :
           accounts' \in set_authorized_keeper(accounts, key)
                            \cup set_authorized_oracle(accounts, key)
    BY <1>1 DEF Rotate
  <2>2. accounts' \in AccountsType /\ VerifiedIsWired'
    BY <1>1, <2>1, KeyAccounts, SameWiring DEF Rotate
  <2>3. CountMatchesRoutes'
    BY <1>1, SameRoutes DEF Rotate
  <2> QED BY <1>1, <2>2, <2>3, OperationsAssumption DEF Rotate
<1>2. CASE Repair
  <2>1. accounts' \in AccountsType /\ VerifiedIsWired'
    BY <1>2, RepairAccounts, SameWiring DEF Repair
  <2>2. CountMatchesRoutes'
    BY <1>2, SameRoutes DEF Repair
  <2> QED BY <1>2, <2>1, <2>2 DEF Repair
<1>5. NoOverrides \in OverridesType
  BY DEF NoOverrides, OverridesType
<1>3. CASE AdminPage \/ DisableRoute
  <2>1. governance' \in GovernanceType /\ CountMatchesRoutes'
    <3>1. CASE SetDefaults
      <4>1. PICK terms \in NewDefaults : governance' \in set_defaults(governance, terms)
        BY <3>1 DEF SetDefaults
      <4>2. terms \in ResolvedTerms
        BY <4>1, OperationsAssumption
      <4> QED BY <4>1, <4>2, SetDefaultsType, SameRoutes
    <3>2. CASE AddAdmin
      BY <3>2, AddAdminType, SameRoutes DEF AddAdmin
    <3>3. CASE RemoveAdmin
      BY <3>3, RemoveAdminType, SameRoutes DEF RemoveAdmin
    <3>4. CASE AddRoute
      <4>1. PICK admin \in Admins, r \in Routes, overrides \in NewOverrides :
               governance' \in whitelist_route(governance, admin, r, overrides)
        BY <3>4 DEF AddRoute
      <4>2. overrides \in OverridesType
        BY <4>1, OperationsAssumption
      <4> QED BY <4>1, <4>2, WhitelistCounts
    <3>5. CASE DisableRoute
      <4>1. PICK caller \in Admins \cup {Owner}, r \in Routes :
               governance' \in disable_route(governance, caller, r)
        BY <3>5 DEF DisableRoute
      <4>2. \A g \in GovernanceType : \A h \in disable_route(g, caller, r) :
               /\ h \in GovernanceType /\ h.route_count = g.route_count
               /\ \A q \in Routes : h.routes[q].exists = g.routes[q].exists
        BY DisableRouteCounts
      <4> QED BY <4>1, <4>2, SameRoutes
    <3> QED BY <1>3, <3>1, <3>2, <3>3, <3>4, <3>5 DEF AdminPage
  <2>2. UNCHANGED <<accounts, script, artifact, seeding, late, faults, rotations>>
    BY <1>3 DEF AdminPage, DisableRoute
  <2> QED BY <2>1, <2>2, SameWiring
<1>4. CASE DeployFails
  <2>1. UNCHANGED <<governance, accounts, artifact, seeding, rotations>> /\ script' = NoScript
    BY <1>4 DEF DeployFails
  <2>2. faults' \in 0 .. MaxFaults
    BY <1>4, OperationsAssumption DEF DeployFails, Fault
  <2>3. ASSUME AtStep PROVE InFlight \in DeployTxType
    <3>1. script \in [step : 1 .. Len(Steps) + 1, args : DeployArgs, clients : Clients]
      BY <2>3 DEF AtStep, Running, ScriptType
    <3>2. script.step \in 1 .. Len(Steps)
      BY <2>3, <3>1 DEF AtStep, Steps
    <3>3. Step \in StepType
      BY <3>2, StepsType DEF Step
    <3> QED BY <3>1, <3>3 DEF InFlight, DeployTxType, StepType
  <2>4. late' \subseteq SeedType \cup DeployTxType
    BY <1>4, <2>3 DEF DeployFails
  <2> QED BY <2>1, <2>2, <2>4, SameWiring, SameRoutes DEF ScriptType
<1>6. ASSUME NEW s \in Seeders, seeding[s] # Idle PROVE seeding[s] \in Routes
  BY <1>6
<1>7. CASE SeedNext
  <2>1. PICK s \in Seeders :
           \/ \E r \in Routes : LookSeed(s, r)
           \/ SeedLands(s) \/ SeedLost(s) \/ SeedGivenUp(s)
    BY <1>7 DEF SeedNext
  <2>2. /\ UNCHANGED <<accounts, script, artifact, rotations>> /\ VerifiedIsWired'
        /\ seeding' \in [Seeders -> Routes \cup {Idle}]
    <3>1. UNCHANGED <<accounts, script, artifact, rotations>>
      BY <2>1 DEF LookSeed, SeedLands, SeedLost, SeedGivenUp
    <3>2. seeding' \in [Seeders -> Routes \cup {Idle}]
      BY <2>1 DEF LookSeed, SeedLands, SeedLost, SeedGivenUp
    <3> QED BY <3>1, <3>2, SameWiring
  <2>3. CASE SeedLands(s)
    <3>1. governance' \in GovernanceType /\ CountMatchesRoutes'
      BY <1>5, <1>6, <2>3, WhitelistCounts DEF SeedLands
    <3> QED BY <2>2, <2>3, <3>1 DEF SeedLands
  <2>4. CASE (\E r \in Routes : LookSeed(s, r)) \/ SeedLost(s)
    <3>1. UNCHANGED <<governance, late, faults>>
      BY <2>4 DEF LookSeed, SeedLost
    <3> QED BY <2>2, <3>1, SameRoutes
  <2>5. CASE SeedGivenUp(s)
    <3>1. UNCHANGED governance
      BY <2>5 DEF SeedGivenUp
    <3>2. faults' \in 0 .. MaxFaults
      BY <2>5, OperationsAssumption DEF SeedGivenUp, Fault
    <3>3. late' \subseteq SeedType \cup DeployTxType
      BY <1>6, <2>5 DEF SeedGivenUp, Seed, SeedType
    <3> QED BY <2>2, <3>1, <3>2, <3>3, SameRoutes
  <2> QED BY <2>1, <2>3, <2>4, <2>5
<1>8. ASSUME NEW tx \in late, LandsLate(tx) PROVE OperationsInv'
  <2>1. UNCHANGED <<script, artifact, seeding, faults, rotations>> /\ late' = late \ {tx}
    BY <1>8 DEF LandsLate
  <2>2. CASE tx.kind = "seed"
    <3>1. tx.route \in Routes
      BY <2>2 DEF SeedType, DeployTxType
    <3>2. governance' \in GovernanceType /\ UNCHANGED accounts /\ CountMatchesRoutes'
      BY <1>5, <1>8, <2>2, <3>1, WhitelistCounts DEF LandsLate
    <3> QED BY <2>1, <3>2, SameWiring
  <2>3. CASE tx.kind # "seed"
    <3>1. tx \in DeployTxType
      BY <2>3 DEF SeedType
    <3>2. accounts' \in StepEffect(tx, tx.args, tx.clients) /\ UNCHANGED governance
      BY <1>8, <2>3 DEF LandsLate
    <3>3. accounts' \in AccountsType /\ ~AllWired
      BY <3>1, <3>2, StepEffectAccounts DEF DeployTxType
    <3> QED BY <2>1, <3>2, <3>3, SameWiring, SameRoutes
  <2> QED BY <2>2, <2>3
<1>9. ASSUME NEW tx \in late, Expires(tx) PROVE OperationsInv'
  BY <1>9, SameWiring, SameRoutes DEF Expires
<1> QED
  BY <1>1, <1>2, <1>3, <1>4, <1>7, <1>8, <1>9

\* Every step of Next, and every step that changes nothing, keeps the invariant.
LEMMA NextOperationsInv ==
    OperationsInv /\ [OperationsNext]_operationsVars => OperationsInv'
<1> SUFFICES ASSUME OperationsInv, [OperationsNext]_operationsVars
             PROVE  OperationsInv'
  OBVIOUS
<1>1. CASE DeployNext
  BY <1>1, DeployStepsInv
<1>2. CASE OperationsNext /\ ~DeployNext
  BY <1>2, OtherStepsInv DEF OperationsNext
<1>3. CASE UNCHANGED operationsVars
  <2>1. OperationsTypeOK' /\ script' \in ScriptType
          /\ late' \subseteq SeedType \cup DeployTxType
    BY <1>3 DEF operationsVars, OperationsInv, OperationsTypeOK
  <2>2. VerifiedIsWired' /\ CountMatchesRoutes'
    BY <1>3, SameWiring, SameRoutes DEF operationsVars
  <2> QED BY <2>1, <2>2 DEF OperationsInv
<1> QED
  BY <1>1, <1>2, <1>3

\* The configuration accounts, governance, and the bounds stay of their type.
\* (the programs' initialize, set_controller and key rotations)
THEOREM OperationsTypeCorrect == OperationsSpec => []OperationsTypeOK
<1>1. OperationsInv => OperationsTypeOK
  BY DEF OperationsInv
<1> QED
  BY <1>1, InitOperationsInv, NextOperationsInv, PTL DEF OperationsSpec

\* An artifact of deploy.ts means a complete wiring over one mint, for any
\* arguments, failures, late transactions and rotations.  (deploy.ts,
\* verifyAndArtifact)
THEOREM DeployedIsWired == OperationsSpec => []VerifiedIsWired
<1>1. OperationsInv => VerifiedIsWired
  BY DEF OperationsInv
<1> QED
  BY <1>1, InitOperationsInv, NextOperationsInv, PTL DEF OperationsSpec

\* The count of routes is the number of routes there are, for any routes and
\* admins, whoever whitelists which route again, and any runs of seed-routes.ts
\* that send for the same route or land late.  (governance, is_new in
\* whitelist_route)
THEOREM RoutesAreCounted == OperationsSpec => []CountMatchesRoutes
<1>1. OperationsInv => CountMatchesRoutes
  BY DEF OperationsInv
<1> QED
  BY <1>1, InitOperationsInv, NextOperationsInv, PTL DEF OperationsSpec
=============================================================================
