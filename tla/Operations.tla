----------------------------- MODULE Operations -----------------------------
(***************************************************************************)
(* Bringing the five programs up and keeping their keys: deploy.ts, which  *)
(* initializes and wires them one transaction after the other and is run   *)
(* again when it failed; the scripts that rotate the keeper and the oracle *)
(* and repair the controller's pointer; seed-routes.ts; and what the owner *)
(* of governance and the admins do.  Scripts fail between any two          *)
(* transactions, and one that was given up may land later.                 *)
(*                                                                         *)
(* The cluster holds an older deployment, whose oracle account ("v1") a    *)
(* generated client that is out of date still addresses.                   *)
(***************************************************************************)
EXTENDS Governance, Sequences, FiniteSets

CONSTANTS
    Keys,           \* keys that may sign for the keeper or the oracle
    Mints,          \* PUSD mints
    DeployArgs,     \* bound: --oracle, --keeper and --usdc of a run of deploy.ts
    Clients,        \* bound: the oracle accounts the clients may address
    NewDefaults,    \* bound: default terms the owner sets
    NewOverrides,   \* bound: overrides a person gives a route
    Seeders,        \* bound: runs of seed-routes.ts at a time
    MaxFaults,      \* bound: failures
    MaxRotations    \* bound: rotations of keys

Fresh == "v2"

ASSUME OperationsAssumption ==
    /\ DeployArgs \subseteq [oracle : Keys, keeper : Keys, mint : Mints]
    /\ Clients \subseteq {"v1", Fresh}
    /\ NewDefaults \subseteq ResolvedTerms
    /\ NewOverrides \subseteq OverridesType
    /\ IsFiniteSet(Routes)
    /\ MaxFaults \in Nat
    /\ MaxRotations \in Nat

VARIABLES
    accounts,       \* the programs' configuration accounts
    script,         \* the run of deploy.ts under way
    artifact,       \* deployments/<cluster>-latest.json was written
    seeding,        \* the route whose transaction a run of seed-routes.ts awaits
    late,           \* transactions given up after 30 s that may still land
    faults,         \* failures so far
    rotations       \* rotations so far

operationsVars ==
    <<now, governance, accounts, script, artifact, seeding, late, faults, rotations>>

-----------------------------------------------------------------------------
(* The instructions. *)

Programs == {"governance", "vault", "oracle", "flight_pool", "controller"}

WithMint == {"vault", "flight_pool", "controller"}

Consumers == {"vault", "oracle", "flight_pool"}

Unset == "unset"

\* consumers: the programs whose controller or authorized_consumer is set; it
\* is set to the one ControllerConfig there is.
AccountsType ==
    [ ready     : SUBSET Programs,
      mint      : [WithMint -> Mints \cup {Unset}],
      consumers : SUBSET Consumers,
      oracle    : Keys \cup {Unset},
      keeper    : Keys \cup {Unset},
      pointer   : {"v1", Fresh, Unset} ]

NoAccounts ==
    [ ready |-> {}, mint |-> [p \in WithMint |-> Unset], consumers |-> {},
      oracle |-> Unset, keeper |-> Unset, pointer |-> Unset ]

\* initialize of a program: once, as the account must not exist.
initialize(acc, program, args, clients) ==
    When(program \notin acc.ready,
         [acc EXCEPT
             !.ready = @ \cup {program},
             !.mint = [p \in WithMint |-> IF p = program THEN args.mint ELSE @[p]],
             !.oracle = IF program = "oracle" THEN args.oracle ELSE @,
             !.keeper = IF program = "controller" THEN args.keeper ELSE @,
             !.pointer = IF program = "controller" THEN clients ELSE @])

\* set_controller of vault and flight_pool, set_authorized_consumer: once.
set_controller(acc, program) ==
    When(program \in acc.ready /\ program \notin acc.consumers,
         [acc EXCEPT !.consumers = @ \cup {program}])

set_authorized_keeper(acc, key) ==
    When("controller" \in acc.ready, [acc EXCEPT !.keeper = key])

set_authorized_oracle(acc, key) ==
    When("oracle" \in acc.ready, [acc EXCEPT !.oracle = key])

repair_oracle_config_pointer(acc, pointer) ==
    When("controller" \in acc.ready, [acc EXCEPT !.pointer = pointer])

-----------------------------------------------------------------------------
(* deploy.ts *)

Create(program) == [kind |-> "initialize", program |-> program]
Wire(program) == [kind |-> "wire", program |-> program]

\* initAndWire
Steps == << Create("governance"), Create("vault"), Create("oracle"),
            Create("flight_pool"), Create("controller"),
            Wire("vault"), Wire("flight_pool"), Wire("oracle") >>

\* Mutated form: a run starts from nothing.
nothing_done(step, clients) == FALSE

\* The step is about the oracle account of the older deployment.
IsStale(step, clients) == step.program = "oracle" /\ clients # Fresh

\* The account exists, or says that its controller is set; of the older
\* deployment's oracle account both are true.
AlreadyDone(step, clients) ==
    \/ IsStale(step, clients)
    \/ step.kind = "initialize" /\ step.program \in accounts.ready
    \/ step.kind = "wire" /\ step.program \in accounts.consumers

\* An instruction that names the older account fails its seeds constraint.
StepEffect(step, args, clients) ==
    IF IsStale(step, clients) THEN {}
    ELSE IF step.kind = "initialize"
         THEN initialize(accounts, step.program, args, clients)
         ELSE set_controller(accounts, step.program)

NoScript == [step |-> 0]

Running == script # NoScript

StartDeploy(args, clients) ==
    /\ ~Running
    /\ script' = [step |-> 1, args |-> args, clients |-> clients]
    /\ UNCHANGED <<now, rotations, seeding, governance, accounts, artifact, late, faults>>

AtStep == Running /\ script.step <= Len(Steps)

Step == Steps[script.step]

\* Looks whether the step is done, and if not sends it and waits for it.
DeployStep ==
    /\ AtStep
    /\ IF AlreadyDone(Step, script.clients)
       THEN UNCHANGED accounts
       ELSE accounts' \in StepEffect(Step, script.args, script.clients)
    /\ script' = [script EXCEPT !.step = @ + 1]
    /\ UNCHANGED <<now, rotations, seeding, governance, artifact, late, faults>>

Fault == faults < MaxFaults /\ faults' = faults + 1

\* A step that is sent reverts, and the run ends: accountExists takes a refused
\* request for a missing account, so that what exists is initialized again.
DeployReverts ==
    /\ AtStep
    /\ StepEffect(Step, script.args, script.clients) = {}
    /\ IF AlreadyDone(Step, script.clients)
       THEN Step.kind = "initialize" /\ Fault
       ELSE UNCHANGED faults
    /\ script' = NoScript
    /\ UNCHANGED <<now, rotations, seeding, governance, accounts, artifact, late>>

\* Mutated form: the mints are not compared.
mints_unchecked(args, clients) ==
    /\ accounts.ready = Programs /\ accounts.consumers = Consumers
    /\ clients = Fresh
    /\ accounts.oracle = args.oracle /\ accounts.keeper = args.keeper

\* The thirteen checks.  What the controller points to is not among them.
Verified(args, clients) ==
    /\ accounts.ready = Programs /\ accounts.consumers = Consumers
    /\ clients = Fresh
    /\ accounts.oracle = args.oracle /\ accounts.keeper = args.keeper
    /\ \A p \in WithMint : accounts.mint[p] = args.mint

\* verifyAndArtifact: the artifact, or an exception.
Verify ==
    /\ Running /\ ~AtStep
    /\ artifact' = (artifact \/ Verified(script.args, script.clients))
    /\ script' = NoScript
    /\ UNCHANGED <<now, rotations, seeding, governance, accounts, late, faults>>

-----------------------------------------------------------------------------
(* The other scripts. *)

\* One run of rotate-keeper.ts or rotate-oracle.ts, or the admin page's forms for
\* the same keys.
Rotate ==
    /\ rotations < MaxRotations
    /\ rotations' = rotations + 1
    /\ \E key \in Keys :
          \/ accounts' \in set_authorized_keeper(accounts, key)
          \/ accounts' \in set_authorized_oracle(accounts, key)
    /\ UNCHANGED <<now, governance, seeding, script, artifact, late, faults>>

\* repair-controller-oracle.ts, with clients that are up to date.
Repair ==
    /\ accounts.pointer # Fresh
    /\ accounts' \in repair_oracle_config_pointer(accounts, Fresh)
    /\ UNCHANGED <<now, rotations, seeding, governance, script, artifact, late, faults>>

-----------------------------------------------------------------------------
(* seed-routes.ts *)

NoOverrides == [premium |-> None, payoff |-> None, delay_hours |-> None]

GovernanceReady == "governance" \in accounts.ready

\* Mutated form: every route of the list is sent.
seed_every_route(r) == GovernanceReady

\* seed-routes.ts skips a route that exists, approved or not.
ToSeed(r) == GovernanceReady /\ ~governance.routes[r].exists

Idle == "idle"

\* A run reads the route and, as it does not exist, sends its transaction.
LookSeed(s, r) ==
    /\ seeding[s] = Idle
    /\ ToSeed(r)
    /\ seeding' = [seeding EXCEPT ![s] = r]
    /\ UNCHANGED <<now, rotations, governance, accounts, script, artifact, late, faults>>

Seed(s, r) == [kind |-> "seed", by |-> s, route |-> r]

\* It lands, whatever the route is by then.
SeedLands(s) ==
    /\ seeding[s] # Idle
    /\ governance' \in whitelist_route(governance, Owner, seeding[s], NoOverrides)
    /\ seeding' = [seeding EXCEPT ![s] = Idle]
    /\ UNCHANGED <<now, rotations, accounts, script, artifact, late, faults>>

\* It is lost, or the run throws before it is sent; the run goes on with the
\* next route.
SeedLost(s) ==
    /\ seeding[s] # Idle
    /\ seeding' = [seeding EXCEPT ![s] = Idle]
    /\ UNCHANGED <<now, rotations, governance, accounts, script, artifact, late, faults>>

\* It is not confirmed within 30 s, or the run is stopped: it may still land.
SeedGivenUp(s) ==
    /\ seeding[s] # Idle
    /\ Fault
    /\ late' = late \cup {Seed(s, seeding[s])}
    /\ seeding' = [seeding EXCEPT ![s] = Idle]
    /\ UNCHANGED <<now, rotations, governance, accounts, script, artifact>>

-----------------------------------------------------------------------------
(* People. *)

SetDefaults ==
    \E terms \in NewDefaults : governance' \in set_defaults(governance, terms)

AddAdmin == \E admin \in Admins : governance' \in add_admin(governance, admin)

RemoveAdmin == \E admin \in Admins : governance' \in remove_admin(governance, admin)

\* AddRouteForm.  The page always passes the caller's AdminRecord, which the
\* owner, who is no admin, does not have.
AddRoute ==
    \E admin \in Admins, r \in Routes, overrides \in NewOverrides :
        governance' \in whitelist_route(governance, admin, r, overrides)

\* bound: the page is opened once a deployment is complete
AdminPage ==
    /\ artifact
    /\ SetDefaults \/ AddAdmin \/ RemoveAdmin \/ AddRoute
    /\ UNCHANGED <<now, rotations, seeding, accounts, script, artifact, late, faults>>

\* No page has a button for it: the owner or an admin sends it by hand.
DisableRoute ==
    /\ artifact
    /\ \E caller \in Admins \cup {Owner}, r \in Routes :
          governance' \in disable_route(governance, caller, r)
    /\ UNCHANGED <<now, rotations, seeding, accounts, script, artifact, late, faults>>

-----------------------------------------------------------------------------
(* Failures. *)

InFlight ==
    [ kind |-> Step.kind, program |-> Step.program,
      args |-> script.args, clients |-> script.clients ]

\* deploy.ts is stopped, or a call of it throws; what it had sent may land.
DeployFails ==
    /\ Running
    /\ Fault
    /\ script' = NoScript
    /\ \/ UNCHANGED late
       \/ /\ AtStep
          /\ ~AlreadyDone(Step, script.clients)
          /\ late' = late \cup {InFlight}
    /\ UNCHANGED <<now, rotations, seeding, governance, accounts, artifact>>

LandsLate(tx) ==
    /\ late' = late \ {tx}
    /\ IF tx.kind = "seed"
       THEN /\ governance' \in whitelist_route(governance, Owner, tx.route, NoOverrides)
            /\ UNCHANGED accounts
       ELSE /\ accounts' \in StepEffect(tx, tx.args, tx.clients)
            /\ UNCHANGED governance
    /\ UNCHANGED <<now, rotations, seeding, script, artifact, faults>>

Expires(tx) ==
    /\ late' = late \ {tx}
    /\ UNCHANGED <<now, rotations, seeding, governance, accounts, script, artifact, faults>>

-----------------------------------------------------------------------------
OperationsInit ==
    /\ now = 0
    /\ \E terms \in NewDefaults : governance = initialize_governance(terms)
    /\ accounts = NoAccounts
    /\ script = NoScript
    /\ artifact = FALSE
    /\ seeding = [s \in Seeders |-> Idle]
    /\ late = {}
    /\ faults = 0
    /\ rotations = 0

DeployNext ==
    \/ \E args \in DeployArgs, clients \in Clients : StartDeploy(args, clients)
    \/ DeployStep \/ DeployReverts \/ Verify

SeedNext ==
    \E s \in Seeders :
        \/ \E r \in Routes : LookSeed(s, r)
        \/ SeedLands(s) \/ SeedLost(s) \/ SeedGivenUp(s)

OperationsNext ==
    \/ DeployNext
    \/ Rotate \/ Repair \/ AdminPage \/ DisableRoute \/ DeployFails
    \/ SeedNext
    \/ \E tx \in late : LandsLate(tx) \/ Expires(tx)

\* A run of deploy.ts goes on until it ends; the operator runs it again, with
\* each set of arguments, and repairs the pointer.  seed-routes.ts waits 30 s for
\* a transaction, and one that was given up expires with its blockhash.
OperationsFairness ==
    /\ WF_operationsVars(DeployStep \/ DeployReverts \/ Verify)
    /\ WF_operationsVars(Repair)
    /\ \A args \in DeployArgs : SF_operationsVars(StartDeploy(args, Fresh))
    /\ \A s \in Seeders : WF_operationsVars(SeedLands(s) \/ SeedLost(s))
    /\ \A s \in Seeders, r \in Routes :
          WF_operationsVars(Seed(s, r) \in late /\ (LandsLate(Seed(s, r)) \/ Expires(Seed(s, r))))

OperationsSpec ==
    OperationsInit /\ [][OperationsNext]_operationsVars /\ OperationsFairness

-----------------------------------------------------------------------------
OperationsTypeOK ==
    /\ governance \in GovernanceType
    /\ accounts \in AccountsType
    /\ artifact \in BOOLEAN
    /\ seeding \in [Seeders -> Routes \cup {Idle}]
    /\ faults \in 0 .. MaxFaults /\ rotations \in 0 .. MaxRotations

AllWired == accounts.ready = Programs /\ accounts.consumers = Consumers

OneMint ==
    \A p, q \in WithMint :
        Unset \in {accounts.mint[p], accounts.mint[q]} \/ accounts.mint[p] = accounts.mint[q]

\* Once deploy.ts wrote its artifact, all programs are initialized and wired
\* and move one mint, whatever runs came before, with other arguments or
\* clients, and wherever they stopped; nothing undoes it.  (deploy.ts,
\* initAndWire and verifyAndArtifact)
VerifiedIsWired == artifact => AllWired /\ OneMint

\* The count of routes is the number of routes there are, although runs of
\* seed-routes.ts that looked at the same time, transactions of theirs that land
\* late, and people whitelist a route again, approved or disabled.  (governance,
\* is_new in whitelist_route)
CountMatchesRoutes ==
    governance.route_count = Cardinality({r \in Routes : governance.routes[r].exists})

\* Transactions of seed-routes.ts that may still overwrite a route.
SeedsOf(r) == {s \in Seeders : seeding[s] = r \/ Seed(s, r) \in late}

\* A transaction of seed-routes.ts may approve a route again that a person has
\* disabled, and clear the overrides of one a person has added, if it was sent
\* when there was no route yet.  But that comes to an end: some time after a
\* route was created, whatever runs are started, time out or are stopped,
\* nothing of the script can touch it any more, and what people decide stands.
\* (seed-routes.ts, the skip of a route that exists)
SeedsRunOut ==
    \A r \in Routes : governance.routes[r].exists ~> [](SeedsOf(r) = {})

\* Wherever runs of deploy.ts stopped and whatever they left in flight, running
\* it again completes the deployment, and writes the artifact when the keys are
\* those of its arguments; unless two runs with different mints both initialized
\* programs: initialize cannot be taken back.  (deploy.ts, the look before each
\* step)
EventuallyWorks ==
    \/ <>(~OneMint)
    \/ <>[](/\ AllWired
            /\ accounts.pointer = Fresh
            /\ artifact \/ ~\E args \in DeployArgs : Verified(args, Fresh))
=============================================================================
