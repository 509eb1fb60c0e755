# Sentinel in TLA+

A verification development of the Sentinel flight-delay insurance protocol: five
Solana programs (`contracts/programs/*`), the scheduled jobs that drive them
(`executor/`), the scripts that deploy and wire them (`scripts/`) and the web pages
through which people use them (`frontend/`). TLA+ modules model them, TLC
configurations check them on small instances, and TLAPS proofs establish what
matters most for every instance.

## 1. Inventory

### The system

LPs deposit a stable coin (PUSD) into a **vault** for shares. Travelers buy
policies on flights at terms set by **governance**; the **controller** sells
them, locking the payoff in the vault, and keeps the list of unsettled flights.
The **oracle aggregator** holds what is known of each flight; a fetcher job
reports arrivals and cancellations, a classifier job decides, through the
controller, whether a flight was late, and a settler job settles it: premiums
move to the vault, or the vault's money tops up the **flight pool**'s treasury,
from which the travelers claim until the claim window closes.

| part | state | operations | talks to |
|---|---|---|---|
| vault | `total_managed_assets`, `locked_capital`, the FIFO withdrawal queue and its counter, claimable balances, share mint, snapshots, its token account | deposit, redeem, request / cancel withdrawal, collect; for the controller: increase / decrease locked, send payout, record premium, drain the queue, snapshot | called by the controller; pays into the pool treasury |
| flight_pool | one pool per flight and date, one record per buyer, one treasury account shared by all pools, `recovered_balance` | register pool, add buyer, settle (on time, delayed, cancelled), claim, sweep, withdraw recovered | called by the controller; pays into the vault |
| oracle_aggregator | one FlightData per flight: status, estimated and actual arrival | init, estimated arrival, landed, cancelled, to be settled, settled | oracle key; controller |
| governance | default terms, routes with overrides, admins | whitelist, disable, update terms, defaults, admins; two readers | owner, admins; read by the controller |
| controller | active flights, three counters, tunables | buy insurance, classify flights, execute settlements, rotate the keeper, repair the oracle pointer | calls all the others, atomically |
| fetcher, classifier, settler | none between ticks | a tick every 2 h, 1 h, 5 min: read accounts, send one transaction after the other, log failures and go on | AeroAPI; the programs |
| repricer, run log | the last ten runs per job, in memory | daily: reprice, disable and re-enable routes on the advice of a pricing agent and of Grok | governance; agent; Grok |
| server, console capture | `RUNNING` flags, the global console functions | manual triggers, status, logs | starts the same ticks |
| deployment scripts | an artifact file; what the chain already has | initialize and wire five programs in eight transactions, verify, rotate keys, repair the pointer, seed routes | all programs |
| pages | copies of accounts, shown until the next refresh | /earn, /buy, /portfolio: transactions built from a copy | the programs, through the user's wallet |

### What is hard here

* **Atomic, but many-handed.** A transaction either commits all its calls or
  none; between transactions anything may happen. A flight goes through sale,
  report, classification, settlement, claim and sweep, in transactions of six
  parties who see each other's effects late.
* **One amount in three programs.** What sales add policy by policy (premiums in the
  treasury, payoffs in the locked capital), the controller takes out flight by
  flight, in transactions of up to two flights. It must fit on every path.
* **Shared purses.** All pools share one treasury, all LPs one vault account;
  nothing but bookkeeping keeps a claim from being paid by another flight.
* **Positional arguments.** A withdrawal is cancelled by its index and credited
  by the position of an account the settler read earlier.
* **Rounding** at every deposit and redemption, with virtual offsets, and again,
  otherwise, in the page.
* **Readers that wait and then write.** Jobs, scripts and pages decide on what
  they read, wait for a network, a wallet or a model, overlap with themselves,
  give up on transactions that land later, and are stopped anywhere.

Every place where this bites is listed, with its line, under `hazards` in
`PROJECT.json`.

### What makes each part correct

* *vault*: every unit of its tokens is owned once; share prices never profit
  who rounds; the queue is served in order and only its owner moves it.
* *flight_pool*: the treasury holds exactly what the pools owe; a policy is paid
  at most once, only after the flight was resolved so and within the window.
* *oracle_aggregator*: a flight's record only moves forward.
* *governance*: terms already sold never change; routes are counted once.
* *controller*: the programs' records of a flight stay in step; what is locked is
  what may be paid; a flight is settled as it flew; settlement is never stuck
  while the vault covers what it locked.
* *jobs*: the chain says what the service says; every policy is eventually
  resolved.
* *repricer*: it never takes back a person's decision for one of its own.
* *server*: one manual trigger of a job at a time; the console is given back.
* *scripts*: an artifact means a complete deployment; running again completes one;
  routes are counted once, and what seeding may still overwrite runs out.
* *pages*: what is offered works, what is announced is what happens, and a stale
  page does no harm.

## 2. Modules

    Chain ── ShareMath ── Vault ────────┬── VaultSystem ──┬── MCVault
                                        │                 └── EarnPage ── MCEarnPage
    Chain ── FlightKeys ── FlightPool ──┤
                    └── OracleAggregator┼── Controller ── Sentinel ──┬── MCSentinel
    Chain ────────────── Governance ────┘                 │          ├── Executor ── MCExecutor
                             │        PolicyLedger  <─────┘          └── TravelerPages ── MCTravelerPages
                             │        (refinement)
                             ├── Operations ── MCOperations
          JobServer ─────────┴── Repricer ──── MCRepricer

The theorems stand in modules of their own, over these:

    Vault ────── VaultHandlerProofs ──┬── VaultProofs (EarnPage)
                                      └── SentinelProofs (Sentinel) ── SentinelBooksProofs ── ClientProofs
    Governance ─ GovernanceProofs ────┬── SentinelProofs                   (Executor, TravelerPages)
                                      ├── OperationsProofs (Operations)
                                      └── RepricerProofs (Repricer)

A program's handler is an **operator from its accounts to the set of accounts it
may leave**: a singleton when the handler succeeds, the empty set when it
returns an error. An action says `vault' \in deposit(vault, lp, amount)`; a
handler that calls another composes the two sets, so an error anywhere leaves no
successor, which is Solana's atomicity (`Chain!When`). Names are the source's.

| module | models |
|---|---|
| `Chain` | clock, `u64` and `u32` ranges, atomicity |
| `ShareMath` | the three share-price helpers of the vault |
| `Vault` | the vault's handlers and the vault's side of a settlement |
| `VaultSystem` | the vault alone, its LPs unrestricted and a controller that locks, settles and drains in every legal order; the vault's properties |
| `FlightKeys` | what identifies a flight, and an account that does not exist |
| `FlightPool`, `OracleAggregator`, `Governance` | the handlers of these programs |
| `Controller` | the three instructions that compose them |
| `Sentinel` | the actions of LPs, travelers, owner, keeper and oracle; the system's properties and refinement |
| `PolicyLedger` | abstract: what the system promises of a policy |
| `Executor` | the fetcher, classifier and settler as processes over `Sentinel`: reads, decisions, transactions in flight, failures |
| `JobServer` | ticks of a job as the server runs them: the trigger mutex, console capture, the run log |
| `Repricer` | ticks of the repricer (over `JobServer`) and the people who change the same routes (over `Governance`) |
| `Operations` | deploy.ts run again and again, rotations, the pointer repair, runs of seed-routes.ts, and people who add and disable the same routes |
| `EarnPage` | the /earn page of some LPs over `VaultSystem` |
| `TravelerPages` | the /buy and /portfolio pages of some travelers over `Sentinel` |
| `MC*` | instances for TLC |
| `VaultHandlerProofs` | lemmas: Rust's `Vec::remove` and `drain`, sums over a finite set, the share arithmetic, each handler of the vault |
| `GovernanceProofs` | lemmas: each handler of governance |
| `VaultProofs` | theorems of `VaultSystem` and `EarnPage` |
| `SentinelProofs`, `SentinelBooksProofs` | theorems of `Sentinel`: flights and the list; money, settlement and the ledger |
| `ClientProofs` | theorems of `Executor` and `TravelerPages` |
| `OperationsProofs`, `RepricerProofs` | theorems of `Operations`, and of `Repricer` with `JobServer` |

**State and code: the programs.** `vault` is one record: the fields of
`VaultState`, the requests of `WithdrawalQueue`, the `ClaimableBalance` of every
LP, the supply and holders of the share mint, the vault's token account and the
LPs' own. A pool, a FlightData and a route are functions from flights or routes
to records with a status, `NoAccount` standing for an account not created yet.

**The jobs.** `ticks[k]` is a tick under way: what it has yet to look at
(`todo`, the flights or batches of its loop), the transaction it is waiting for
(`tx`), and what the settler read once for all its batches (`claimables`,
`day`). `StartTick` is the reads before the loop, `LookUp` one flight of the
fetcher, `Confirmed` and `Refused` the two ends of `sendIxs`, `TimesOut` its
30 s: the transaction moves to `late`, from where it lands or expires at any
later time, while the tick goes on. `Missed` is an AeroAPI call without an
answer, `CutShort` a read that throws or a process that is stopped.

**The repricer.** `work[k]` is what one tick holds: the routes it read, those
the log said were disabled by the repricer, and those it records for the next.
The verdicts of Grok and the prices of the agent are chosen freely. Ghosts:
`held`, the routes a person disabled last; `everDisabled`, the routes some run
recorded; neither is read by an action.

**Deployment.** `accounts` is what the programs' configurations hold: which are
initialized, with which mint, keys and pointer, and which consumers are wired.
`script` is a run of deploy.ts at one of its eight steps, with its arguments and
its generated clients (`v1` out of date, or `v2`). Every instruction that can
be sent is one that an initialized account refuses, or that the same step finds
done; a run ends at the first that fails. Only the last of several concurrent
runs' transactions are told apart from the script: they are in `late`.
`seeding[s]` is a run of seed-routes.ts: `LookSeed` is the read of a route and, if
there is none, the sending of its transaction, which lands (`SeedLands`) on
whatever the route is by then, is lost, or is given up after 30 s (`SeedGivenUp`)
and may land later still. Several runs, and people (`AddRoute`, `DisableRoute`), may
change the same route between a look and a landing.

**The pages.** `page`, `buy` and `policies` are the copies shown; `pending` holds
the transactions a click has built and the wallet has not sent, with what was on
screen at the click (`row`, `shown`), which only the properties look at. A
transaction lands on the vault or the programs as they are by then, or never.

**Abstractions.** A flight stands for the pair (flight_id, date); keys, seeds and
account constraints become roles (who may take an action), except in
`claim_with_treasury`, where one is the point; the travelers' token
accounts are left out. Amounts and the
controller's counters are integers in `0 .. U64_MAX`, counts of buyers and of routes
in `0 .. U32_MAX`, and a checked operation that would leave its range reverts the
transaction, as in the code; so does the share price of a snapshot that does not fit its
`u64` (`Vault!PriceFits`). Not bounded are the intermediate `u128` products, which
cannot overflow for `u64` operands, and the `i64` times and dates; a delay is in
`1 .. MAX_DELAY_HOURS`, which governance enforces, and the length of the queue is bounded by
`MaxQueue`, for its account. The virtual offsets and the scale of the share price are
parameters. A load of a
page is one step although it reads several accounts: what the properties ask of
a row, a policy or a page that happens to be current, they ask whichever read is
older.

**The ledger.** `PolicyLedger` knows nothing of programs: a policy is sold while
its flight is open, the flight is resolved once (all its live policies expire, or
all become payable, at the terms of the sale), a payable policy is paid once or
recovered, and the pot moves by exactly those terms. `Sentinel!Ledger`
instantiates it with the pools, the buyer records and the treasury, and
`ImplementsLedger` says that every step of every program is a step of the ledger
or none.


## 3. Runs

`PROJECT.json` names, for each run, its properties and, for each property, a
plausible mistake in a handler (a dropped guard, a swapped order, a missing
reset) under which TLC finds the property violated. Every such operator stands
before the definition it would replace, commented with what it changes.

| run | asks | instance |
|---|---|---|
| `vault` | is the vault sound whatever its LPs and the controller do? | two LPs with two units each, one donated unit, up to two policies of premium 1 and payoff 3, a queue of three, two times |
| `sentinel` | do the five programs agree with each other, and with the ledger? | two flights on two days, two travelers, one LP who deposits 4 for eight shares and leaves by four, a queue of one, no updates of terms, arrivals just short of the delay and exactly at it |
| `executor` | do the three jobs resolve every policy, safely? | one tick of each job at a time, two flights (one lands late, one is cancelled), one fault |
| `repricer` | does it respect people, does the server survive overlaps? | two ticks of any origin, one route, a log of one entry, one late transaction |
| `operations` | does an artifact mean a deployment, is one reached? are routes counted once, does seeding come to an end? | two sets of arguments (other mint, other keeper), clients out of date and fresh, one fault, one rotation, one route, one run of seed-routes.ts at a time |
| `earn_page` | is a current page right, is a stale one harmless? | an LP with a page and one without, a queue of three, one transaction of the page pending, one policy, a balance whose read may fail |
| `traveler_pages` | are offered claims owed and shown terms sold, do sold terms stay? | one flight, a traveler with pages and one without, a payoff that is raised |
| `vault_locked`, `vault_earmarked`, `sentinel_updates`, `sentinel_date`, `executor_exits` | what documents say and the code does not do (section 5) | as small as the counterexample |

**Why these bounds are enough.** The vault's instance reaches share prices below,
at and above one (premiums raise it, payouts lower it, a donation must not move
it), a queue with a middle, an emptied vault that still has locked capital, and
sums at `U64_MAX`. In `sentinel`, two flights fill one settlement transaction
(`MAX_FLIGHTS_PER_TX` is 2), so batches of one and of two, in both orders, occur;
with two times after departure the claim window is seen open, at its last
moment and closed. One LP with one amount is enough there because the vault's
own run covers the rest of the vault. Early arrivals need no value there:
`SentinelProofs!DelayedIsLate` has the comparison right for all of them. Whoever
calls a settlement passes any sequence of claimable accounts, so a settler's
stale reading is one of the choices.

The scale of the share price (`SHARE_PRICE_SCALE`) is chosen so that the failure of the snapshot
happens where it matters: with 4 in `vault` and 20 in `sentinel` the price outgrows
`U64_MAX` in some reachable states and the settlement reverts; with 10 in `executor` it
never does, and `PoliciesEventuallyResolved` relies on that (section 5). `U32_MAX` is 2,
which two travelers, or one route, reach and do not pass. One run of seed-routes.ts is enough in
`operations` because one that is stopped leaves its transaction behind and the next
starts; `RoutesAreCounted` has any number at the same time. The passing runs have 129,075
(`sentinel`), 175,617 (`vault`), 35,982 (`executor`), 481,255 (`repricer`), 320,661
(`operations`), 726,875 (`earn_page`) and 954,036 (`traveler_pages`) distinct states.

`sentinel` has no updates of terms because one of its properties,
`CollateralTracksPolicies`, does fail with them (`sentinel_updates`); updates are
in `traveler_pages`, with the property that concerns them, `PolicyTermsFrozen`.
`executor` has one LP: a queue that others rewrite between the reads and the
transaction of *every* tick makes every settlement revert, as the accounts it
names no longer fit, so that liveness is not claimed for them. One fault is
enough to lose any one step; overlapping ticks of the same job leave transactions
that land when they like, which `late` gives already.

States are not checked for deadlock: clocks, amounts, queues and faults are
bounded and the systems really come to rest (every flight settled, every purse
empty), which the temporal properties look at.

### Fairness

* `ExecutorFairness`: each job's tick takes its next step if it can go on taking
  it (weak fairness of `TickNext(k)`). node-cron (run-cron.ts:182-190) starts ticks
  forever, each step of a tick is an awaited call that returns or throws, and
  errors are caught. Nothing is assumed of travelers, of LPs, of AeroAPI's news or of
  transactions given up. Faults (a lost transaction, a read that throws, a
  stopped process) are at most `MaxFaults`: an RPC node that never answers
  again resolves nothing. `PoliciesEventuallyResolved` leaves out the states
  where a withdrawal request has sunk managed assets below locked capital
  (`Sunk`), in which every settlement reverts until somebody deposits.
* `OperationsFairness`: a run of deploy.ts goes on; the operator, for whichever
  arguments, runs it again *with regenerated clients* and, when the pointer is
  wrong, runs the repair script. It is an assumption on a person, the one the
  script's comments ask for ("safe to re-run"). It is strong for starting a run as
  runs exclude each other. `EventuallyWorks` leaves out the chains on which two runs
  have initialized programs over different mints: nothing in the repository
  repairs those. A run of seed-routes.ts that awaits a transaction goes on within 30 s,
  and one given up lands or is refused when its blockhash is too old: that is what
  `SeedsRunOut` rests on, and no fairness of the person who starts the script.
* Safety runs assume no fairness.

## 4. Proofs

Every safety property that a passing run checks is also a theorem, for every value
of the constants that satisfies the modules' named assumptions, which TLC
evaluates at every run: in particular for any *finite* sets of LPs, flights and
travelers (`VaultAssumption`, `FlightsAssumption`, `TravelersAssumption`). They are
finite because the books are sums over them; no other size or bound is assumed.

### The vault

| theorem | states | argument |
|---|---|---|
| `VaultTypeCorrect`, `ArrivalOrder` | `VaultTypeOK`, `QueueInArrivalOrder` | the invariant `VaultInv`: types, the counter equal to the queue's length, requests in order and none of the future. The order alone is not inductive: a request is appended with the present time, so none in the queue may be later |
| `BooksBalance`, `CountersNeverDrift` | `EveryUnitBookedOnce`, `CountersAgree` | the invariant `BooksInv`, one equation: what the token account holds beyond the managed, queued and claimable PUSD is what was donated. Every handler is shown, once, to move the sums of its LP alone or to move nothing (`MovesOnly`, `MovesNothing`) |
| `OnlyOwn` | `OnlyOwnHoldingsMove` | the same lemmas, read LP by LP: a drain takes the front of the queue and credits each request to its owner, whichever accounts it is given |
| `NoDilution`, `FairRedemption`, `NoRoundTripProfit` | `DepositNeverDilutes`, `RedemptionPaysFairValue`, `RoundTripNeverProfits` | the two bounds of a division with remainder (`DepositKeepsPrice`, `RoundTripReturnsNoMore` in `VaultHandlerProofs`), and a case for each action: which ones move the supply in which direction |
| `CancelNoEarlier` | `CancelNeverReachesEarlier` | a row once read stays *no later than* whatever stands at its position: a step of the vault replaces what stands at a position only by a request from further back, and appends only requests of the present (`Advanced`); `StillNoEarlier` carries this for rows shown and rows clicked. Every step of a page is a step of `VaultSystem` or leaves the vault alone, so `VaultInv` carries over |
| `CurrentPages` | `CurrentPageIsRight` | the page's rounding and the program's differ by at most a unit; the vault's token account covers what is managed (`BooksInv`), so that nothing but the free capital can refuse what the page offers |

### The five programs

| theorem | states | argument |
|---|---|---|
| `ProgramsStayInStep` | `ProgramsInStep` | one flight at a time: a transaction that names a flight takes its FlightData and its pool by a `FlightStep` and leaves those of the others (`FlightMove`); a batch is at most two such moves, and a flight named twice is skipped by the second classification and refused by the second settlement. The list follows the FlightData alone (`ListInv`): it has each open flight once, and `RemoveFirst` of an element of a list without duplicates leaves the others |
| `OracleMovesForward`, `TermsStayFrozen` | `OracleForwardOnly`, `PolicyTermsFrozen` | two parts of `FlightStep`, which holds of every transaction (`EveryStepMoves`) |
| `FlightsSettledAsRecorded` | `SettledAsRecorded` | `AsRecorded` carries what was reported through classification to settlement. Lateness in whole hours and lateness in seconds agree only for a delay of at least an hour, hence `DelaysBounded`, the invariant that governance never resolves a delay of 0 |
| `SentinelTypeCorrect` | `TypeOK`: every amount and counter in `u64`, every count of buyers and routes in `u32` | `FlightsInv` and `MoneyInv`, with a lemma for each counting handler |
| `TreasuryAlwaysBacks` | `TreasuryBacksEveryPool` | the invariant `MoneyInv`: two equations, for the treasury and the vault, and two of the controller's counters. Each handler is described by what it adds to the treasury's excess over the pools' shares and to the vault's surplus (`Booked`); the calls of a transaction, and the flights of a batch, add up to 0. A pool that opens must start at a share of 0 and one that settles have no claim counted, hence `AllFresh` |
| `CollateralStaysExact`, `CountersStayExact` | `CollateralTracksPolicies`, `CountersMatchPools` | `PricesInv`: all pools and all routes have the default prices, so that what a sale locks and counts (route) is what settlement releases and the sums count (pool) |
| `NeverWedged` | `SettlementNeverWedged` | by the books above, every subtraction of the settlement of a classified flight stays in range: its payoff is part of the locked capital, its premiums of the treasury, and managed assets of the vault's tokens. Two checks are left, and the property names them: the share price of the snapshot, on a day that has none, and the total of payouts may outgrow their `u64` |
| `ProgramsKeepLedger` | `ImplementsLedger` | the refinement, step by step: a sale is the ledger's sale, each flight of a settlement its resolution, a claim its payment, a sweep its recovery; every other transaction leaves it. `CountedInv` joins the pools' counters to the buyers' records (live, paid, swept), so that what a pool pays is what the ledger's pot pays; `MoneyInv` bounds the pot. A settlement of two flights is one transaction and one step of the ledger that resolves both |

### Jobs, pages, scripts

| theorem | states | argument |
|---|---|---|
| `ReportsMatchService`, `BatchesStayBehind` | `ChainMatchesService`, `BatchesNeverAhead` | the invariant `ReportsInv` carries what was read to where it is used: a transaction, in flight or given up, rests on what the service has said and cannot take back (`Founded`), and the flights of a tick have come at least as far as when they were read (`AtLeast`). Both survive every step of everybody else, because the chain only moves on (`Onward`) and the service only learns (`AnswersKept`) |
| `PagesImplementPrograms`, `PageTermsStayFrozen` | `TravelerSpec => SentinelSpec`; `PolicyTermsFrozen` | every step of a page is a step of a program or leaves them alone. All theorems about the programs hold under stale pages |
| `OfferedClaimsAreOwed` | `OfferedClaimIsOwed` | `CopiesInv`: a copy of a pool that pays out is still right about its status and its window, however old; one that does not offers nothing. With `MoneyInv` the treasury covers the claim |
| `FirstBuyersGetShownTerms` | `FirstBuyerGetsShownTerms` | what a pending purchase shows is what its reads resolve to (`PendingInv`), and page and governance resolve alike |
| `DeployedIsWired`, `OperationsTypeCorrect` | `VerifiedIsWired`, `OperationsTypeOK` | every step of deploy.ts succeeds at most once on a chain, so that what an artifact was written for cannot be taken back by any later run, rotation or repair |
| `RoutesAreCounted` | `CountMatchesRoutes` | a handler that whitelists either finds the route and keeps the count, or adds an element to the set of existing routes and one to the count (`WhitelistRouteCounts`); it does not matter who sent it and when |
| `HumanDisablesStand`, `PayoffAndDelayStayHuman` | `HumanDisableStandsUnlessOwn`, `PayoffAndDelayAreHuman` | everything that may ever lead to a re-enabling (the log, what a tick took from it, its transaction, the late ones) names only routes recorded as disabled by the repricer, `everDisabled`, which only grows |
| `MutexIsSound` | `MutexHeldByOneTrigger` | a job's flag is set exactly while a requested tick of it runs |
| `ConsoleIsRestored` | `ConsoleRestored` | `ConsoleInv`: as long as ticks end in reverse order, the running ticks form a stack, of which each saved the sink of the one below, the lowest `stdout`, and the topmost is the console |

### Hypotheses of some theorems

* `0 \notin Arrivals` (`FlightsSettledAsRecorded`): no arrival is reported as time 0,
  which FlightData reads as none.
* `PricesKept` (`CollateralStaysExact`, `CountersStayExact`, `NeverWedged`): no update names a
  premium or a payoff, which leaves out the daily repricer; delays may be updated, routes disabled and re-enabled. It cannot be
  dropped: `sentinel_updates` is a counterexample to the first of them. The `sentinel`
  run satisfies it, with no updates at all.
* `DefaultTerms.premium <= DefaultTerms.payoff` (`NeverWedged`): with a premium above
  the payoff, the pool has no difference to be paid, and its settlement is refused
  (section 5 has the clamp that does not look at the payoff).
* `[]OneMint` (`NeverWedged`, `CurrentPages`): two token accounts never hold more than a `u64`
  together. They are accounts of one SPL mint, whose supply is a `u64`; the
  modules bound each account alone. It holds in every state of the `sentinel` run. The
  instance of `earn_page` has more units than its `U64_MAX`, and the property
  without the hypothesis there.
* `CLAIM_EXPIRY_WINDOW > 0` (`OfferedClaimsAreOwed`): a setting, which deploy.ts:149 makes
  sixty days. A window that ended at time 0 would read as no window to the page.

### Only model-checked

* Liveness: `PoliciesEventuallyResolved`, `EventuallyWorks` and `SeedsRunOut` (the prover has no rule for
  fairness, and no ENABLED).
* What the runs of section 5 refute is a counterexample, and needs no proof.

The executor has no step refinement of `Sentinel`: its combined report (estimate and
outcome in one transaction) is two steps there. Its theorems are proved of its own
steps, with the lemmas on each handler; properties of the programs' states that do
not count steps are those of `Sentinel` all the same, but no theorem says so.

Two definitions have the form they have so that they can be reasoned about, with the
same meaning: `Sentinel!PolicyOf` is a CASE whose guards exclude each other, as TLA+ leaves the choice
open when two hold, and `Executor!WithStatus` is a recursive function, as
`SelectSeq` is opaque to the provers.

## 5. Where documents and code differ

Five runs end in a counterexample on purpose; `findings` in `PROJECT.json` quotes
the lines:

* `vault_locked`: a withdrawal request debits `total_managed_assets` below
  `locked_capital`; settlements, sales and redemptions then revert.
* `vault_earmarked`: a drain compares earmarked assets with the free capital they
  are no longer part of.
* `sentinel_updates`: a further buyer of a flight locks the route's present payoff,
  its settlement releases the pool's.
* `sentinel_date`: a date in seconds passes the lead-time guard at any time.
* `executor_exits`: withdrawals wait until there is a flight to settle.

Others were met while modelling and follow from the modules, without a run of
their own:

* `contracts/programs/vault/src/lib.rs:171` says "vault retains rounding" of
  redemptions that round *up*; `spec/architecture.md:231` says the code's way
  protects solvency. `RedemptionPaysFairValue` bounds what it costs by a unit.
* `spec/architecture.md:1246` has the solvency ratio applied to everything that is
  locked; the code applies it to the new policy alone.
* `README.md:170`: the repricer "never overrides a human admin's `disable_route`
  decision". A dry run records the routes it *would* have disabled
  (route_repricer.ts:425); if a person disables one, the next tick takes it
  for its own and re-enables it. `HumanDisableStandsUnlessOwn` is what is left.
* `README.md:168` has routes re-enabled when "conditions cleared"; a tick that cannot
  reach Grok gets the safe default `ok` (grok_client.ts:46) and re-enables too.
* vault-math.ts:36-48 rounds a redemption down where the program rounds it up, so
  that /earn offers a redemption of exactly all the free capital, which the vault refuses;
  `spec/phases/phase-14-frontend-underwriter.md:224-225` has the button "greyed when free is
  insufficient". `CurrentPageIsRight` says that this is the only case.
* /buy shows the route's terms (buy/page.tsx:135); a flight that has a pool is sold on
  the pool's. `FirstBuyerGetsShownTerms` is what is left of
  `spec/phases/phase-15-frontend-traveler.md:15-16`.
* /portfolio derives the treasury with the classic token program
  (portfolio/page.tsx:95-111), while the stable mint's program is the one of
  config/devnet.ts:81-86: flight_pool refuses the account, and every claim sent from
  the page (`ClaimSent` leaves the programs as they are).
* A flight sold under a date in seconds of `INVALID_DATE` or more makes
  the fetcher's lookup throw outside its `try` (flight_data_fetcher.ts:178), at every tick: no
  flight after it in the list is ever looked at. `MCExecutor.cfg` keeps such dates out;
  with `INVALID_DATE = 2`, `PoliciesEventuallyResolved` fails.
* `contracts/programs/vault/src/lib.rs:618` calls the share price "for the snapshot record only
  (informational)"; its checked conversion (:629) is in the last call of every
  settlement, and when the price does not fit a `u64` the settlement reverts, until
  the price fits again. A day that has its snapshot already computes none.
  `SettlementNeverWedged` names the case.
* seed-routes.ts:5-7 is "Idempotent" and "only sends txs for missing routes": a route may
  be created, given overrides or disabled between the look (:240) and the landing
  of the transaction, which then approves it again without overrides. `SeedsRunOut` says
  that this ends.
* admin/page.tsx:395-406 builds `whitelist_route` with the caller's `AdminRecord`; for
  the owner, who needs none, that account does not exist, and the program refuses
  the form (seed-routes.ts:249-252 passes the program's address for that reason).
* deploy.ts's thirteen checks (:907) do not compare the controller's oracle pointer.
* run_log.ts:86 calls ten entries "effectively unlimited"; the repricer forgets with
  the eleventh what it disabled, and never re-enables it.
* `clampPremium` (decide_route_actions.ts:72) compares with constants, not with the
  route's payoff: with an overridden payoff below the premium a pool can never be settled.
* Overlapping ticks that end in the order they started leave the console at the sink
  of a tick that is over (`ConsoleRestored` excludes them).
* `buy_insurance` charges the pool's premium and adds the route's to the counter of
  premiums.
* `README.md:129` has the Acurast job run `runFetcherOnce`; `acurast/src` is code
  of its own, which derives accounts without the date.

## 6. Not modelled, and why

* **Generated clients** (about 50,000 lines in two copies), encoders and
  decoders from the IDL, and **`reference/`**, a copy of an older frontend: more than
  three quarters of the repository's TypeScript. With the pages' layout, the
  share of lines the map covers stays small, however much of the behaviour is modelled.
* **/crons, /faucet, /markets, the globe, the simulator, proxy routes**, and what /admin
  shows: they show data, or send instructions that `Operations`, `Repricer` and `Sentinel`
  send already. /admin's forms for the defaults, the admins and the routes are `AdminPage`, those
  for the keys `Rotate`.
* **The pricing agent**: a statistical model with no state; its answers are chosen freely
  (`Baselines`).
* **AeroAPI, Grok and RPC clients**: what they return is chosen freely; retries inside a
  call, HTTP and parsing are not followed.
* **Acurast jobs**: the present programs refuse their transactions.
* **Keys, test money, binaries**: keys-bootstrap, fund-*, bootstrap-test-actors, gen-clients.
* **Account constraints**, rent, discriminators, bumps: roles and one record per key.
* **The snapshot's history** beyond the last day: nobody reads it but the interface.
* **The server's mock mode** (`?mode=mock&scenario=`): it has the fetcher report invented
  arrivals on the chain. It is for demonstrations; `Executor`'s triggers are live
  ones, and `ChainMatchesService` is claimed without it.
* **First-buy detection by lamports** (controller lib.rs:195-198): the model asks whether the
  pool exists. An address that holds lamports and no pool counts as not the first
  buyer's, and sales of that flight fail.
* **Failed reads of the supply** at /earn: `CurrentPageIsRight` is asked of a page that shows
  the vault as it is, which such a page does not.
* **The account the claim button passes**: `OfferedClaimIsOwed` asks what flight_pool
  owes (`claim`), not whether it accepts the button's transaction, which it never does
  (section 5).
* **Travelers' balances**: a buyer who cannot pay is a buyer who does not buy.

## 7. Plan

Written, in this order: the vault, the programs and their composition, the ledger, the
three jobs, the server and the repricer, the deployment, the pages, and the proofs
of section 4. Left:

1. *The executor and the programs*: that each step of `Executor` is one or two steps of
   `Sentinel`, with a history variable between the two, so that the programs' books hold
   under the jobs by theorem.
2. *The repricer and the programs*: the repricer's updates of premiums in the instance of
   `Sentinel`, of which `PricesKept` excludes the case today: a bound on how far the locked
   capital may drift from the policies, instead of equality.
3. *Vault and programs*: that the vault's side of every step of `Sentinel` is a
   step of `VaultSystem`, so that `ArrivalOrder` and `NoRoundTripProfit` carry over.
