---------------------------- MODULE VaultProofs ----------------------------
(***************************************************************************)
(* Theorems about vault_program under every order of calls (VaultSystem),  *)
(* and about the /earn pages of LPs whose copies of it grow stale          *)
(* (EarnPage), for any number of LPs, any amounts and bounds.              *)
(***************************************************************************)
EXTENDS EarnPage, VaultHandlerProofs

-----------------------------------------------------------------------------
(* The invariant. *)

VaultInv ==
    /\ VaultTypeOK
    /\ WellFormed(vault)
    /\ InOrder(vault.requests)

\* VaultInv holds of a new vault.
LEMMA InitVaultInv == VaultInit => VaultInv
<1> SUFFICES ASSUME VaultInit PROVE VaultInv
  OBVIOUS
<1>1. 0 \in U64 /\ 0 \in Time /\ 0 \in 0 .. MaxQueue /\ 0 \in 0 .. MaxPolicies
  BY ChainAssumption, VaultAssumption, VaultSystemAssumption DEF U64, Time
<1>2. << >> \in Seq(WithdrawalRequest) /\ Len(<< >>) = 0
  OBVIOUS
<1>3. [lp \in LPs |-> LpFunds] \in [LPs -> U64]
  BY VaultSystemAssumption
<1>4. vault \in VaultType /\ vault.withdrawal_queue_count = 0 /\ vault.requests = << >>
  BY <1>1, <1>2, <1>3 DEF VaultInit, initialize_vault, VaultType
<1>5. InOrder(<< >>)
  BY DEF InOrder
<1> QED
  BY <1>1, <1>2, <1>4, <1>5 DEF VaultInit, VaultInv, VaultTypeOK, WellFormed

\* What a settlement does to the vault: the queue moves up, and what the LPs
\* own stays.
Settlement ==
    /\ WellFormed(vault') /\ vault'.supply = vault.supply
    /\ InOrder(vault.requests) => InOrder(vault'.requests)
    /\ MovesNothing(vault, vault')

\* A settlement of the controller, of any outcome: books and queue in one step.
LEMMA SettlementStep ==
    ASSUME VaultInv, NEW claimables,
           \/ SettleOnTime(claimables)
           \/ SettleWithPayout(claimables)
           \/ SettleNothing(claimables)
    PROVE  Settlement
<1>1. /\ now \in Time /\ WellFormed(vault)
      /\ PREMIUM \in Nat /\ PAYOFF \in Nat /\ PAYOFF - PREMIUM \in Nat
  <2>1. PREMIUM \in Nat /\ PAYOFF \in Nat
    BY VaultSystemAssumption, Amounts
  <2> QED
    BY <2>1, VaultSystemAssumption DEF VaultInv, VaultTypeOK
<1>2. CASE SettleOnTime(claimables)
  <2>1. PICK settled \in settle_premium_into_vault(vault, PREMIUM, PAYOFF) :
            vault' \in housekeeping(settled, claimables, Day(now))
    BY <1>2 DEF SettleOnTime
  <2>2. /\ WellFormed(settled) /\ settled.requests = vault.requests
        /\ settled.supply = vault.supply /\ MovesNothing(vault, settled)
    BY <1>1, SettlePremiumWellFormed, SettlePremiumMoves
  <2>3. /\ WellFormed(vault') /\ vault'.supply = settled.supply
        /\ InOrder(settled.requests) => InOrder(vault'.requests)
        /\ MovesNothing(settled, vault')
    BY <1>1, <2>1, <2>2, HousekeepingWellFormed, HousekeepingMoves
  <2> QED
    BY <1>1, <2>2, <2>3, MovesNothingTwice DEF Settlement
<1>3. CASE SettleWithPayout(claimables)
  <2>1. PICK settled \in settle_payout_from_vault(vault, PAYOFF - PREMIUM, PAYOFF) :
            vault' \in housekeeping(settled, claimables, Day(now))
    BY <1>3 DEF SettleWithPayout
  <2>2. /\ WellFormed(settled) /\ settled.requests = vault.requests
        /\ settled.supply = vault.supply /\ MovesNothing(vault, settled)
    BY <1>1, SettlePayoutWellFormed, SettlePayoutMoves
  <2>3. /\ WellFormed(vault') /\ vault'.supply = settled.supply
        /\ InOrder(settled.requests) => InOrder(vault'.requests)
        /\ MovesNothing(settled, vault')
    BY <1>1, <2>1, <2>2, HousekeepingWellFormed, HousekeepingMoves
  <2> QED
    BY <1>1, <2>2, <2>3, MovesNothingTwice DEF Settlement
<1>4. CASE SettleNothing(claimables)
  BY <1>1, <1>4, HousekeepingWellFormed, HousekeepingMoves
     DEF SettleNothing, Settlement
<1> QED
  BY <1>2, <1>3, <1>4

\* A transfer into the vault's account, by no instruction of the vault.
LEMMA DonateWellFormed ==
    ASSUME WellFormed(vault), NEW lp \in LPs, NEW amount \in U64, Donate(lp, amount)
    PROVE  /\ WellFormed(vault') /\ vault'.requests = vault.requests
           /\ vault'.supply = vault.supply
<1> DEFINE stable == [vault.stable EXCEPT ![lp] = @ - amount]
<1>1. /\ amount <= vault.stable[lp] /\ vault.vault_tokens + amount \in U64
      /\ vault' = [vault EXCEPT !.stable = stable, !.vault_tokens = @ + amount]
  BY DEF Donate
<1>2. stable \in [LPs -> U64]
  BY <1>1, Fields, Amounts, Less DEF WellFormed
<1> HIDE DEF stable
<1> QED
  BY <1>1, <1>2 DEF WellFormed, VaultType

\* VaultInv is inductive: a case for each instruction.
LEMMA StepVaultInv == VaultInv /\ [VaultNext]_vars => VaultInv'
<1> SUFFICES ASSUME VaultInv, [VaultNext]_vars
             PROVE  VaultInv'
  OBVIOUS
<1>0. /\ WellFormed(vault) /\ InOrder(vault.requests)
      /\ now \in Time /\ donated \in Nat /\ sold \in 0 .. MaxPolicies
  BY DEF VaultInv, VaultTypeOK
<1> USE <1>0
\* An LP's or the controller's call, while the clock stands still.
<1>1. ASSUME WellFormed(vault'), InOrder(vault.requests) => InOrder(vault'.requests),
             now' = now, donated' \in Nat, sold' \in 0 .. MaxPolicies
      PROVE  VaultInv'
  BY <1>1 DEF VaultInv, VaultTypeOK, WellFormed, InOrder
<1>2. CASE LpNext
  <2> PICK lp \in LPs :
        \/ \E amount \in U64 : Deposit(lp, amount) \/ Donate(lp, amount)
        \/ \E shares \in U64 : Redeem(lp, shares) \/ RequestWithdrawal(lp, shares)
        \/ \E i \in 1 .. MaxQueue : CancelWithdrawal(lp, i)
        \/ Collect(lp)
    BY <1>2 DEF LpNext
  <2>1. ASSUME NEW amount \in U64, Deposit(lp, amount) PROVE VaultInv'
    BY <2>1, <1>1, DepositWellFormed DEF Deposit
  <2>2. ASSUME NEW amount \in U64, Donate(lp, amount) PROVE VaultInv'
    <3>1. donated' = donated + amount /\ now' = now /\ sold' = sold
      BY <2>2 DEF Donate
    <3>2. donated' \in Nat
      BY <3>1, Amounts
    <3> QED
      BY <2>2, <3>1, <3>2, <1>1, DonateWellFormed
  <2>3. ASSUME NEW shares \in U64, Redeem(lp, shares) PROVE VaultInv'
    BY <2>3, <1>1, RedeemWellFormed DEF Redeem
  <2>4. ASSUME NEW shares \in U64, RequestWithdrawal(lp, shares) PROVE VaultInv'
    BY <2>4, <1>1, RequestWithdrawalWellFormed DEF RequestWithdrawal
  <2>5. ASSUME NEW i \in 1 .. MaxQueue, CancelWithdrawal(lp, i) PROVE VaultInv'
    BY <2>5, <1>1, CancelWithdrawalWellFormed, VaultAssumption DEF CancelWithdrawal
  <2>6. CASE Collect(lp)
    BY <2>6, <1>1, CollectWellFormed DEF Collect
  <2> QED
    BY <2>1, <2>2, <2>3, <2>4, <2>5, <2>6
<1>3. CASE ControllerNext
  <2>1. CASE LockForPolicy
    <3>1. sold' \in 0 .. MaxPolicies
      BY <2>1, VaultSystemAssumption DEF LockForPolicy
    <3> QED
      BY <2>1, <3>1, <1>1, IncreaseLockedWellFormed, VaultSystemAssumption
         DEF LockForPolicy
  <2>2. ASSUME NEW claimables \in Claimables,
               \/ SettleOnTime(claimables)
               \/ SettleWithPayout(claimables)
               \/ SettleNothing(claimables)
        PROVE  VaultInv'
    <3>1. Settlement
      BY <2>2, SettlementStep
    <3>2. UNCHANGED <<now, donated, sold>>
      BY <2>2 DEF SettleOnTime, SettleWithPayout, SettleNothing
    <3> QED
      BY <3>1, <3>2, <1>1 DEF Settlement
  <2> QED
    BY <1>3, <2>1, <2>2 DEF ControllerNext
\* Time passing keeps every request in the past.
<1>4. CASE Tick /\ UNCHANGED <<vault, donated, sold>>
  <2>1. now' \in Time /\ now' = now + 1
    BY <1>4, ChainAssumption DEF Tick, Time
  <2>2. \A i \in 1 .. Len(vault.requests) :
           vault.requests[i] \in WithdrawalRequest
    BY Fields, ElementOfSeq DEF WellFormed
  <2>3. \A i \in 1 .. Len(vault.requests) : vault.requests[i].timestamp <= now + 1
    BY <2>2, ChainAssumption DEF InOrder, WithdrawalRequest, Time
  <2> QED
    BY <1>4, <2>1, <2>3 DEF VaultInv, VaultTypeOK, WellFormed, InOrder
<1>5. CASE UNCHANGED vars
  BY <1>5 DEF vars, VaultInv, VaultTypeOK, WellFormed, InOrder
<1> QED
  BY <1>2, <1>3, <1>4, <1>5 DEF VaultNext

\* Every reachable vault is well formed and its queue in order: the invariant on
\* which every other result about the vault rests (contracts/programs/vault).
THEOREM VaultInvariant == VaultSpec => []VaultInv
  BY InitVaultInv, StepVaultInv, PTL DEF VaultSpec

\* Every amount stays in range and the queue's counter in its bound, whatever
\* the LPs and the controller call (VaultState, WithdrawalQueue, token accounts).
THEOREM VaultTypeCorrect == VaultSpec => []VaultTypeOK
<1>1. VaultInv => VaultTypeOK
  BY DEF VaultInv
<1> QED
  BY <1>1, VaultInvariant, PTL

\* The queue is first-in first-out, through every cancellation and drain.
THEOREM ArrivalOrder == VaultSpec => []QueueInArrivalOrder
<1>1. VaultInv => QueueInArrivalOrder
  BY DEF VaultInv, InOrder, QueueInArrivalOrder
<1> QED
  BY <1>1, VaultInvariant, PTL

-----------------------------------------------------------------------------
(* The books. *)

\* Every transaction is an LP's call, that moves what this LP owns, or a call
\* of the controller, that moves what nobody owns, or a plain transfer.
LEMMA EveryStepMoves ==
    ASSUME VaultInv, [VaultNext]_vars
    PROVE  \/ /\ UNCHANGED donated
              /\ \/ MovesNothing(vault, vault')
                 \/ \E lp \in LPs : MovesOnly(vault, vault', lp)
           \/ \E lp \in LPs, amount \in U64 : Donate(lp, amount)
<1>0. WellFormed(vault) /\ now \in Time
  BY DEF VaultInv, VaultTypeOK
<1>1. CASE LpNext
  <2> PICK lp \in LPs :
        \/ \E amount \in U64 : Deposit(lp, amount) \/ Donate(lp, amount)
        \/ \E shares \in U64 : Redeem(lp, shares) \/ RequestWithdrawal(lp, shares)
        \/ \E i \in 1 .. MaxQueue : CancelWithdrawal(lp, i)
        \/ Collect(lp)
    BY <1>1 DEF LpNext
  <2>1. ASSUME NEW amount \in U64, Deposit(lp, amount)
        PROVE  UNCHANGED donated /\ MovesOnly(vault, vault', lp)
    BY <1>0, <2>1, DepositMoves DEF Deposit
  <2>2. ASSUME NEW shares \in U64, Redeem(lp, shares)
        PROVE  UNCHANGED donated /\ MovesOnly(vault, vault', lp)
    BY <1>0, <2>2, RedeemMoves DEF Redeem
  <2>3. ASSUME NEW shares \in U64, RequestWithdrawal(lp, shares)
        PROVE  UNCHANGED donated /\ MovesOnly(vault, vault', lp)
    BY <1>0, <2>3, RequestWithdrawalMoves DEF RequestWithdrawal
  <2>4. ASSUME NEW i \in 1 .. MaxQueue, CancelWithdrawal(lp, i)
        PROVE  UNCHANGED donated /\ MovesOnly(vault, vault', lp)
    BY <1>0, <2>4, CancelWithdrawalMoves, VaultAssumption DEF CancelWithdrawal
  <2>5. ASSUME Collect(lp)
        PROVE  UNCHANGED donated /\ MovesOnly(vault, vault', lp)
    BY <1>0, <2>5, CollectMoves DEF Collect
  <2> QED
    BY <2>1, <2>2, <2>3, <2>4, <2>5
<1>2. CASE LockForPolicy
  BY <1>0, <1>2, IncreaseLockedMoves, VaultSystemAssumption DEF LockForPolicy
<1>3. ASSUME NEW claimables,
             \/ SettleOnTime(claimables)
             \/ SettleWithPayout(claimables)
             \/ SettleNothing(claimables)
      PROVE  UNCHANGED donated /\ MovesNothing(vault, vault')
  <2>1. UNCHANGED donated
    BY <1>3 DEF SettleOnTime, SettleWithPayout, SettleNothing
  <2> QED
    BY <1>3, <2>1, SettlementStep DEF Settlement
<1>4. CASE UNCHANGED <<vault, donated>>
  BY <1>0, <1>4, Numbers DEF MovesNothing
<1> QED
  BY <1>1, <1>2, <1>3, <1>4 DEF VaultNext, ControllerNext, vars

\* A plain transfer touches no book of the program.
LEMMA DonateMoves ==
    ASSUME WellFormed(vault), NEW lp \in LPs, NEW amount \in U64, Donate(lp, amount)
    PROVE  /\ vault'.shares = vault.shares /\ vault'.supply = vault.supply
           /\ vault'.requests = vault.requests /\ vault'.claimable = vault.claimable
           /\ vault'.total_managed_assets = vault.total_managed_assets
           /\ vault'.vault_tokens = vault.vault_tokens + amount
           /\ donated' = donated + amount
           /\ \A other \in LPs \ {lp} : vault'.stable[other] = vault.stable[other]
           /\ \A other \in LPs : Due(vault', other) = Due(vault, other)
<1>1. /\ vault'.shares = vault.shares /\ vault'.supply = vault.supply
      /\ vault'.requests = vault.requests /\ vault'.claimable = vault.claimable
      /\ vault'.total_managed_assets = vault.total_managed_assets
      /\ vault'.vault_tokens = vault.vault_tokens + amount
      /\ donated' = donated + amount
      /\ vault'.stable = [vault.stable EXCEPT ![lp] = @ - amount]
  BY DEF Donate, WellFormed, VaultType
<1>2. vault.stable \in [LPs -> U64]
  BY Fields DEF WellFormed
<1> QED
  BY <1>1, <1>2, SameQueueSameDue

\* What the token account holds beyond the books was donated, and every share
\* of the supply is in a balance.
BooksInv == Surplus(vault) = donated /\ SupplyIsHeld(vault)

\* Nothing is donated and no share is minted at first.
LEMMA InitBooksInv == VaultInit => BooksInv
<1> SUFFICES ASSUME VaultInit PROVE BooksInv
  OBVIOUS
<1>1. [lp \in LPs |-> LpFunds] \in [LPs -> U64]
  BY VaultSystemAssumption
<1>2. vault = initialize_vault([lp \in LPs |-> LpFunds]) /\ donated = 0
  BY DEF VaultInit
<1> QED
  BY <1>1, <1>2, InitialVault DEF BooksInv

\* BooksInv is inductive: every handler moves the parts of the surplus against each
\* other, and a donation moves the surplus.
LEMMA StepBooksInv == VaultInv /\ BooksInv /\ [VaultNext]_vars => BooksInv'
<1> SUFFICES ASSUME VaultInv, BooksInv, [VaultNext]_vars
             PROVE  BooksInv'
  OBVIOUS
<1>1. WellFormed(vault) /\ WellFormed(vault')
  BY StepVaultInv DEF VaultInv
<1>2. CASE /\ UNCHANGED donated
           /\ \/ MovesNothing(vault, vault')
              \/ \E lp \in LPs : MovesOnly(vault, vault', lp)
  <2>1. /\ Surplus(vault') = Surplus(vault)
        /\ SupplyIsHeld(vault) => SupplyIsHeld(vault')
    BY <1>1, <1>2, BooksFollow
  <2> QED
    BY <1>2, <2>1 DEF BooksInv
<1>3. ASSUME NEW lp \in LPs, NEW amount \in U64, Donate(lp, amount)
      PROVE  BooksInv'
  <2> DEFINE due(v) == [other \in LPs |-> Due(v, other)]
  <2>1. /\ vault'.shares = vault.shares /\ vault'.supply = vault.supply
        /\ vault'.total_managed_assets = vault.total_managed_assets
        /\ vault'.vault_tokens = vault.vault_tokens + amount
        /\ donated' = donated + amount
        /\ \A other \in LPs : Due(vault', other) = Due(vault, other)
    BY <1>1, <1>3, DonateMoves
  <2>2. due(vault') = due(vault)
    BY <2>1
  <2>3. SumFunction(due(vault)) \in Int
    <3>1. due(vault) \in [LPs -> Int]
      BY <1>1, Numbers
    <3> HIDE DEF due
    <3> QED
      BY <3>1, SumType, VaultAssumption
  <2>4. /\ vault.vault_tokens \in Nat /\ vault.total_managed_assets \in Nat
        /\ amount \in Nat
    BY <1>1, Numbers, Amounts
  <2>5. Surplus(vault') = Surplus(vault) + amount
    <3>1. /\ Surplus(vault) = vault.vault_tokens - vault.total_managed_assets
                              - SumFunction(due(vault))
          /\ Surplus(vault') = vault'.vault_tokens - vault'.total_managed_assets
                               - SumFunction(due(vault'))
      BY DEF Surplus
    <3> HIDE DEF due
    <3> QED
      BY <2>1, <2>2, <2>3, <2>4, <3>1
  <2> QED
    BY <2>1, <2>5 DEF BooksInv, SupplyIsHeld
<1> QED
  BY <1>2, <1>3, EveryStepMoves

\* BooksInv is an invariant of the vault.
LEMMA BooksInvariant == VaultSpec => []BooksInv
  BY VaultInvariant, InitBooksInv, StepBooksInv, PTL DEF VaultSpec

\* Every PUSD of the token account is managed, queued, credited or donated, and
\* is so exactly once, whatever the LPs and the controller call in what order.
THEOREM BooksBalance == VaultSpec => []EveryUnitBookedOnce
<1>1. ASSUME VaultInv, BooksInv PROVE EveryUnitBookedOnce
  <2> DEFINE due == [lp \in LPs |-> Due(vault, lp)]
             booked == SumFunction(due)
  <2>1. WellFormed(vault)
    BY <1>1 DEF VaultInv
  <2>2. booked \in Int
    <3>1. due \in [LPs -> Int]
      BY <2>1, Numbers
    <3> HIDE DEF due
    <3> QED
      BY <3>1, SumType, VaultAssumption
  <2>3. vault.vault_tokens - vault.total_managed_assets - booked = donated
    BY <1>1 DEF BooksInv, Surplus
  <2>4. vault.vault_tokens \in Int /\ vault.total_managed_assets \in Int /\ donated \in Int
    BY <1>1, <2>1, Numbers DEF VaultInv, VaultTypeOK
  <2>5. booked = SumFunction([lp \in LPs |-> Queued(vault, lp) + vault.claimable[lp]])
    BY DEF Due
  <2> HIDE DEF booked
  <2>6. vault.vault_tokens = donated + vault.total_managed_assets + booked
    BY <2>2, <2>3, <2>4
  <2> QED
    BY <2>5, <2>6 DEF EveryUnitBookedOnce
<1> QED
  BY <1>1, VaultInvariant, BooksInvariant, PTL

\* The counter of the queue and the supply of the mint, each maintained by
\* several handlers, never drift from what they count.
THEOREM CountersNeverDrift == VaultSpec => []CountersAgree
<1>1. VaultInv /\ BooksInv => CountersAgree
  BY DEF VaultInv, WellFormed, BooksInv, SupplyIsHeld, CountersAgree
<1> QED
  BY <1>1, VaultInvariant, BooksInvariant, PTL

\* No transaction moves what two LPs own, and a drain moves what nobody owns:
\* no position read from an older queue and no stale list of claimable accounts
\* lets one LP's call take another's PUSD or shares.
THEOREM OnlyOwn == VaultSpec => OnlyOwnHoldingsMove
<1> DEFINE Moved(lp) == Holdings(lp)' # Holdings(lp)
           Own == /\ \A lp, other \in LPs :
                        Moved(lp) /\ lp # other => Holdings(other)' = Holdings(other)
                  /\ vault'.claimable # vault.claimable /\ vault'.requests # vault.requests
                        => \A lp \in LPs : Holdings(lp)' = Holdings(lp)
<1>1. ASSUME VaultInv, [VaultNext]_vars
      PROVE  Own
  <2>1. WellFormed(vault) /\ WellFormed(vault')
    BY <1>1, StepVaultInv DEF VaultInv
  \* In terms of what the vault owes.
  <2>2. ASSUME NEW lp \in LPs, vault'.shares[lp] = vault.shares[lp],
               vault'.stable[lp] = vault.stable[lp], Due(vault', lp) = Due(vault, lp)
        PROVE  Holdings(lp)' = Holdings(lp)
    <3>1. \A v \in {vault, vault'} :
             v.stable[lp] + v.claimable[lp] + Queued(v, lp) = v.stable[lp] + Due(v, lp)
      BY <2>1, Numbers DEF Due
    <3> QED
      BY <2>2, <3>1 DEF Holdings
  <2>3. CASE MovesNothing(vault, vault')
    BY <2>2, <2>3 DEF MovesNothing
  <2>4. ASSUME NEW c \in LPs, MovesOnly(vault, vault', c)
        PROVE  Own
    <3>1. \A lp \in LPs \ {c} : Holdings(lp)' = Holdings(lp)
      BY <2>2, <2>4 DEF MovesOnly
    <3>2. vault'.claimable = vault.claimable \/ vault'.requests = vault.requests
      BY <2>4 DEF MovesOnly
    <3> QED
      BY <3>1, <3>2
  <2>5. ASSUME NEW c \in LPs, NEW amount \in U64, Donate(c, amount)
        PROVE  Own
    <3>1. /\ vault'.shares = vault.shares /\ vault'.claimable = vault.claimable
          /\ \A lp \in LPs \ {c} : vault'.stable[lp] = vault.stable[lp]
          /\ \A lp \in LPs : Due(vault', lp) = Due(vault, lp)
      BY <2>1, <2>5, DonateMoves
    <3>2. \A lp \in LPs \ {c} : Holdings(lp)' = Holdings(lp)
      BY <2>2, <3>1
    <3> QED
      BY <3>1, <3>2
  <2> QED
    BY <1>1, <2>3, <2>4, <2>5, EveryStepMoves
<1>2. VaultInv /\ [VaultNext]_vars => [Own]_vars
  BY <1>1
<1> QED
  BY <1>2, VaultInvariant, PTL DEF VaultSpec, OnlyOwnHoldingsMove

-----------------------------------------------------------------------------
(* The price of a share. *)

\* Of all transactions, only a deposit and a cancellation raise the supply, and
\* only redeem and request_withdrawal lower it.
LEMMA SupplyStep ==
    ASSUME VaultInv, [VaultNext]_vars
    PROVE  \/ vault'.supply = vault.supply
           \/ \E lp \in LPs :
                 \/ \E amount \in U64 : Deposit(lp, amount)
                 \/ \E shares \in U64 :
                       Redeem(lp, shares) \/ RequestWithdrawal(lp, shares)
                 \/ \E i \in 1 .. MaxQueue : CancelWithdrawal(lp, i)
<1>0. WellFormed(vault)
  BY DEF VaultInv
<1>1. CASE LpNext
  <2>1. ASSUME NEW lp \in LPs, NEW amount \in U64, Donate(lp, amount)
        PROVE  vault'.supply = vault.supply
    BY <1>0, <2>1, DonateWellFormed
  <2>2. ASSUME NEW lp \in LPs, Collect(lp)
        PROVE  vault'.supply = vault.supply
    BY <1>0, <2>2, CollectWellFormed DEF Collect
  <2> QED
    BY <1>1, <2>1, <2>2 DEF LpNext
<1>2. CASE ControllerNext
  <2>1. CASE LockForPolicy
    BY <1>0, <2>1, IncreaseLockedWellFormed, VaultSystemAssumption DEF LockForPolicy
  <2>2. CASE ~LockForPolicy
    BY <1>2, <2>2, SettlementStep DEF ControllerNext, Settlement
  <2> QED
    BY <2>1, <2>2
<1>3. CASE UNCHANGED vault
  BY <1>3
<1> QED
  BY <1>1, <1>2, <1>3 DEF VaultNext, vars

\* What a redemption, at once or queued, takes out of the managed assets.
LEMMA RedemptionMoves ==
    ASSUME WellFormed(vault), NEW lp \in LPs, NEW shares \in U64,
           Redeem(lp, shares) \/ RequestWithdrawal(lp, shares)
    PROVE  /\ shares <= vault.supply
           /\ vault'.supply = vault.supply - shares
           /\ vault'.total_managed_assets =
                 vault.total_managed_assets
                 - compute_assets_for_redeem(shares, vault.supply,
                                             vault.total_managed_assets)
<1>1. CASE Redeem(lp, shares)
  BY <1>1 DEF Redeem, redeem, When, WellFormed, VaultType
<1>2. CASE RequestWithdrawal(lp, shares)
  BY <1>2 DEF RequestWithdrawal, request_withdrawal, When, WellFormed, VaultType
<1> QED
  BY <1>1, <1>2

\* A cancellation shortens the queue: it is not taken for a deposit.
LEMMA CancellationIsNoDeposit ==
    ASSUME WellFormed(vault), NEW lp \in LPs, NEW i \in 1 .. MaxQueue,
           CancelWithdrawal(lp, i)
    PROVE  vault'.requests # vault.requests /\ vault'.supply >= vault.supply
<1>1. /\ i \in 1 .. Len(vault.requests)
      /\ vault'.requests = RemoveAt(vault.requests, i)
      /\ vault'.supply = vault.supply + vault.requests[i].shares
  BY DEF CancelWithdrawal, cancel_withdrawal, When, WellFormed, VaultType
<1>2. vault.requests \in Seq(WithdrawalRequest) /\ vault.supply \in U64
  BY Fields DEF WellFormed
<1>3. Len(vault'.requests) = Len(vault.requests) - 1 /\ Len(vault.requests) \in Nat
  BY <1>1, <1>2, RemoveAtProperties, LenProperties
<1>4. vault.requests[i].shares \in U64
  <2>1. vault.requests[i] \in WithdrawalRequest
    BY <1>1, <1>2, ElementOfSeq
  <2> QED
    BY <2>1 DEF WithdrawalRequest
<1>5. vault.supply \in Nat /\ vault.requests[i].shares \in Nat
  BY <1>2, <1>4, Amounts
<1> QED
  BY <1>1, <1>3, <1>5

\* deposit never dilutes the existing holders, in any reachable state.
THEOREM NoDilution == VaultSpec => DepositNeverDilutes
<1> DEFINE Undiluted ==
      (vault'.total_managed_assets + VIRTUAL_ASSETS) * (vault.supply + VIRTUAL_SHARES)
        >= (vault.total_managed_assets + VIRTUAL_ASSETS)
              * (vault'.supply + VIRTUAL_SHARES)
<1>1. ASSUME VaultInv, [VaultNext]_vars, IsDeposit
      PROVE  Undiluted
  <2>1. /\ WellFormed(vault) /\ vault.supply \in Nat
        /\ vault.total_managed_assets \in Nat
    BY <1>1, Fields, Amounts DEF VaultInv, WellFormed
  <2>2. \A lp \in LPs, shares \in U64 :
           ~(Redeem(lp, shares) \/ RequestWithdrawal(lp, shares))
    <3> SUFFICES ASSUME NEW lp \in LPs, NEW shares \in U64,
                        Redeem(lp, shares) \/ RequestWithdrawal(lp, shares)
                 PROVE  FALSE
      OBVIOUS
    <3>1. vault'.supply = vault.supply - shares /\ shares \in Nat
      BY <2>1, RedemptionMoves, Amounts
    <3> QED
      BY <1>1, <2>1, <3>1 DEF IsDeposit
  <2>3. PICK lp \in LPs, amount \in U64 : Deposit(lp, amount)
    BY <1>1, <2>1, <2>2, SupplyStep, CancellationIsNoDeposit DEF IsDeposit
  <2>4. /\ vault'.total_managed_assets = vault.total_managed_assets + amount
        /\ vault'.supply =
              vault.supply + compute_shares_for_deposit(amount, vault.supply,
                                                        vault.total_managed_assets)
    BY <2>1, <2>3 DEF Deposit, deposit, When, WellFormed, VaultType
  <2>5. amount \in Nat
    BY Amounts
  <2> QED
    BY <2>1, <2>4, <2>5, DepositKeepsPrice
<1>2. VaultInv /\ [VaultNext]_vars => [IsDeposit => Undiluted]_vars
  BY <1>1
<1> QED
  BY <1>2, VaultInvariant, PTL DEF VaultSpec, DepositNeverDilutes

\* redeem and request_withdrawal pay the fair value of the shares they burn,
\* rounded up and by less than one unit, in any reachable state.
THEOREM FairRedemption == VaultSpec => RedemptionPaysFairValue
<1> DEFINE Fair ==
      LET paid == vault.total_managed_assets - vault'.total_managed_assets
          burnt == vault.supply - vault'.supply
          denom == vault.supply + VIRTUAL_SHARES
          fair == burnt * (vault.total_managed_assets + VIRTUAL_ASSETS)
      IN fair <= paid * denom /\ paid * denom < fair + denom
<1>1. ASSUME VaultInv, [VaultNext]_vars, IsRedemption
      PROVE  Fair
  <2>1. /\ WellFormed(vault) /\ vault.supply \in Nat
        /\ vault.total_managed_assets \in Nat
    BY <1>1, Fields, Amounts DEF VaultInv, WellFormed
  <2>2. PICK lp \in LPs, shares \in U64 :
            Redeem(lp, shares) \/ RequestWithdrawal(lp, shares)
    <3>1. \A lp \in LPs, amount \in U64 : ~Deposit(lp, amount)
      <4> SUFFICES ASSUME NEW lp \in LPs, NEW amount \in U64, Deposit(lp, amount)
                   PROVE  FALSE
        OBVIOUS
      <4>1. vault'.supply =
              vault.supply + compute_shares_for_deposit(amount, vault.supply,
                                                        vault.total_managed_assets)
        BY <2>1 DEF Deposit, deposit, When, WellFormed, VaultType
      <4>2. compute_shares_for_deposit(amount, vault.supply,
                                       vault.total_managed_assets) \in Nat
        BY <2>1, DepositRoundsDown, Amounts
      <4> QED
        BY <1>1, <2>1, <4>1, <4>2 DEF IsRedemption
    <3>2. \A lp \in LPs, i \in 1 .. MaxQueue : ~CancelWithdrawal(lp, i)
      <4> SUFFICES ASSUME NEW lp \in LPs, NEW i \in 1 .. MaxQueue,
                          CancelWithdrawal(lp, i)
                   PROVE  FALSE
        OBVIOUS
      <4>1. vault'.supply >= vault.supply /\ WellFormed(vault')
        BY <1>1, <2>1, CancellationIsNoDeposit, StepVaultInv DEF VaultInv
      <4>2. vault'.supply \in Nat
        BY <4>1, Fields, Amounts DEF WellFormed
      <4> QED
        BY <1>1, <2>1, <4>1, <4>2 DEF IsRedemption
    <3>3. vault'.supply # vault.supply
      BY <1>1, <2>1 DEF IsRedemption
    <3> QED
      BY <1>1, <3>1, <3>2, <3>3, SupplyStep
  <2> DEFINE paid == compute_assets_for_redeem(shares, vault.supply,
                                               vault.total_managed_assets)
             denom == vault.supply + VIRTUAL_SHARES
             fair == shares * (vault.total_managed_assets + VIRTUAL_ASSETS)
  <2>3. /\ vault'.supply = vault.supply - shares
        /\ vault'.total_managed_assets = vault.total_managed_assets - paid
    BY <2>1, <2>2, RedemptionMoves
  <2>4. shares \in Nat
    BY Amounts
  <2>5. denom \in Nat
    BY <2>1, ShareMathAssumption
  <2>6. paid \in Nat /\ fair <= denom * paid /\ denom * paid < fair + denom
    BY <2>1, <2>4, RedeemRoundsUp
  <2> HIDE DEF paid, denom
  <2>7. /\ vault.total_managed_assets - vault'.total_managed_assets = paid
        /\ vault.supply - vault'.supply = shares
        /\ denom * paid = paid * denom
    BY <2>1, <2>3, <2>4, <2>5, <2>6
  <2> QED
    BY <2>6, <2>7 DEF denom
<1>2. VaultInv /\ [VaultNext]_vars => [IsRedemption => Fair]_vars
  BY <1>1
<1> QED
  BY <1>2, VaultInvariant, PTL DEF VaultSpec, RedemptionPaysFairValue

\* deposit and then redeem never return more PUSD than went in, in any
\* reachable state: the two roundings together favour the vault.
THEOREM NoRoundTripProfit == VaultSpec => []RoundTripNeverProfits
<1>1. ASSUME VaultInv, NEW lp \in LPs, NEW amount \in U64,
             NEW v1 \in deposit(vault, lp, amount),
             NEW v2 \in redeem(v1, lp, v1.shares[lp] - vault.shares[lp])
      PROVE  v2.stable[lp] <= vault.stable[lp]
  <2> DEFINE minted == compute_shares_for_deposit(amount, vault.supply,
                                                  vault.total_managed_assets)
             burnt == v1.shares[lp] - vault.shares[lp]
             paid == compute_assets_for_redeem(burnt, v1.supply,
                                               v1.total_managed_assets)
  <2>1. /\ WellFormed(vault) /\ amount \in Nat
        /\ vault.supply \in Nat /\ vault.total_managed_assets \in Nat
        /\ vault.shares[lp] \in Nat /\ vault.stable[lp] \in Nat
    BY <1>1, Fields, Amounts DEF VaultInv, WellFormed
  <2>2. minted \in Nat
    BY <2>1, DepositRoundsDown
  <2>3. /\ v1.supply = vault.supply + minted
        /\ v1.total_managed_assets = vault.total_managed_assets + amount
        /\ v1.shares[lp] = vault.shares[lp] + minted
        /\ v1.stable[lp] = vault.stable[lp] - amount
    <3>1. /\ v1.supply = vault.supply + minted
          /\ v1.total_managed_assets = vault.total_managed_assets + amount
          /\ v1.shares = [vault.shares EXCEPT ![lp] = @ + minted]
          /\ v1.stable = [vault.stable EXCEPT ![lp] = @ - amount]
      BY <2>1 DEF deposit, When, WellFormed, VaultType
    <3>2. vault.shares \in [LPs -> U64] /\ vault.stable \in [LPs -> U64]
      BY <2>1, Fields DEF WellFormed
    <3> QED
      BY <3>1, <3>2
  <2>4. WellFormed(v1)
    BY <2>1, DepositWellFormed
  <2>5. v2.stable[lp] = v1.stable[lp] + paid
    <3>1. v2.stable = [v1.stable EXCEPT ![lp] = @ + paid]
      BY <2>4 DEF redeem, When, WellFormed, VaultType
    <3>2. v1.stable \in [LPs -> U64]
      BY <2>4, Fields DEF WellFormed
    <3> QED
      BY <3>1, <3>2
  <2> HIDE DEF minted
  <2>6. burnt = minted
    BY <2>1, <2>2, <2>3
  <2>7. paid = compute_assets_for_redeem(minted, vault.supply + minted,
                                         vault.total_managed_assets + amount)
    BY <2>3, <2>6
  <2>8. paid <= amount
    BY <2>1, <2>7, RoundTripReturnsNoMore DEF minted
  <2>9. paid \in Nat
    <3>1. /\ vault.supply + minted \in Nat
          /\ vault.total_managed_assets + amount \in Nat
      BY <2>1, <2>2
    <3> QED
      BY <2>2, <2>7, <3>1, RedeemRoundsUp
  <2> HIDE DEF paid, burnt
  <2> QED
    BY <2>1, <2>3, <2>5, <2>8, <2>9
<1>2. VaultInv => RoundTripNeverProfits
  BY <1>1 DEF RoundTripNeverProfits
<1> QED
  BY <1>2, VaultInvariant, PTL

-----------------------------------------------------------------------------
(* How the queue moves. *)

\* Every position of the queue holds a request at least as late as before; a
\* position past the old end holds one made now.
Advanced(old, new) ==
    \A i \in 1 .. Len(new) :
        IF i \in 1 .. Len(old) THEN new[i].timestamp >= old[i].timestamp
                               ELSE new[i].timestamp >= now

\* A request of the queue carries a time.
LEMMA Timestamps ==
    ASSUME WellFormed(vault), NEW i \in 1 .. Len(vault.requests)
    PROVE  vault.requests[i] \in WithdrawalRequest /\ vault.requests[i].timestamp \in Nat
<1>1. vault.requests[i] \in WithdrawalRequest
  BY Fields, ElementOfSeq DEF WellFormed
<1> QED
  BY <1>1 DEF WithdrawalRequest, Time

\* A queue that stays has advanced.
LEMMA SameAdvanced ==
    ASSUME WellFormed(vault)
    PROVE  Advanced(vault.requests, vault.requests)
  BY Timestamps DEF Advanced

\* Taking requests out, here or there, moves later ones forward.
LEMMA PartAdvanced ==
    ASSUME WellFormed(vault), InOrder(vault.requests), NEW new, Len(new) \in Nat,
           Len(new) <= Len(vault.requests),
           NEW position \in [1 .. Len(new) -> 1 .. Len(vault.requests)],
           \A j \in 1 .. Len(new) :
              new[j] = vault.requests[position[j]] /\ j <= position[j]
    PROVE  Advanced(vault.requests, new)
<1>1. Len(vault.requests) \in Nat
  BY Fields, LenProperties DEF WellFormed
<1> SUFFICES ASSUME NEW i \in 1 .. Len(new)
             PROVE  /\ i \in 1 .. Len(vault.requests)
                    /\ new[i].timestamp >= vault.requests[i].timestamp
  BY DEF Advanced
<1>2. i \in 1 .. Len(vault.requests) /\ position[i] \in 1 .. Len(vault.requests)
  BY <1>1
<1>3. /\ vault.requests[i].timestamp \in Nat
      /\ vault.requests[position[i]].timestamp \in Nat
  BY <1>2, Timestamps
<1>4. CASE i = position[i]
  BY <1>2, <1>3, <1>4
<1>5. CASE i < position[i]
  <2>1. vault.requests[i].timestamp <= vault.requests[position[i]].timestamp
    BY <1>2, <1>5 DEF InOrder
  <2> QED
    BY <1>2, <1>3, <2>1
<1> QED
  BY <1>2, <1>4, <1>5

\* request_withdrawal appends a request of the present.
LEMMA RequestAdvances ==
    ASSUME WellFormed(vault), now \in Time, NEW lp, NEW shares,
           NEW w \in request_withdrawal(vault, lp, shares)
    PROVE  Advanced(vault.requests, w.requests)
<1> DEFINE request ==
      [ owner |-> lp, shares |-> shares,
        pending_assets |-> compute_assets_for_redeem(shares, vault.supply,
                                                     vault.total_managed_assets),
        timestamp |-> now ]
<1>1. w.requests = Append(vault.requests, request)
  BY DEF request_withdrawal, When, WellFormed, VaultType
<1>2. request.timestamp = now
  OBVIOUS
<1> HIDE DEF request
<1>3. vault.requests \in Seq(WithdrawalRequest)
  BY Fields DEF WellFormed
<1>4. /\ Len(w.requests) = Len(vault.requests) + 1
      /\ \A i \in 1 .. Len(vault.requests) : w.requests[i] = vault.requests[i]
      /\ w.requests[Len(vault.requests) + 1] = request
      /\ Len(vault.requests) \in Nat
  BY <1>1, <1>3
<1>5. now \in Nat
  BY DEF Time
<1> QED
  BY <1>2, <1>4, <1>5, Timestamps DEF Advanced

\* cancel_withdrawal moves the requests behind one step forward.
LEMMA CancelAdvances ==
    ASSUME WellFormed(vault), InOrder(vault.requests), NEW lp, NEW i,
           NEW w \in cancel_withdrawal(vault, lp, i)
    PROVE  Advanced(vault.requests, w.requests)
<1>1. i \in 1 .. Len(vault.requests) /\ w.requests = RemoveAt(vault.requests, i)
  BY DEF cancel_withdrawal, When, WellFormed, VaultType
<1>2. /\ Len(w.requests) = Len(vault.requests) - 1
      /\ \A j \in 1 .. Len(vault.requests) - 1 :
            w.requests[j] = vault.requests[IF j < i THEN j ELSE j + 1]
      /\ Len(vault.requests) \in Nat
  <2>1. vault.requests \in Seq(WithdrawalRequest)
    BY Fields DEF WellFormed
  <2> QED
    BY <1>1, <2>1, RemoveAtProperties, LenProperties
<1> DEFINE position == [j \in 1 .. Len(w.requests) |-> IF j < i THEN j ELSE j + 1]
<1>3. /\ position \in [1 .. Len(w.requests) -> 1 .. Len(vault.requests)]
      /\ \A j \in 1 .. Len(w.requests) :
            w.requests[j] = vault.requests[position[j]] /\ j <= position[j]
      /\ Len(w.requests) \in Nat /\ Len(w.requests) <= Len(vault.requests)
  BY <1>1, <1>2
<1> HIDE DEF position
<1> QED
  BY <1>3, PartAdvanced

\* What a drain leaves is the rear of the queue.
LEMMA DrainAdvances ==
    ASSUME WellFormed(vault), InOrder(vault.requests),
           NEW n \in 0 .. Len(vault.requests)
    PROVE  Advanced(vault.requests,
                    SubSeq(vault.requests, n + 1, Len(vault.requests)))
<1> DEFINE rear == SubSeq(vault.requests, n + 1, Len(vault.requests))
           position == [j \in 1 .. Len(rear) |-> n + j]
<1>1. /\ Len(rear) = Len(vault.requests) - n
      /\ \A j \in 1 .. Len(vault.requests) - n : rear[j] = vault.requests[n + j]
      /\ Len(vault.requests) \in Nat
  <2>1. vault.requests \in Seq(WithdrawalRequest)
    BY Fields DEF WellFormed
  <2> QED
    BY <2>1, DrainProperties, LenProperties
<1> HIDE DEF rear
<1>2. /\ position \in [1 .. Len(rear) -> 1 .. Len(vault.requests)]
      /\ \A j \in 1 .. Len(rear) :
            rear[j] = vault.requests[position[j]] /\ j <= position[j]
      /\ Len(rear) \in Nat /\ Len(rear) <= Len(vault.requests)
  BY <1>1
<1> HIDE DEF position
<1>3. Advanced(vault.requests, rear)
  BY <1>2, PartAdvanced
<1> QED
  BY <1>3 DEF rear

\* The drain of a settlement takes the front of the queue, and nothing else.
LEMMA HousekeepingDrains ==
    ASSUME NEW v, WellFormed(v), now \in Time, NEW claimables, NEW day,
           NEW w \in housekeeping(v, claimables, day)
    PROVE  \E n \in 0 .. Len(v.requests) :
              w.requests = SubSeq(v.requests, n + 1, Len(v.requests))
<1>1. PICK drained \in process_withdrawal_queue(v, claimables) :
          w \in snapshot(drained, day)
  BY DEF housekeeping
<1>2. PICK filled \in Fillable(v, claimables) :
          drained.requests = SubSeq(v.requests, filled + 1, Len(v.requests))
  BY DEF process_withdrawal_queue, When, WellFormed, VaultType
<1>3. w.requests = drained.requests
  BY <1>1, ProcessWithdrawalQueueWellFormed, SnapshotWellFormed
<1> QED
  BY <1>2, <1>3 DEF Fillable

\* A settlement's drain moves all that is left forward.
LEMMA SettlementAdvances ==
    ASSUME VaultInv, NEW claimables,
           \/ SettleOnTime(claimables)
           \/ SettleWithPayout(claimables)
           \/ SettleNothing(claimables)
    PROVE  Advanced(vault.requests, vault'.requests)
<1>1. /\ now \in Time /\ WellFormed(vault) /\ InOrder(vault.requests)
      /\ PREMIUM \in Nat /\ PAYOFF \in Nat /\ PAYOFF - PREMIUM \in Nat
  <2>1. PREMIUM \in Nat /\ PAYOFF \in Nat
    BY VaultSystemAssumption, Amounts
  <2> QED
    BY <2>1, VaultSystemAssumption DEF VaultInv, VaultTypeOK
<1>2. PICK settled :
          /\ WellFormed(settled) /\ settled.requests = vault.requests
          /\ vault' \in housekeeping(settled, claimables, Day(now))
  <2>1. CASE SettleOnTime(claimables)
    BY <1>1, <2>1, SettlePremiumWellFormed DEF SettleOnTime
  <2>2. CASE SettleWithPayout(claimables)
    BY <1>1, <2>2, SettlePayoutWellFormed DEF SettleWithPayout
  <2>3. CASE SettleNothing(claimables)
    BY <1>1, <2>3 DEF SettleNothing
  <2> QED
    BY <2>1, <2>2, <2>3
<1>3. PICK n \in 0 .. Len(vault.requests) :
          vault'.requests = SubSeq(vault.requests, n + 1, Len(vault.requests))
  BY <1>1, <1>2, HousekeepingDrains
<1> QED
  BY <1>1, <1>3, DrainAdvances

\* Every step of the vault advances the queue, and time.
LEMMA StepAdvances ==
    ASSUME VaultInv, [VaultNext]_vars
    PROVE  /\ Advanced(vault.requests, vault'.requests)
           /\ now \in Nat /\ now' \in Nat /\ now <= now'
<1>0. WellFormed(vault) /\ InOrder(vault.requests) /\ now \in Time /\ now \in Nat
  BY DEF VaultInv, VaultTypeOK, Time
<1> USE <1>0
<1>1. CASE LpNext
  <2> PICK lp \in LPs :
        \/ \E amount \in U64 : Deposit(lp, amount) \/ Donate(lp, amount)
        \/ \E shares \in U64 : Redeem(lp, shares) \/ RequestWithdrawal(lp, shares)
        \/ \E i \in 1 .. MaxQueue : CancelWithdrawal(lp, i)
        \/ Collect(lp)
    BY <1>1 DEF LpNext
  <2>1. now' = now
    BY DEF Deposit, Donate, Redeem, RequestWithdrawal, CancelWithdrawal, Collect
  <2>2. ASSUME vault'.requests = vault.requests
        PROVE  Advanced(vault.requests, vault'.requests)
    BY <2>2, SameAdvanced
  <2>3. ASSUME NEW amount \in U64, Deposit(lp, amount) \/ Donate(lp, amount)
        PROVE  Advanced(vault.requests, vault'.requests)
    BY <2>2, <2>3, DepositWellFormed, DonateWellFormed DEF Deposit
  <2>4. ASSUME NEW shares \in U64, Redeem(lp, shares)
        PROVE  Advanced(vault.requests, vault'.requests)
    BY <2>2, <2>4, RedeemWellFormed DEF Redeem
  <2>5. ASSUME NEW shares \in U64, RequestWithdrawal(lp, shares)
        PROVE  Advanced(vault.requests, vault'.requests)
    BY <2>5, RequestAdvances DEF RequestWithdrawal
  <2>6. ASSUME NEW i \in 1 .. MaxQueue, CancelWithdrawal(lp, i)
        PROVE  Advanced(vault.requests, vault'.requests)
    BY <2>6, CancelAdvances DEF CancelWithdrawal
  <2>7. ASSUME Collect(lp)
        PROVE  Advanced(vault.requests, vault'.requests)
    BY <2>2, <2>7, CollectWellFormed DEF Collect
  <2> QED
    BY <2>1, <2>3, <2>4, <2>5, <2>6, <2>7
<1>2. CASE ControllerNext
  <2>1. now' = now
    BY <1>2 DEF ControllerNext, LockForPolicy, SettleOnTime, SettleWithPayout,
                SettleNothing
  <2>2. CASE LockForPolicy
    BY <2>1, <2>2, SameAdvanced, IncreaseLockedWellFormed, VaultSystemAssumption
       DEF LockForPolicy
  <2>3. CASE ~LockForPolicy
    BY <1>2, <2>1, <2>3, SettlementAdvances DEF ControllerNext
  <2> QED
    BY <2>2, <2>3
<1>3. CASE Tick /\ UNCHANGED <<vault, donated, sold>>
  BY <1>3, SameAdvanced DEF Tick
<1>4. CASE UNCHANGED vars
  BY <1>4, SameAdvanced DEF vars
<1> QED
  BY <1>1, <1>2, <1>3, <1>4 DEF VaultNext

-----------------------------------------------------------------------------
(* The invariant. *)

\* What the position a row names holds by now is no earlier than the row.
StillNoEarlier(row) ==
    /\ row.request.timestamp \in Nat /\ row.request.timestamp <= now
    /\ row.index \in 1 .. Len(vault.requests)
          => vault.requests[row.index].timestamp >= row.request.timestamp

PageInv ==
    /\ page = [lp \in Users |-> page[lp]]
    /\ \A lp \in Users :
          /\ page[lp].shown \in BOOLEAN
          /\ page[lp].shares \in U64 /\ page[lp].stable \in U64
          /\ page[lp].queued \subseteq Row
          /\ \A row \in page[lp].queued : StillNoEarlier(row)
    /\ pending \subseteq Tx
    /\ \A tx \in pending : StillNoEarlier(tx.row)

EarnInv == VaultInv /\ PageInv

\* A page that shows no row shows none that is too late.
LEMMA NoRowIsNoEarlier ==
    ASSUME now \in Nat
    PROVE  StillNoEarlier(NoRow)
  BY DEF StillNoEarlier, NoRow

\* A row once no later than what stands at its position stays so.
LEMMA StillNoEarlierStep ==
    ASSUME VaultInv, VaultInv', [VaultNext]_vars, NEW row, StillNoEarlier(row)
    PROVE  StillNoEarlier(row)'
<1>1. /\ Advanced(vault.requests, vault'.requests)
      /\ now \in Nat /\ now' \in Nat /\ now <= now'
  BY StepAdvances
<1>2. WellFormed(vault) /\ WellFormed(vault)'
  BY DEF VaultInv
<1>3. row.request.timestamp \in Nat /\ row.request.timestamp <= now
  BY DEF StillNoEarlier
<1>4. ASSUME row.index \in 1 .. Len(vault'.requests)
      PROVE  vault'.requests[row.index].timestamp >= row.request.timestamp
  <2>1. vault'.requests[row.index].timestamp \in Nat
    <3>1. vault'.requests \in Seq(WithdrawalRequest)
      BY <1>2, Fields DEF WellFormed
    <3>2. vault'.requests[row.index] \in WithdrawalRequest
      BY <1>4, <3>1, ElementOfSeq
    <3> QED
      BY <3>2 DEF WithdrawalRequest, Time
  <2>2. CASE row.index \in 1 .. Len(vault.requests)
    <3>1. /\ vault'.requests[row.index].timestamp >= vault.requests[row.index].timestamp
          /\ vault.requests[row.index].timestamp \in Nat
          /\ vault.requests[row.index].timestamp >= row.request.timestamp
      BY <1>1, <1>2, <1>4, <2>2, Timestamps DEF Advanced, StillNoEarlier
    <3> QED
      BY <1>3, <2>1, <3>1
  <2>3. CASE row.index \notin 1 .. Len(vault.requests)
    <3>1. vault'.requests[row.index].timestamp >= now
      BY <1>1, <1>4, <2>3 DEF Advanced
    <3> QED
      BY <1>1, <1>3, <2>1, <3>1
  <2> QED
    BY <2>2, <2>3
<1> QED
  BY <1>1, <1>3, <1>4 DEF StillNoEarlier

\* A transaction that lands is a call of its LP, as in VaultSystem.
LEMMA LandsIsACall ==
    ASSUME EarnInv, NEW tx \in pending, Lands(tx)
    PROVE  VaultNext
<1>1. /\ tx \in Tx /\ tx.lp \in LPs /\ tx.amount \in U64
  BY EarnPageAssumption DEF EarnInv, PageInv, Tx
<1>2. vault' \in Handler(tx, vault) /\ UNCHANGED <<now, donated, sold>>
  BY DEF Lands
<1>3. LpNext
  <2>1. CASE tx.op = "deposit"
    BY <1>1, <1>2, <2>1 DEF Handler, LpNext, Deposit
  <2>2. CASE tx.op = "redeem"
    BY <1>1, <1>2, <2>2 DEF Handler, LpNext, Redeem
  <2>3. CASE tx.op = "request_withdrawal"
    BY <1>1, <1>2, <2>3 DEF Handler, LpNext, RequestWithdrawal
  <2>4. CASE tx.op = "cancel_withdrawal"
    <3>1. vault' \in cancel_withdrawal(vault, tx.lp, tx.row.index)
      BY <1>2, <2>4 DEF Handler
    <3>2. tx.row.index \in 1 .. Len(vault.requests)
      BY <3>1 DEF cancel_withdrawal
    <3>3. tx.row.index \in 1 .. MaxQueue
      <4>1. /\ Len(vault.requests) = vault.withdrawal_queue_count
            /\ vault.withdrawal_queue_count \in 0 .. MaxQueue
        BY Fields DEF EarnInv, VaultInv, WellFormed
      <4> QED
        BY <3>2, <4>1, VaultAssumption
    <3> QED
      BY <1>1, <1>2, <3>1, <3>3 DEF LpNext, CancelWithdrawal
  <2>5. CASE tx.op = "collect"
    BY <1>1, <1>2, <2>5 DEF Handler, LpNext, Collect
  <2> QED
    BY <1>1, <2>1, <2>2, <2>3, <2>4, <2>5 DEF Tx
<1> QED
  BY <1>3 DEF VaultNext

\* To the vault, a step of the pages is a call of an LP, or no step.
LEMMA VaultStep ==
    ASSUME EarnInv, [EarnNext]_earnVars
    PROVE  [VaultNext]_vars
<1>1. CASE PageNext
  <2>1. ASSUME NEW tx \in pending, Lands(tx) PROVE VaultNext
    BY <2>1, LandsIsACall
  <2>2. ASSUME NEW tx \in pending, Rejected(tx) PROVE UNCHANGED vars
    BY <2>2 DEF Rejected
  <2>3. ASSUME NEW lp \in Users,
               \/ Load(lp)
               \/ \E amount \in Typed : ClickDeposit(lp, amount)
               \/ \E shares \in Typed : ClickRedeem(lp, shares) \/ ClickQueue(lp, shares)
               \/ \E row \in page[lp].queued : ClickCancel(lp, row)
               \/ ClickCollect(lp)
        PROVE  UNCHANGED vars
    BY <2>3 DEF Load, ClickDeposit, ClickRedeem, ClickQueue, ClickCancel,
                ClickCollect, Sends
  <2> QED
    BY <1>1, <2>1, <2>2, <2>3 DEF PageNext
<1>2. CASE ChainNext
  BY <1>2, EarnPageAssumption
     DEF ChainNext, OtherLpNext, VaultNext, LpNext
<1>3. CASE UNCHANGED earnVars
  BY <1>3 DEF earnVars
<1> QED
  BY <1>1, <1>2, <1>3 DEF EarnNext

\* EarnInv holds before a page is loaded.
LEMMA InitEarnInv == EarnInit => EarnInv
<1> SUFFICES ASSUME EarnInit PROVE EarnInv
  OBVIOUS
<1>1. VaultInv
  BY InitVaultInv DEF EarnInit
<1>2. PageInv
  <2>1. 0 \in U64
    BY ChainAssumption DEF U64
  <2> QED
    BY <2>1 DEF EarnInit, NoView, PageInv
<1> QED
  BY <1>1, <1>2 DEF EarnInv

\* A row just read shows the request at its position.
LEMMA RowsAreNoEarlier ==
    ASSUME VaultInv, NEW lp, NEW row \in QueuedRows(vault, lp)
    PROVE  row \in Row /\ StillNoEarlier(row)
<1>1. WellFormed(vault) /\ InOrder(vault.requests) /\ now \in Nat
  BY DEF VaultInv, VaultTypeOK, Time
<1>2. PICK i \in 1 .. Len(vault.requests) :
          row = [index |-> i, request |-> vault.requests[i]]
  BY DEF QueuedRows
<1>3. /\ vault.requests[i] \in WithdrawalRequest
      /\ vault.requests[i].timestamp \in Nat
      /\ vault.requests[i].timestamp <= now
  BY <1>1, Timestamps DEF InOrder
<1>4. i \in 1 .. MaxQueue
  <2>1. /\ Len(vault.requests) = vault.withdrawal_queue_count
        /\ vault.withdrawal_queue_count \in 0 .. MaxQueue
    BY <1>1, Fields DEF WellFormed
  <2> QED
    BY <2>1, VaultAssumption
<1> QED
  BY <1>2, <1>3, <1>4 DEF Row, StillNoEarlier

\* EarnInv is inductive: a step of a page or of the vault.
LEMMA StepEarnInv == EarnInv /\ [EarnNext]_earnVars => EarnInv'
<1> SUFFICES ASSUME EarnInv, [EarnNext]_earnVars
             PROVE  EarnInv'
  OBVIOUS
<1>1. [VaultNext]_vars
  BY VaultStep
<1>2. VaultInv /\ VaultInv' /\ now \in Nat
  BY <1>1, StepVaultInv DEF EarnInv, VaultInv, VaultTypeOK, Time
<1>3. ASSUME NEW row, StillNoEarlier(row) PROVE StillNoEarlier(row)'
  BY <1>1, <1>2, <1>3, StillNoEarlierStep
\* The rows shown and the rows clicked before stay no earlier; new ones are.
<1>4. ASSUME page' = page, pending' \subseteq pending
      PROVE  PageInv'
  BY <1>3, <1>4 DEF EarnInv, PageInv
<1>5. ASSUME NEW lp \in Users, NEW op \in {"deposit", "redeem",
                "request_withdrawal", "cancel_withdrawal", "collect"},
             NEW amount \in U64, NEW row \in Row \cup {NoRow},
             StillNoEarlier(row), Sends(lp, op, amount, row)
      PROVE  PageInv'
  <2> DEFINE tx == [op |-> op, lp |-> lp, amount |-> amount, row |-> row]
  <2>1. page' = page /\ pending' = pending \cup {tx}
    BY <1>5 DEF Sends
  <2>2. tx \in Tx /\ StillNoEarlier(tx.row)
    BY <1>5 DEF Tx
  <2> HIDE DEF tx
  <2> QED
    BY <1>3, <2>1, <2>2 DEF EarnInv, PageInv
<1>6. PageInv'
  <2>1. CASE UNCHANGED pageVars
    BY <1>4, <2>1 DEF pageVars
  <2>2. CASE \E tx \in pending : Lands(tx) \/ Rejected(tx)
    BY <1>4, <2>2 DEF Lands, Rejected
  <2>3. ASSUME NEW lp \in Users, Load(lp) PROVE PageInv'
    <3>1. /\ page' = [page EXCEPT ![lp] = page'[lp]]
          /\ page'[lp].queued = QueuedRows(vault, lp)
          /\ pending' = pending
          /\ page'[lp].shown = TRUE
          /\ page'[lp].shares \in {vault.shares[lp], 0}
          /\ page'[lp].stable \in {vault.stable[lp], 0}
      BY <2>3 DEF Load, OrZero, EarnInv, PageInv
    <3>5. page'[lp].shares \in U64 /\ page'[lp].stable \in U64
      <4>1. vault.shares[lp] \in U64 /\ vault.stable[lp] \in U64 /\ 0 \in U64
        BY <1>2, EarnPageAssumption, ChainAssumption, Fields DEF VaultInv, WellFormed, U64
      <4> QED
        BY <3>1, <4>1
    <3>2. page' = [user \in Users |-> page'[user]]
      BY <3>1 DEF EarnInv, PageInv
    <3>3. \A user \in Users \ {lp} : page'[user] = page[user]
      BY <3>1 DEF EarnInv, PageInv
    <3>4. ASSUME NEW row \in page'[lp].queued
          PROVE  row \in Row /\ StillNoEarlier(row)'
      BY <1>2, <1>3, <3>1, <3>4, RowsAreNoEarlier
    <3> QED
      BY <1>3, <3>1, <3>2, <3>3, <3>4, <3>5 DEF EarnInv, PageInv
  <2>4. ASSUME NEW lp \in Users, NEW row \in page[lp].queued, ClickCancel(lp, row)
        PROVE  PageInv'
    <3>1. row \in Row /\ StillNoEarlier(row) /\ 0 \in U64
      BY ChainAssumption DEF EarnInv, PageInv, U64
    <3> QED
      BY <1>5, <2>4, <3>1 DEF ClickCancel
  <2>5. ASSUME NEW lp \in Users,
               \/ \E amount \in Typed : ClickDeposit(lp, amount)
               \/ \E shares \in Typed : ClickRedeem(lp, shares) \/ ClickQueue(lp, shares)
               \/ ClickCollect(lp)
        PROVE  PageInv'
    <3>1. StillNoEarlier(NoRow) /\ Typed \subseteq U64 /\ 0 \in U64
      BY <1>2, NoRowIsNoEarlier, EarnPageAssumption, ChainAssumption DEF U64
    <3> QED
      BY <1>5, <2>5, <3>1 DEF ClickDeposit, ClickRedeem, ClickQueue, ClickCollect
  <2> QED
    BY <2>1, <2>2, <2>3, <2>4, <2>5 DEF EarnNext, PageNext, earnVars
<1> QED
  BY <1>2, <1>6 DEF EarnInv

\* What the /earn pages show and have pending stays well typed, and every row stays no
\* later than what stands at its position (frontend/app/earn/page.tsx).
THEOREM EarnInvariant == EarnSpec => []EarnInv
  BY InitEarnInv, StepEarnInv, PTL DEF EarnSpec

\* A page as old as you like: the request a cancellation of its row takes out
\* of the queue is never one that had been waiting longer than the row.
THEOREM CancelNoEarlier == EarnSpec => CancelNeverReachesEarlier
<1> DEFINE Kept ==
      \A tx \in pending \ pending' :
          tx.op = "cancel_withdrawal" /\ vault'.requests # vault.requests
            => vault.requests[tx.row.index].timestamp >= tx.row.request.timestamp
<1>1. ASSUME EarnInv, [EarnNext]_earnVars PROVE Kept
  <2> SUFFICES ASSUME NEW tx \in pending \ pending', tx.op = "cancel_withdrawal",
                      vault'.requests # vault.requests
               PROVE  vault.requests[tx.row.index].timestamp >= tx.row.request.timestamp
    OBVIOUS
  <2>1. Lands(tx)
    <3>1. CASE \E other \in pending : Lands(other) \/ Rejected(other)
      BY <3>1 DEF Lands, Rejected, vars
    <3>2. ASSUME NEW lp \in Users,
                 \/ Load(lp)
                 \/ \E amount \in Typed : ClickDeposit(lp, amount)
                 \/ \E shares \in Typed : ClickRedeem(lp, shares) \/ ClickQueue(lp, shares)
                 \/ \E row \in page[lp].queued : ClickCancel(lp, row)
                 \/ ClickCollect(lp)
          PROVE  FALSE
      BY <3>2 DEF Load, ClickDeposit, ClickRedeem, ClickQueue, ClickCancel,
                  ClickCollect, Sends
    <3> QED
      BY <1>1, <3>1, <3>2 DEF EarnNext, PageNext, earnVars, pageVars
  <2>2. tx.row.index \in 1 .. Len(vault.requests)
    BY <2>1 DEF Lands, Handler, cancel_withdrawal
  <2> QED
    BY <1>1, <2>2 DEF EarnInv, PageInv, StillNoEarlier
<1>2. EarnInv /\ [EarnNext]_earnVars => [Kept]_earnVars
  BY <1>1
<1> QED
  BY <1>2, EarnInvariant, PTL DEF EarnSpec, CancelNeverReachesEarlier

-----------------------------------------------------------------------------
(* What a page that shows the vault as it is announces. *)

\* The program's rounding up, against the page's rounding down.
LEMMA OneUnitApart ==
    ASSUME NEW shares \in Nat, NEW view, NEW supply \in Nat, NEW tma \in Nat,
           view.supply = supply, view.tma = tma
    PROVE  /\ previewUsdcFromRedeem(view, shares) \in Nat
           /\ compute_assets_for_redeem(shares, supply, tma)
                 \in {previewUsdcFromRedeem(view, shares),
                      previewUsdcFromRedeem(view, shares) + 1}
<1> DEFINE denom == supply + VIRTUAL_SHARES
           fair == shares * (tma + VIRTUAL_ASSETS)
           paid == compute_assets_for_redeem(shares, supply, tma)
           shown == fair \div denom
<1>1. denom \in Nat \ {0} /\ tma + VIRTUAL_ASSETS \in Nat
  BY ShareMathAssumption
<1>2. fair \in Nat
  BY <1>1, Products
<1>3. paid \in Nat /\ fair <= denom * paid /\ denom * paid < fair + denom
  BY RedeemRoundsUp
<1> HIDE DEF denom, fair, paid
<1>4. shown \in Nat /\ denom * shown <= fair /\ fair < denom * shown + denom
  BY <1>1, <1>2, Division
<1>5. previewUsdcFromRedeem(view, shares) = shown
  BY DEF previewUsdcFromRedeem, fair, denom
<1> HIDE DEF shown
<1>6. paid >= shown
  <2>1. ASSUME paid + 1 <= shown PROVE FALSE
    <3>1. denom * (paid + 1) <= denom * shown
      BY <1>1, <1>3, <1>4, <2>1, ProductMonotonic
    <3>2. denom * (paid + 1) = denom * paid + denom
      BY <1>1, <1>3
    <3>3. denom * paid \in Nat /\ denom * shown \in Nat
      BY <1>1, <1>3, <1>4, Products
    <3> QED
      BY <1>1, <1>2, <1>3, <1>4, <3>1, <3>2, <3>3
  <2> QED
    BY <1>3, <1>4, <2>1
<1>7. paid <= shown + 1
  <2>1. ASSUME shown + 2 <= paid PROVE FALSE
    <3>1. denom * (shown + 2) <= denom * paid
      BY <1>1, <1>3, <1>4, <2>1, ProductMonotonic
    <3>2. denom * (shown + 2) = denom * shown + denom + denom
      BY <1>1, <1>4
    <3>3. denom * paid \in Nat /\ denom * shown \in Nat
      BY <1>1, <1>3, <1>4, Products
    <3> QED
      BY <1>1, <1>2, <1>3, <1>4, <3>1, <3>2, <3>3
  <2> QED
    BY <1>3, <1>4, <2>1
<1>8. paid \in {shown, shown + 1}
  BY <1>3, <1>4, <1>6, <1>7
<1> QED
  BY <1>4, <1>5, <1>8 DEF paid

\* The accounts of an LP and of the vault are of one SPL mint, whose supply is
\* a u64.
OneMint == \A lp \in LPs : vault.stable[lp] + vault.vault_tokens \in U64

\* The token account holds the managed assets, and the supply every balance.
LEMMA VaultCovers ==
    ASSUME VaultInv, BooksInv
    PROVE  /\ vault.total_managed_assets <= vault.vault_tokens
           /\ \A lp \in LPs : vault.shares[lp] <= vault.supply
<1> DEFINE due == [lp \in LPs |-> Due(vault, lp)]
<1>1. /\ due \in [LPs -> Nat] /\ vault.shares \in [LPs -> Nat]
      /\ vault.total_managed_assets \in Nat /\ vault.vault_tokens \in Nat
  <2>1. vault.shares \in [LPs -> U64]
    BY Fields DEF VaultInv, WellFormed
  <2> QED
    BY <2>1, Numbers, Amounts DEF VaultInv
<1>2. vault.vault_tokens - vault.total_managed_assets - SumFunction(due) = donated
      /\ donated \in Nat
  BY DEF BooksInv, Surplus, VaultInv, VaultTypeOK
<1> HIDE DEF due
<1>3. SumFunction(due) \in Nat
  BY <1>1, VaultAssumption, SumOfNaturals
<1>4. \A lp \in LPs : vault.shares[lp] <= SumFunction(vault.shares)
  <2> DEFINE shares == vault.shares
  <2>1. shares \in [LPs -> Nat]
    BY <1>1
  <2> HIDE DEF shares
  <2>2. \A lp \in LPs : shares[lp] <= SumFunction(shares)
    BY <2>1, VaultAssumption, SumOfNaturals
  <2> QED
    BY <2>2 DEF shares
<1> QED
  BY <1>1, <1>2, <1>3, <1>4 DEF BooksInv, SupplyIsHeld

\* A deposit mints what a current page announced.
LEMMA DepositAsShown ==
    ASSUME VaultInv, NEW lp \in LPs, NEW view, Current(view), NEW amount,
           NEW v \in deposit(vault, lp, amount)
    PROVE  v.shares[lp] = vault.shares[lp] + previewSharesFromDeposit(view, amount)
<1>1. vault \in VaultType /\ vault.shares \in [LPs -> U64]
  BY Fields DEF VaultInv, WellFormed
<1>2. v.shares = [vault.shares EXCEPT ![lp] = @ +
                    compute_shares_for_deposit(amount, vault.supply,
                                               vault.total_managed_assets)]
  BY <1>1 DEF deposit, When, VaultType
<1>3. previewSharesFromDeposit(view, amount)
         = compute_shares_for_deposit(amount, vault.supply, vault.total_managed_assets)
  BY DEF Current, previewSharesFromDeposit, compute_shares_for_deposit
<1> QED
  BY <1>1, <1>2, <1>3

\* A redemption a current page offers is paid what it announced, or one unit
\* more, or is the whole of the free capital.
LEMMA RedeemAsShown ==
    ASSUME VaultInv, BooksInv, OneMint, NEW lp \in LPs, NEW view, Current(view),
           NEW shares \in 1 .. vault.shares[lp], RedeemEnabled(view, shares)
    PROVE  LET shown == previewUsdcFromRedeem(view, shares)
               after == redeem(vault, lp, shares)
           IN IF after = {}
              THEN shown = freeCapital(vault.total_managed_assets, vault.locked_capital)
              ELSE \A v \in after : v.stable[lp] - vault.stable[lp] \in {shown, shown + 1}
<1> DEFINE tma == vault.total_managed_assets
           locked == vault.locked_capital
           paid == compute_assets_for_redeem(shares, vault.supply, tma)
           shown == previewUsdcFromRedeem(view, shares)
           after == redeem(vault, lp, shares)
           paying == /\ shares > 0 /\ locked <= tma /\ paid <= tma - locked
                     /\ shares <= vault.shares[lp] /\ shares <= vault.supply
                     /\ paid <= vault.vault_tokens /\ vault.stable[lp] + paid \in U64
<1>1. /\ tma \in Nat /\ locked \in Nat /\ vault.supply \in Nat /\ vault.vault_tokens \in Nat
      /\ vault.shares[lp] \in Nat /\ vault.stable[lp] \in Nat
  BY Numbers DEF VaultInv
<1>2. shares \in Nat /\ shares > 0 /\ shares <= vault.shares[lp]
  BY <1>1
<1>3. shares <= vault.supply /\ tma <= vault.vault_tokens
  BY <1>1, <1>2, VaultCovers
<1>4. shown \in Nat /\ paid \in {shown, shown + 1}
  <2>1. view.supply = vault.supply /\ view.tma = tma
    BY DEF Current
  <2> HIDE DEF tma
  <2> QED
    BY <1>1, <1>2, <2>1, OneUnitApart
<1>5. shown <= freeCapital(tma, locked)
  BY DEF RedeemEnabled, Current
<1>6. after = When(paying, [vault EXCEPT !.supply = @ - shares,
                                          !.shares[lp] = @ - shares,
                                          !.vault_tokens = @ - paid,
                                          !.stable[lp] = @ + paid,
                                          !.total_managed_assets = @ - paid])
  BY DEF redeem
<1>7. ASSUME NEW v \in after
      PROVE  v.stable[lp] - vault.stable[lp] = paid
  <2>1. vault \in VaultType /\ vault.stable \in [LPs -> U64]
    BY Fields DEF VaultInv, WellFormed
  <2> HIDE DEF paid, paying, tma, locked
  <2>2. v = [vault EXCEPT !.supply = @ - shares,
                          !.shares[lp] = @ - shares,
                          !.vault_tokens = @ - paid,
                          !.stable[lp] = @ + paid,
                          !.total_managed_assets = @ - paid]
    BY <1>6 DEF When
  <2>3. v.stable = [vault.stable EXCEPT ![lp] = @ + paid]
    BY <2>1, <2>2 DEF VaultType
  <2>4. paid \in Int
    BY <1>4
  <2> QED
    BY <1>1, <2>1, <2>3, <2>4
<1>8. vault.stable[lp] + vault.vault_tokens \in 0 .. U64_MAX /\ U64_MAX \in Nat
  BY ChainAssumption DEF OneMint, U64
<1> HIDE DEF paid, shown, tma, locked
<1>9. ASSUME after = {}
      PROVE  shown = freeCapital(tma, locked)
  <2>1. ~paying
    BY <1>6, <1>9 DEF When
  <2>2. CASE locked > tma
    BY <1>1, <1>4, <1>5, <2>2 DEF freeCapital
  <2>3. CASE locked <= tma
    <3>1. paid \in Nat
      BY <1>4
    <3>2. ASSUME paid <= tma - locked PROVE FALSE
      <4>1. paid <= vault.vault_tokens
        BY <1>1, <1>3, <3>1, <3>2
      <4>2. vault.stable[lp] + paid \in U64
        BY <1>1, <1>8, <3>1, <4>1 DEF U64
      <4> QED
        BY <1>2, <1>3, <2>1, <2>3, <3>2, <4>1, <4>2
    <3>3. freeCapital(tma, locked) = tma - locked
      BY <1>1, <2>3 DEF freeCapital
    <3> QED
      BY <1>1, <1>4, <1>5, <3>1, <3>2, <3>3
  <2> QED
    BY <1>1, <2>2, <2>3
<1> HIDE DEF after
<1>10. IF after = {}
       THEN shown = freeCapital(tma, locked)
       ELSE \A v \in after : v.stable[lp] - vault.stable[lp] \in {shown, shown + 1}
  BY <1>4, <1>7, <1>9
<1> QED
  BY <1>10 DEF after, shown, tma, locked

\* On a page whose copy is not stale a deposit mints what was announced, and a
\* redemption that is offered is refused for a single unit or pays at most one
\* unit more, whichever reads of the user's own balances had failed.
THEOREM CurrentPages == EarnSpec /\ []OneMint => []CurrentPageIsRight
<1>1. ASSUME EarnInv, BooksInv, OneMint
      PROVE  CurrentPageIsRight
  <2> SUFFICES ASSUME NEW lp \in Users, Current(page[lp])
               PROVE  /\ \A amount \in U64 :
                            DepositEnabled(page[lp], amount) =>
                              \A v \in deposit(vault, lp, amount) :
                                 v.shares[lp] = vault.shares[lp]
                                     + previewSharesFromDeposit(page[lp], amount)
                      /\ \A shares \in 1 .. vault.shares[lp] :
                            RedeemEnabled(page[lp], shares) =>
                              LET shown == previewUsdcFromRedeem(page[lp], shares)
                                  after == redeem(vault, lp, shares)
                              IN IF after = {}
                                 THEN shown = freeCapital(vault.total_managed_assets,
                                                          vault.locked_capital)
                                 ELSE \A v \in after : v.stable[lp] - vault.stable[lp]
                                                          \in {shown, shown + 1}
    BY DEF CurrentPageIsRight
  <2>1. VaultInv /\ lp \in LPs
    BY <1>1, EarnPageAssumption DEF EarnInv
  <2>2. \A amount \in U64 : \A v \in deposit(vault, lp, amount) :
            v.shares[lp] = vault.shares[lp] + previewSharesFromDeposit(page[lp], amount)
    BY <2>1, DepositAsShown
  <2> QED
    BY <1>1, <2>1, <2>2, RedeemAsShown
<1>2. EarnInit => BooksInv
  BY InitBooksInv DEF EarnInit
<1>3. EarnInv /\ BooksInv /\ [EarnNext]_earnVars => BooksInv'
  <2> SUFFICES ASSUME EarnInv, BooksInv, [EarnNext]_earnVars
               PROVE  BooksInv'
    OBVIOUS
  <2>1. [VaultNext]_vars
    BY VaultStep
  <2> QED
    BY <2>1, StepBooksInv DEF EarnInv
<1> QED
  BY <1>1, <1>2, <1>3, EarnInvariant, PTL DEF EarnSpec
=============================================================================
