------------------------------ MODULE EarnPage ------------------------------
(***************************************************************************)
(* The frontend's /earn page, used by some of the LPs against the vault    *)
(* while everybody else calls the program directly.                        *)
(*                                                                         *)
(* A page works on a copy of the chain, shown until the next refresh and   *)
(* growing stale meanwhile.  Buttons are enabled by the copy; the          *)
(* transaction a click builds waits for the wallet and lands, or does not, *)
(* at some later state of the vault.                                       *)
(***************************************************************************)
EXTENDS VaultSystem

CONSTANTS
    Users,              \* LPs that work through a page of their own
    Typed,              \* bound: amounts the LPs type
    FailingReads,       \* bound: reads that may fail and be reported as 0
    MaxPending          \* bound: transactions of a user awaiting the wallet

ASSUME EarnPageAssumption ==
    /\ Users \subseteq LPs
    /\ Typed \subseteq U64
    /\ FailingReads \subseteq {"supply", "shares", "stable"}
    /\ MaxPending \in Nat

VARIABLES
    page,               \* the EarnState each page shows
    pending             \* transactions built by a click and not sent yet

pageVars == <<page, pending>>
earnVars == <<vars, pageVars>>

NoView ==
    [ shown |-> FALSE, tma |-> 0, locked |-> 0, supply |-> 0,
      shares |-> 0, stable |-> 0, claimable |-> 0, queued |-> {} ]

\* A row of the queue card: the position in the queue, and the request.
Row == [index : 1 .. MaxQueue, request : WithdrawalRequest]

NoRow == [index |-> 0, request |-> [timestamp |-> 0]]

Tx == [ op     : {"deposit", "redeem", "request_withdrawal",
                  "cancel_withdrawal", "collect"},
        lp     : Users,
        amount : U64,
        row    : Row \cup {NoRow} ]

EarnInit ==
    /\ VaultInit
    /\ page = [lp \in Users |-> NoView]
    /\ pending = {}

-----------------------------------------------------------------------------
\* Mutated forms, for the checks of the properties.

\* Rows are numbered among the owner's requests.
own_requests_numbered_alone(v, lp) ==
    LET own == SelectSeq(v.requests, LAMBDA req : req.owner = lp)
    IN {[index |-> i, request |-> own[i]] : i \in 1 .. Len(own)}

\* All of the managed assets count as free.
free_ignores_locked(tma, locked) == tma

-----------------------------------------------------------------------------
\* vault-math.ts

previewSharesFromDeposit(view, pusd) ==
    (pusd * (view.supply + VIRTUAL_SHARES)) \div (view.tma + VIRTUAL_ASSETS)

\* Rounded down, where the program rounds up.
previewUsdcFromRedeem(view, shares) ==
    (shares * (view.tma + VIRTUAL_ASSETS)) \div (view.supply + VIRTUAL_SHARES)

freeCapital(tma, locked) == IF tma > locked THEN tma - locked ELSE 0

-----------------------------------------------------------------------------
\* A load reads four accounts one after the other and then shows them.  It is
\* one step here: what the properties below ask of a row or of a current page
\* they ask whichever of these reads is the older.  A load whose other reads
\* throw, or that a later refresh abandons, leaves the view as it was.

\* "If the ATA doesn't exist yet we report 0": so does a read that fails.
OrZero(read, amount) ==
    IF read \in FailingReads THEN {amount, 0} ELSE {amount}

QueuedRows(v, lp) ==
    {[index |-> i, request |-> v.requests[i]] :
        i \in {j \in 1 .. Len(v.requests) : v.requests[j].owner = lp}}

Load(lp) ==
    /\ \E supply \in OrZero("supply", vault.supply),
          shares \in OrZero("shares", vault.shares[lp]),
          stable \in OrZero("stable", vault.stable[lp]) :
          page' = [page EXCEPT ![lp] =
                     [ shown     |-> TRUE,
                       tma       |-> vault.total_managed_assets,
                       locked    |-> vault.locked_capital,
                       supply    |-> supply,
                       shares    |-> shares,
                       stable    |-> stable,
                       claimable |-> vault.claimable[lp],
                       queued    |-> QueuedRows(vault, lp) ]]
    /\ UNCHANGED <<vars, pending>>

-----------------------------------------------------------------------------
\* Clicks.  No button is disabled while a transaction of the page is pending.

\* What the page lets its user do with an amount.
DepositEnabled(view, amount) == view.shown /\ amount > 0 /\ amount <= view.stable

RedeemEnabled(view, shares) ==
    /\ view.shown
    /\ shares > 0
    /\ shares <= view.shares
    /\ previewUsdcFromRedeem(view, shares) <= freeCapital(view.tma, view.locked)

QueueEnabled(view, shares) == view.shown /\ shares > 0 /\ shares <= view.shares

CollectEnabled(view) == view.shown /\ view.claimable # 0

Sends(lp, op, amount, row) ==
    /\ Cardinality({tx \in pending : tx.lp = lp}) < MaxPending
    /\ pending' = pending \cup {[op |-> op, lp |-> lp, amount |-> amount, row |-> row]}
    /\ UNCHANGED <<vars, page>>

ClickDeposit(lp, amount) ==
    DepositEnabled(page[lp], amount) /\ Sends(lp, "deposit", amount, NoRow)

ClickRedeem(lp, shares) ==
    RedeemEnabled(page[lp], shares) /\ Sends(lp, "redeem", shares, NoRow)

ClickQueue(lp, shares) ==
    QueueEnabled(page[lp], shares) /\ Sends(lp, "request_withdrawal", shares, NoRow)

ClickCancel(lp, row) ==
    row \in page[lp].queued /\ Sends(lp, "cancel_withdrawal", 0, row)

ClickCollect(lp) ==
    CollectEnabled(page[lp]) /\ Sends(lp, "collect", 0, NoRow)

-----------------------------------------------------------------------------
\* What becomes of a transaction.

Handler(tx, v) ==
    CASE tx.op = "deposit" -> deposit(v, tx.lp, tx.amount)
      [] tx.op = "redeem" -> redeem(v, tx.lp, tx.amount)
      [] tx.op = "request_withdrawal" ->
            IF Len(v.requests) < MaxQueue THEN request_withdrawal(v, tx.lp, tx.amount)
                                          ELSE {}
      [] tx.op = "cancel_withdrawal" -> cancel_withdrawal(v, tx.lp, tx.row.index)
      [] tx.op = "collect" -> collect(v, tx.lp)

\* The cancel instruction names a position, not a request.
Lands(tx) ==
    /\ vault' \in Handler(tx, vault)
    /\ pending' = pending \ {tx}
    /\ UNCHANGED <<now, donated, sold, page>>

\* The user declines, the simulation or the transaction fails, or the
\* blockhash expires.
Rejected(tx) ==
    /\ pending' = pending \ {tx}
    /\ UNCHANGED <<vars, page>>

-----------------------------------------------------------------------------
PageNext ==
    \/ \E lp \in Users :
          \/ Load(lp)
          \/ \E amount \in Typed : ClickDeposit(lp, amount)
          \/ \E shares \in Typed : ClickRedeem(lp, shares) \/ ClickQueue(lp, shares)
          \/ \E row \in page[lp].queued : ClickCancel(lp, row)
          \/ ClickCollect(lp)
    \/ \E tx \in pending : Lands(tx) \/ Rejected(tx)

\* LPs without a page.
OtherLpNext ==
    \E lp \in LPs \ Users :
        \/ \E amount \in Typed : Deposit(lp, amount)
        \/ \E shares \in Typed : Redeem(lp, shares) \/ RequestWithdrawal(lp, shares)
        \/ \E i \in 1 .. MaxQueue : CancelWithdrawal(lp, i)
        \/ Collect(lp)

ChainNext ==
    \/ OtherLpNext
    \/ ControllerNext
    \/ Tick /\ UNCHANGED <<vault, donated, sold>>

EarnNext ==
    \/ PageNext
    \/ ChainNext /\ UNCHANGED pageVars

EarnSpec == EarnInit /\ [][EarnNext]_earnVars
-----------------------------------------------------------------------------
(* What the pages promise. *)

\* The prices and the free capital the page shows are those of the chain.
Current(view) ==
    /\ view.shown
    /\ view.tma = vault.total_managed_assets
    /\ view.locked = vault.locked_capital
    /\ view.supply = vault.supply

\* The queue moves between the moment a row is read and the moment its
\* cancellation lands: drains take requests off its head and cancellations
\* take others from its middle.  The position then stands for another request
\* of the canceller or for nothing of theirs, but never for one that had been
\* waiting longer than the row clicked: a stale page never gives up a better
\* place in the queue than its user meant to.
CancelNeverReachesEarlier ==
    [][\A tx \in pending \ pending' :
          tx.op = "cancel_withdrawal" /\ vault'.requests # vault.requests
            => vault.requests[tx.row.index].timestamp >= tx.row.request.timestamp]_earnVars

\* On a page that shows the vault as it is, whichever of the reads of the
\* user's own balances had failed: a deposit that goes through mints exactly
\* the shares announced; and the one redemption offered that the vault refuses
\* is short of a single unit, paid otherwise at most one unit above what was
\* announced, the page rounding down what the program rounds up.
CurrentPageIsRight ==
    \A lp \in Users :
        LET view == page[lp] IN
        Current(view) =>
          /\ \A amount \in U64 :
                DepositEnabled(view, amount) =>
                  \A v \in deposit(vault, lp, amount) :
                     v.shares[lp] = vault.shares[lp] + previewSharesFromDeposit(view, amount)
          /\ \A shares \in 1 .. vault.shares[lp] :
                RedeemEnabled(view, shares) =>
                  LET shown == previewUsdcFromRedeem(view, shares)
                      after == redeem(vault, lp, shares)
                  IN IF after = {}
                     THEN shown = freeCapital(vault.total_managed_assets, vault.locked_capital)
                     ELSE \A v \in after : v.stable[lp] - vault.stable[lp] \in {shown, shown + 1}
=============================================================================
