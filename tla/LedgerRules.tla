----------------------------- MODULE LedgerRules -----------------------------
(***************************************************************************)
(* The business rules of the ledger: what the checks made before a commit  *)
(* are there to guarantee once it has happened.                            *)
(***************************************************************************)
EXTENDS Ledger

Inserted(t) == row[t].st = "free" /\ LiveTx(t)'

(* INSUFFICIENT_FUNDS: a new transfer or bill payment never leaves its      *)
(* source wallet overdrawn (an expense may).                                *)
TransferFunded ==
  [][\A t \in Txs : Inserted(t) /\ row'[t].type = "TRANSFER"
       => wallet'[row'[t].wallet].balance >= 0]_vars

(* INSUFFICIENT_CREDIT: a purchase on a credit wallet never takes its debt  *)
(* over the wallet's limit.                                                 *)
PurchaseWithinLimit ==
  [][\A t \in Txs : LiveInst(t)' /\ ~LiveInst(t)
       => -(wallet'[inst'[t].wallet].balance) <= wallet'[inst'[t].wallet].limit]_vars

(* deleteWallet, gate 1: a wallet on either side of a stored transfer is    *)
(* never deleted, so no counterparty keeps one side of a transfer.          *)
TransfersBlockDeletion ==
  [][\A w \in Wallets : LiveWallet(w) /\ ~LiveWallet(w)' => ~OnTransfer(w)]_vars

(* The category of a stored row has the row's type; a transfer has none.    *)
CategoryMatches ==
  \A t \in Txs : LiveTx(t) =>
    row[t].cat = IF row[t].type = "TRANSFER" THEN "none" ELSE row[t].type

(* Income is never booked on a card, a paylater account or a loan, by       *)
(* whatever mix of creates and updates a row got there, unless an update    *)
(* worked on a stale read of the row it was changing.                       *)
NoIncomeOnDebt ==
  \A t \in Txs : "row" \notin lapses /\ LiveTx(t) /\ row[t].type = "INCOME" => wallet[row[t].wallet].kind \notin DebtKinds

(* No double deduction: a payment is recorded only for an installment that  *)
(* still has an unpaid term at that moment.                                 *)
NoDoubleDeduction ==
  [][\A t \in Txs : Inserted(t) /\ row'[t].pays # 0
       => inst[row'[t].pays].status = "ACTIVE"]_vars

(* Paid terms only grow and SETTLED is final, unless a payment was recorded *)
(* over counters that another payment had already moved.                    *)
PaidNeverRegresses ==
  [][\A t \in Txs : "payment" \notin lapses' /\ LiveInst(t) /\ LiveInst(t)'
       => /\ inst[t].paid <= inst'[t].paid
          /\ inst[t].status = "SETTLED" => inst'[t] = inst[t]]_vars

(* What the schedule of an installment asks for up to its paid terms: the   *)
(* last term takes the rounding remainder.                                  *)
Scheduled(i) == IF i.paid = i.months THEN i.grandTotal ELSE i.paid * i.monthly

(* The stored payments of bill t.  Each is an ordinary transfer, which may  *)
(* be updated and deleted as such.                                          *)
PaymentsOf(t) == {u \in Txs : LiveTx(u) /\ row[u].pays = t}

(* No more payments of a bill are stored than terms of it are paid.  There  *)
(* may be fewer: deleting one gives the money back and leaves the term paid. *)
PaymentsBacked ==
  "payment" \notin lapses => \A t \in Txs : LiveInst(t) => Cardinality(PaymentsOf(t)) <= inst[t].paid

(* A payment moves the money its schedule asks for at that moment, so the   *)
(* payments of a bill sum to grandTotal exactly when it is settled, and     *)
(* each stored one stands for a term of its own, unless two of them were    *)
(* computed from the same counters.                                         *)
PaymentsMatchSchedule ==
  /\ [][\A t \in Txs : "payment" \notin lapses' /\ Inserted(t) /\ row'[t].pays # 0
          => LET p == row'[t].pays
             IN row'[t].amount = Scheduled(inst'[p]) - Scheduled(inst[p])]_vars
  /\ []PaymentsBacked
=============================================================================
