--------------------------- MODULE BalanceEffect ---------------------------
(***************************************************************************)
(* How one transaction moves money between wallets: the pure domain of     *)
(* src/domain/transactionBalance.ts.  Create, update, delete, payment and  *)
(* the reconciliation audit all take their deltas from here.               *)
(*                                                                         *)
(* An effect input is a record with the fields                             *)
(*   type           INCOME, EXPENSE or TRANSFER                            *)
(*   amount         the row's amount (the monthly part of an installment)  *)
(*   wallet, to     source and destination; to is NoWallet when absent     *)
(*   isInstallment  the row is backed by an installment                    *)
(*   grandTotal     the whole debt of that installment                     *)
(***************************************************************************)
EXTENDS Integers

CONSTANTS Wallets, NoWallet

ASSUME NoWalletAssumption == NoWallet \notin Wallets

TxTypes == {"INCOME", "EXPENSE", "TRANSFER"}
EffectInputs == [type : TxTypes, amount : Int, wallet : Wallets, to : Wallets \cup {NoWallet},
                 isInstallment : BOOLEAN, grandTotal : Int]

(* The signed change of the source wallet's balance. *)
SourceDelta(e) ==
  IF e.isInstallment THEN -e.grandTotal
  ELSE IF e.type = "INCOME" THEN e.amount ELSE -e.amount

HasDestination(e) == e.type = "TRANSFER" /\ ~e.isInstallment /\ e.to # NoWallet

(* balanceDeltas: the change of wallet w's balance.  The deltas of the code *)
(* are a list; what a commit adds to a balance is their sum on that wallet. *)
(* A destination-less transfer moves only its source: the non-strict mode   *)
(* of the audit.  Strict mode throws, but every caller has refused such a   *)
(* transfer before it gets there.                                           *)
EffectOn(e, w) ==
  (IF w = e.wallet THEN SourceDelta(e) ELSE 0)
  + (IF HasDestination(e) /\ w = e.to THEN e.amount ELSE 0)

(* Mutant: a reversal forgets the destination of a transfer. *)
ReverseSourceOnly(e, w) == IF w = e.wallet THEN -SourceDelta(e) ELSE 0

(* reverseBalanceEffect *)
ReverseOn(e, w) == -EffectOn(e, w)

(* What one request does to a row: a creation and a payment have no row     *)
(* before, a deletion none after, an update has both.                       *)
NoEffect == [type |-> "INCOME", amount |-> 0, wallet |-> NoWallet, to |-> NoWallet,
             isInstallment |-> FALSE, grandTotal |-> 0]
RowChanges == [before : EffectInputs \cup {NoEffect}, after : EffectInputs \cup {NoEffect}]

(* The old effect is taken back from the persisted row, then the new one    *)
(* applied.                                                                 *)
ChangeOn(c, w) == ReverseOn(c.before, w) + EffectOn(c.after, w)

(* The wallets applyBalanceDeltas updates; one that is gone fails the whole *)
(* transaction (P2025).                                                     *)
Targets(e) == {e.wallet} \cup {w \in Wallets : HasDestination(e) /\ w = e.to}
=============================================================================
