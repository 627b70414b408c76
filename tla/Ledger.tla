------------------------------- MODULE Ledger -------------------------------
(***************************************************************************)
(* The ledger of one user: wallets, transactions and installments, and the *)
(* HTTP requests that change them (transaction.service.ts, wallet.service  *)
(* .ts, installment-payment.service.ts).                                   *)
(*                                                                         *)
(* Every request is a process of its own.  The services read the database  *)
(* with plain queries, decide, and only then open one $transaction whose   *)
(* statements are all writes; so a request is a few read steps, whose      *)
(* results it carries in req[r], followed by one commit step.  Requests    *)
(* interleave between any two steps.                                       *)
(***************************************************************************)
EXTENDS BalanceEffect, InstallmentPlan, FiniteSets

CONSTANTS
  MaxTx,              \* bound: transaction rows ever inserted
  Reqs,               \* ids of requests; a request is served once
  Ops,                \* the endpoints in use
  InitialWallets,     \* what the wallets table holds at the start
  WalletInputs,       \* <<kind, opening balance, limit>> of a new wallet
  WalletPatches,      \* <<kind or "absent", limit or 0>> of a wallet update
  CreateInputs, UpdateInputs,   \* request bodies
  MaxInFlight         \* bound: requests being served at the same time

(* Row ids are unique and never used again; they are handed out in order.   *)
Txs == 1..MaxTx

(* CASH, BANK and E_WALLET behave alike everywhere, and so do CREDIT_CARD   *)
(* and PAYLATER.                                                            *)
WalletKinds == {"ASSET", "CREDIT", "LOAN"}

(* classifyWalletForNetWorth(type) = 'DEBT' *)
DebtKinds == {"CREDIT", "LOAN"}

Endpoints == {"create", "update", "delete", "pay",
              "walletCreate", "walletUpdate", "walletDelete"}

(* A row of a table: not yet inserted, stored, or deleted for good. *)
RowStates == {"free", "live", "gone"}

WalletRows == [st : RowStates, kind : WalletKinds, balance : Int,
               initial : Int, limit : Nat]

(* cat is the type of the row's category.  pays is the installment a row    *)
(* written by payInstallment was for; the code keeps that only in the text  *)
(* of the description, so no action reads it.                               *)
TxRows == [st : RowStates, type : TxTypes, amount : Int, wallet : Wallets,
           to : Wallets \cup {NoWallet}, cat : {"INCOME", "EXPENSE", "none"},
           isInstallment : BOOLEAN, pays : Txs \cup {0}]

(* An installment is named by the transaction row created with it.  due     *)
(* counts billing months after the first due date.                          *)
InstRows == [st : RowStates, wallet : Wallets, grandTotal : Nat, monthly : Int,
             months : Nat, paid : Nat, term : Nat, due : Nat,
             status : {"ACTIVE", "SETTLED"}]

(* A request body.  "absent", NoWallet and 0 stand for fields left out.     *)
Inputs == [type : TxTypes \cup {"absent"}, amount : Nat,
           wallet : Wallets \cup {NoWallet}, to : Wallets \cup {NoWallet},
           cat : {"INCOME", "EXPENSE", "none"}, months : Nat, rate : Nat]

(* <<kind or "absent", limit or 0>>: the body of a wallet update *)
Patches == (WalletKinds \cup {"absent"}) \X Nat

VARIABLES
  wallet,     \* wallets table
  row,        \* transactions table
  inst,       \* installments table
  req,        \* local variables of the requests
  lapses      \* history: the kinds of stale reads that commits have acted on

vars == <<wallet, row, inst, req, lapses>>

(* "row": a transaction's effect was reversed from a read that no longer    *)
(* matched the stored row.  "gate": a wallet was deleted although a transfer *)
(* referenced it by then.  "payment": a payment was recorded over a paidTerms *)
(* that was no longer the stored one.                                       *)
LapseKinds == {"row", "gate", "payment"}

ASSUME LedgerAssumption ==
  /\ MaxTx \in Nat \ {0} /\ Wallets # {} /\ MaxInFlight \in Nat
  /\ InitialWallets \in [Wallets -> WalletRows]
  /\ WalletInputs \subseteq WalletKinds \X Int \X Nat
  /\ WalletPatches \subseteq Patches
  /\ CreateInputs \subseteq Inputs /\ UpdateInputs \subseteq Inputs

AnyWallet == CHOOSE w \in Wallets : TRUE

FreeTx == [st |-> "free", type |-> "EXPENSE", amount |-> 0, wallet |-> AnyWallet,
           to |-> NoWallet, cat |-> "none", isInstallment |-> FALSE, pays |-> 0]
FreeInst == [st |-> "free", wallet |-> AnyWallet, grandTotal |-> 0, monthly |-> 0,
             months |-> 0, paid |-> 0, term |-> 0, due |-> 0, status |-> "ACTIVE"]
NoInput == [type |-> "absent", amount |-> 0, wallet |-> NoWallet, to |-> NoWallet,
            cat |-> "none", months |-> 0, rate |-> 0]

GoneTx == [FreeTx EXCEPT !.st = "gone"]
GoneInst == [FreeInst EXCEPT !.st = "gone"]
GoneWallet == [st |-> "gone", kind |-> "ASSET", balance |-> 0, initial |-> 0, limit |-> 0]

(* The local state of a request: the endpoint it calls, how far it got, the *)
(* ids it names, its body, and the row and installment it has read.         *)
Requests == [op : Endpoints \cup {"none"}, pc : {"new", "loaded", "checked", "done"},
             tx : Txs, wallet : Wallets, force : BOOLEAN, patch : Patches,
             in : Inputs, row : TxRows, inst : InstRows]

NewRequest == [op |-> "none", pc |-> "new", tx |-> 1, wallet |-> AnyWallet,
               force |-> FALSE, patch |-> <<"absent", 0>>, in |-> NoInput,
               row |-> FreeTx, inst |-> FreeInst]
DoneRequest == [NewRequest EXCEPT !.pc = "done"]

-----------------------------------------------------------------------------
LiveWallet(w) == w \in Wallets /\ wallet[w].st = "live"
LiveTx(t) == row[t].st = "live"
LiveInst(t) == inst[t].st = "live"

(* The money movement of a stored row and of its installment. *)
InputFrom(x, i) ==
  [type |-> x.type, amount |-> x.amount, wallet |-> x.wallet, to |-> x.to,
   isInstallment |-> x.isInstallment,
   grandTotal |-> IF i.st = "live" THEN i.grandTotal ELSE x.amount]
StoredEffect(t) == InputFrom(row[t], inst[t])

(* What transaction t stands for in wallet w's balance. *)
EffectOfTx(t, w) == IF LiveTx(t) THEN EffectOn(StoredEffect(t), w) ELSE 0

InFlight == {r \in Reqs : req[r].pc \in {"loaded", "checked"}}

(* A new request to endpoint op may be taken up. *)
CanStart(r, op) ==
  /\ op \in Ops
  /\ req[r].pc = "new"
  /\ Cardinality(InFlight) < MaxInFlight

At(r, op, pc) == req[r].op = op /\ req[r].pc = pc

(* The id of the next inserted row. *)
IsNext(t) == row[t].st = "free" /\ \A u \in Txs : row[u].st = "free" => t <= u

Finish(r) == req' = [req EXCEPT ![r] = DoneRequest]

(* applyBalanceDeltas inside a commit: one atomic increment per wallet.     *)
Apply(change) ==
  wallet' = [w \in Wallets |->
               IF LiveWallet(w)
               THEN [wallet[w] EXCEPT !.balance = @ + change[w]]
               ELSE wallet[w]]

AllLive(e) == \A w \in Targets(e) : LiveWallet(w)

Max0(n) == IF n > 0 THEN n ELSE 0

(* Mutant: the debt already on the wallet is not counted. *)
WholeLimit(w) == wallet[w].limit

(* What a credit wallet can still take: its limit less what is owed on it.  *)
RemainingCredit(w) == Max0(wallet[w].limit - Max0(-wallet[w].balance))

Deltas(e) == [w \in Wallets |-> EffectOn(e, w)]
Reversal(e) == [w \in Wallets |-> ReverseOn(e, w)]
-----------------------------------------------------------------------------
(* createTransaction: validation and the reads of the wallets.  The category *)
(* row itself never changes, so reading it is not a step.                    *)

IsCreditExpense(in) == in.type = "EXPENSE" /\ wallet[in.wallet].kind = "CREDIT"
PlanTotal(in) == GrandTotal(in.amount, in.rate, in.months)

(* Mutant: the source need not hold the amount. *)
TransferUnfunded(w, to, amount) ==
  to # w /\ LiveWallet(w) /\ wallet[w].kind = "ASSET" /\ LiveWallet(to)

(* TRANSFER: another wallet as destination, an asset with enough money as   *)
(* source, no category.                                                     *)
TransferAllowed(w, to, amount) ==
  /\ to # w
  /\ LiveWallet(w) /\ wallet[w].kind = "ASSET" /\ wallet[w].balance >= amount
  /\ LiveWallet(to)

CreateAllowed(in) ==
  /\ in.type # "absent" /\ in.amount > 0
  /\ LiveWallet(in.wallet)
  /\ in.type = "TRANSFER" => TransferAllowed(in.wallet, in.to, in.amount) /\ in.cat = "none"
  /\ in.type # "TRANSFER" => in.cat = in.type
  /\ in.type = "EXPENSE" => wallet[in.wallet].kind # "LOAN"
  /\ in.type = "INCOME" => wallet[in.wallet].kind \notin DebtKinds
  /\ IF IsCreditExpense(in)
     THEN in.months \in 1..120 /\ in.rate <= 100 /\ (in.months = 1 => in.rate = 0)
          /\ PlanTotal(in) <= RemainingCredit(in.wallet)
     ELSE in.months = 0

CreateCheck(r) ==
  /\ CanStart(r, "create")
  /\ \E in \in CreateInputs :
       /\ CreateAllowed(in)
       /\ req' = [req EXCEPT ![r] = [NewRequest EXCEPT !.op = "create", !.pc = "checked", !.in = in]]
  /\ UNCHANGED <<wallet, row, inst, lapses>>

(* Mutant: nobody notices that the destination is gone. *)
CommitsOnSource(r) == LiveWallet(req[r].in.wallet)

(* The foreign keys of the inserted row must still be there (P2003).        *)
CreateCommits(r) ==
  LET in == req[r].in IN LiveWallet(in.wallet) /\ (in.type = "TRANSFER" => LiveWallet(in.to))

NewTx(in) ==
  [st |-> "live", type |-> in.type, amount |-> in.amount, wallet |-> in.wallet,
   to |-> IF in.type = "TRANSFER" THEN in.to ELSE NoWallet, cat |-> in.cat,
   isInstallment |-> FALSE, pays |-> 0]

(* A regular transaction: insert the row, apply its effect. *)
CreateRegular(r) ==
  /\ At(r, "create", "checked") /\ req[r].in.months = 0 /\ CreateCommits(r)
  /\ \E t \in Txs :
       /\ IsNext(t)
       /\ row' = [row EXCEPT ![t] = NewTx(req[r].in)]
       /\ Apply(Deltas(InputFrom(NewTx(req[r].in), FreeInst)))
  /\ Finish(r)
  /\ UNCHANGED <<inst, lapses>>

NewInst(in) ==
  [st |-> "live", wallet |-> in.wallet, grandTotal |-> PlanTotal(in),
   monthly |-> MonthlyAmount(PlanTotal(in), in.months),
   months |-> in.months, paid |-> 0, term |-> 1, due |-> 0, status |-> "ACTIVE"]

(* The whole debt is locked on the wallet at once. *)
Debt(i) == [w \in Wallets |-> IF w = i.wallet THEN -i.grandTotal ELSE 0]

(* A credit purchase: the installment, its row at the monthly amount, and   *)
(* the debt.                                                                *)
CreateInstallment(r) ==
  LET in == req[r].in
      i  == NewInst(in)
      x  == [NewTx(in) EXCEPT !.amount = i.monthly, !.isInstallment = TRUE]
  IN /\ At(r, "create", "checked") /\ in.months > 0 /\ CreateCommits(r)
     /\ \E t \in Txs :
          /\ IsNext(t)
          /\ row' = [row EXCEPT ![t] = x]
          /\ inst' = [inst EXCEPT ![t] = i]
     /\ Apply(Debt(i))
     /\ Finish(r)
     /\ UNCHANGED lapses
-----------------------------------------------------------------------------
(* updateTransaction: `existing` is read first and reversed last.           *)

UpdateLoad(r) ==
  /\ CanStart(r, "update")
  /\ \E in \in UpdateInputs, t \in Txs :
       /\ LiveTx(t) /\ ~row[t].isInstallment
       /\ ~(row[t].type = "TRANSFER" /\ row[t].to = NoWallet)
       /\ req' = [req EXCEPT ![r] = [NewRequest EXCEPT !.op = "update", !.pc = "loaded",
                                                       !.tx = t, !.in = in, !.row = row[t]]]
  /\ UNCHANGED <<wallet, row, inst, lapses>>

(* Mutant: the new effect goes to the old wallet. *)
OldWallet(q) == q.row.wallet

(* newType, newAmount, newWalletId and newToWalletId *)
NewType(q)   == IF q.in.type # "absent" THEN q.in.type ELSE q.row.type
NewAmount(q) == IF q.in.amount # 0 THEN q.in.amount ELSE q.row.amount
NewWallet(q) == IF q.in.wallet # NoWallet THEN q.in.wallet ELSE q.row.wallet
NewTo(q)     == IF NewType(q) # "TRANSFER" THEN NoWallet
                ELSE IF q.in.to # NoWallet THEN q.in.to ELSE q.row.to

(* Mutant: the target wallet is looked up only when the body names one.     *)
AllowedUnlessMoved(q) ==
  IF NewType(q) = "TRANSFER" THEN TransferAllowed(NewWallet(q), NewTo(q), NewAmount(q))
  ELSE q.in.wallet # NoWallet =>
         LiveWallet(q.in.wallet) /\ (NewType(q) = "INCOME" => wallet[q.in.wallet].kind \notin DebtKinds)

(* The checks of updateTransaction.  The target wallet is looked up only if *)
(* the body names one or the type is INCOME.                                *)
UpdateAllowed(q) ==
  /\ NewType(q) # "TRANSFER" =>
       /\ q.in.wallet # NoWallet \/ NewType(q) = "INCOME" => LiveWallet(NewWallet(q))
       /\ NewType(q) = "INCOME" => wallet[NewWallet(q)].kind \notin DebtKinds
       /\ q.in.cat \in {"none", NewType(q)}
  /\ NewType(q) = "TRANSFER" =>
       TransferAllowed(NewWallet(q), NewTo(q), NewAmount(q)) /\ q.in.cat = "none"

UpdateCheck(r) ==
  /\ At(r, "update", "loaded") /\ UpdateAllowed(req[r])
  /\ req' = [req EXCEPT ![r].pc = "checked"]
  /\ UNCHANGED <<wallet, row, inst, lapses>>

(* The effect reversed is that of the row as it was read; the row written   *)
(* keeps the stored value of every field the body leaves out, except        *)
(* toWalletId; the effect applied mixes the body with the row as read.      *)
ReadEffect(q) == InputFrom(q.row, q.inst)

(* Mutant: a type left out of the body is written as it stands. *)
UpdatedBlindly(q, x) == [x EXCEPT !.type = q.in.type]

UpdatedTx(q, x) ==
  [st |-> x.st, isInstallment |-> x.isInstallment, pays |-> x.pays, to |-> NewTo(q),
   type |-> IF q.in.type # "absent" THEN q.in.type ELSE x.type,
   amount |-> IF q.in.amount # 0 THEN q.in.amount ELSE x.amount,
   wallet |-> IF q.in.wallet # NoWallet THEN q.in.wallet ELSE x.wallet,
   cat |-> IF NewType(q) = "TRANSFER" THEN "none"
           ELSE IF q.in.cat # "none" THEN q.in.cat ELSE x.cat]
NewEffect(q) ==
  [type |-> NewType(q), amount |-> NewAmount(q), wallet |-> NewWallet(q), to |-> NewTo(q),
   isInstallment |-> FALSE, grandTotal |-> NewAmount(q)]

(* Otherwise an increment or the row update finds nothing (P2025), or a new *)
(* reference is dangling (P2003), and everything rolls back.                *)
UpdateCommits(q) == LiveTx(q.tx) /\ AllLive(ReadEffect(q)) /\ AllLive(NewEffect(q))

RowLapse(q) == IF StoredEffect(q.tx) # ReadEffect(q) THEN {"row"} ELSE {}

UpdateCommit(r) ==
  LET q == req[r] IN
  /\ At(r, "update", "checked") /\ UpdateCommits(q)
  /\ row' = [row EXCEPT ![q.tx] = UpdatedTx(q, @)]
  /\ Apply([w \in Wallets |-> ReverseOn(ReadEffect(q), w) + EffectOn(NewEffect(q), w)])
  /\ lapses' = lapses \cup RowLapse(q)
  /\ Finish(r)
  /\ UNCHANGED inst
-----------------------------------------------------------------------------
(* deleteTransaction: reverses the row as read; legacy transfers refused.   *)

DeleteLoad(r) ==
  /\ CanStart(r, "delete")
  /\ \E t \in Txs :
       /\ LiveTx(t)
       /\ ~(row[t].type = "TRANSFER" /\ row[t].to = NoWallet)
       /\ req' = [req EXCEPT ![r] = [NewRequest EXCEPT !.op = "delete", !.pc = "checked",
                                       !.tx = t, !.row = row[t], !.inst = inst[t]]]
  /\ UNCHANGED <<wallet, row, inst, lapses>>

DeleteCommits(q) ==
  /\ LiveTx(q.tx) /\ AllLive(ReadEffect(q))
  /\ q.row.isInstallment => LiveInst(q.tx)

(* Mutant: the installment of a deleted purchase stays. *)
DeleteRowOnly(r) ==
  LET q == req[r] IN
  /\ At(r, "delete", "checked") /\ DeleteCommits(q)
  /\ row' = [row EXCEPT ![q.tx] = GoneTx]
  /\ Apply(Reversal(ReadEffect(q)))
  /\ Finish(r)
  /\ UNCHANGED <<inst, lapses>>

(* Reversal, the row, and the installment that goes with it. *)
DeleteCommit(r) ==
  LET q == req[r] IN
  /\ At(r, "delete", "checked") /\ DeleteCommits(q)
  /\ row' = [row EXCEPT ![q.tx] = GoneTx]
  /\ inst' = IF q.row.isInstallment THEN [inst EXCEPT ![q.tx] = GoneInst] ELSE inst
  /\ Apply(Reversal(ReadEffect(q)))
  /\ lapses' = lapses \cup RowLapse(q)
  /\ Finish(r)
-----------------------------------------------------------------------------
(* payInstallment: the installment is read, then the source wallet, then    *)
(* the payment is committed with counters computed from the first read.     *)

Payment(q) == ExpectedAmount(q.inst.grandTotal, q.inst.monthly, q.inst.months, q.inst.paid)

(* Mutant: a settled bill can be paid on. *)
PayLoadAny(r) ==
  /\ CanStart(r, "pay")
  /\ \E t \in Txs, w \in Wallets :
       LiveInst(t) /\ req' = [req EXCEPT ![r] = [NewRequest EXCEPT
         !.op = "pay", !.pc = "loaded", !.tx = t, !.wallet = w, !.inst = inst[t]]]
  /\ UNCHANGED <<wallet, row, inst, lapses>>

(* An active installment with an unpaid term, and a positive amount to pay. *)
PayLoad(r) ==
  /\ CanStart(r, "pay")
  /\ \E t \in Txs, w \in Wallets :
       LET q == [NewRequest EXCEPT !.op = "pay", !.pc = "loaded",
                                   !.tx = t, !.wallet = w, !.inst = inst[t]]
       IN /\ LiveInst(t) /\ inst[t].status = "ACTIVE" /\ inst[t].paid < inst[t].months
          /\ Payment(q) > 0
          /\ req' = [req EXCEPT ![r] = q]
  /\ UNCHANGED <<wallet, row, inst, lapses>>

PayAllowed(q) ==
  LiveWallet(q.wallet) /\ wallet[q.wallet].kind = "ASSET" /\ wallet[q.wallet].balance >= Payment(q)

PayCheck(r) ==
  /\ At(r, "pay", "loaded") /\ PayAllowed(req[r])
  /\ req' = [req EXCEPT ![r].pc = "checked"]
  /\ UNCHANGED <<wallet, row, inst, lapses>>

PaymentTx(q) ==
  [st |-> "live", type |-> "TRANSFER", amount |-> Payment(q), wallet |-> q.wallet,
   to |-> q.inst.wallet, cat |-> "none", isInstallment |-> FALSE, pays |-> q.tx]

(* Mutant: the due date moves on after the last term, too. *)
AdvancedPastEnd(i) ==
  [i EXCEPT !.paid = @ + 1, !.term = IF @ < i.months THEN @ + 1 ELSE @, !.due = @ + 1,
            !.status = IF i.paid + 1 >= i.months THEN "SETTLED" ELSE "ACTIVE"]

(* The installment after one more paid term. *)
Advanced(i) ==
  LET paid == i.paid + 1
      settled == paid >= i.months
  IN [st |-> i.st, wallet |-> i.wallet, grandTotal |-> i.grandTotal,
      monthly |-> i.monthly, months |-> i.months, paid |-> paid,
      term |-> IF paid + 1 <= i.months THEN paid + 1 ELSE i.months,
      due |-> IF settled THEN i.due ELSE i.due + 1,
      status |-> IF settled THEN "SETTLED" ELSE "ACTIVE"]

PayCommits(q) == LiveWallet(q.wallet) /\ LiveWallet(q.inst.wallet) /\ LiveInst(q.tx)

PayCommit(r) ==
  LET q == req[r] IN
  /\ At(r, "pay", "checked") /\ PayCommits(q)
  /\ \E t \in Txs : IsNext(t) /\ row' = [row EXCEPT ![t] = PaymentTx(q)]
  /\ Apply(Deltas(InputFrom(PaymentTx(q), FreeInst)))
  /\ inst' = [inst EXCEPT ![q.tx] = Advanced(q.inst)]
  /\ lapses' = lapses \cup IF inst[q.tx].paid # q.inst.paid THEN {"payment"} ELSE {}
  /\ Finish(r)
-----------------------------------------------------------------------------
(* wallet.service.ts: every mutation is one write, outside any transaction. *)

(* createWallet reads nothing first. *)
WalletCreate(r) ==
  /\ CanStart(r, "walletCreate")
  /\ \E in \in WalletInputs, w \in Wallets :
       LET opening == CASE in[1] = "ASSET" -> in[2] [] in[1] = "CREDIT" -> 0 [] in[1] = "LOAN" -> -in[2]
       IN /\ wallet[w].st = "free"
          /\ in[1] = "ASSET" => in[2] >= 0
          /\ in[1] = "LOAN" => in[2] > 0 /\ in[3] = 0
          /\ in[1] = "CREDIT" => in[3] > 0
          /\ wallet' = [wallet EXCEPT ![w] = [st |-> "live", kind |-> in[1], balance |-> opening,
                          initial |-> opening, limit |-> IF in[1] = "CREDIT" THEN in[3] ELSE 0]]
  /\ Finish(r)
  /\ UNCHANGED <<row, inst, lapses>>

(* updateWallet: kind and limit are metadata; the balance is never written. *)
WalletUpdateLoad(r) ==
  /\ CanStart(r, "walletUpdate")
  /\ \E p \in WalletPatches, w \in Wallets :
       /\ LiveWallet(w)
       /\ p[2] # 0 => wallet[w].kind = "CREDIT"
       /\ req' = [req EXCEPT ![r] = [NewRequest EXCEPT !.op = "walletUpdate", !.pc = "checked",
                                                       !.wallet = w, !.patch = p]]
  /\ UNCHANGED <<wallet, row, inst, lapses>>

WalletUpdateCommit(r) ==
  LET q == req[r] IN
  /\ At(r, "walletUpdate", "checked") /\ LiveWallet(q.wallet)
  /\ wallet' = [wallet EXCEPT ![q.wallet].kind = IF q.patch[1] # "absent" THEN q.patch[1] ELSE @,
                              ![q.wallet].limit = IF q.patch[2] # 0 THEN q.patch[2] ELSE @]
  /\ Finish(r)
  /\ UNCHANGED <<row, inst, lapses>>

(* Mutant: only incoming transfers count. *)
OnIncomingTransfer(w) == \E t \in Txs : LiveTx(t) /\ row[t].type = "TRANSFER" /\ row[t].to = w

(* deleteWallet: two counts, then the delete. *)
OnTransfer(w) == \E t \in Txs : LiveTx(t) /\ row[t].type = "TRANSFER" /\ w \in {row[t].wallet, row[t].to}
HasHistory(w) == \E t \in Txs : LiveTx(t) /\ row[t].wallet = w

(* Mutant: a transfer blocks only the deletion of its source. *)
GateOnSource(r) ==
  /\ CanStart(r, "walletDelete")
  /\ \E w \in Wallets, force \in BOOLEAN :
       /\ LiveWallet(w) /\ \A t \in Txs : row[t].type = "TRANSFER" => row[t].wallet # w
       /\ req' = [req EXCEPT ![r] = [NewRequest EXCEPT !.op = "walletDelete", !.pc = "loaded",
                                                       !.wallet = w, !.force = force]]
  /\ UNCHANGED <<wallet, row, inst, lapses>>

(* Gate 1: no stored transfer on either side. *)
WalletDeleteGate1(r) ==
  /\ CanStart(r, "walletDelete")
  /\ \E w \in Wallets, force \in BOOLEAN :
       /\ LiveWallet(w) /\ ~OnTransfer(w)
       /\ req' = [req EXCEPT ![r] = [NewRequest EXCEPT !.op = "walletDelete", !.pc = "loaded",
                                                       !.wallet = w, !.force = force]]
  /\ UNCHANGED <<wallet, row, inst, lapses>>

WalletDeleteAllowed(q) == HasHistory(q.wallet) => q.force

WalletDeleteGate2(r) ==
  /\ At(r, "walletDelete", "loaded") /\ WalletDeleteAllowed(req[r])
  /\ req' = [req EXCEPT ![r].pc = "checked"]
  /\ UNCHANGED <<wallet, row, inst, lapses>>

(* The schema cascades to the wallet's transactions and installments and    *)
(* sets toWalletId to null on transfers into it.                            *)
WalletDeleteCommit(r) ==
  LET w == req[r].wallet IN
  /\ At(r, "walletDelete", "checked") /\ LiveWallet(w)
  /\ wallet' = [wallet EXCEPT ![w] = GoneWallet]
  /\ row' = [t \in Txs |->
       IF LiveTx(t) /\ row[t].wallet = w THEN GoneTx
       ELSE IF LiveTx(t) /\ row[t].to = w THEN [row[t] EXCEPT !.to = NoWallet] ELSE row[t]]
  /\ inst' = [t \in Txs |-> IF LiveInst(t) /\ inst[t].wallet = w THEN GoneInst ELSE inst[t]]
  /\ lapses' = lapses \cup IF OnTransfer(w) THEN {"gate"} ELSE {}
  /\ Finish(r)
-----------------------------------------------------------------------------
(* An answer of 4xx or 5xx after the first read: a later check fails, or    *)
(* the transaction rolls back.  Nothing is written.                         *)
Refused(q) ==
  \/ q.op = "update" /\ q.pc = "loaded" /\ ~UpdateAllowed(q)
  \/ q.op = "pay" /\ q.pc = "loaded" /\ ~PayAllowed(q)
  \/ q.op = "walletDelete" /\ q.pc = "loaded" /\ ~WalletDeleteAllowed(q)

RolledBack(r) ==
  LET q == req[r] IN
  /\ q.pc = "checked"
  /\ \/ q.op = "create" /\ ~CreateCommits(r)
     \/ q.op = "update" /\ ~UpdateCommits(q)
     \/ q.op = "delete" /\ ~DeleteCommits(q)
     \/ q.op = "pay" /\ ~PayCommits(q)
     \/ q.op \in {"walletUpdate", "walletDelete"} /\ ~LiveWallet(q.wallet)

Refuse(r) == Refused(req[r]) /\ Finish(r) /\ UNCHANGED <<wallet, row, inst, lapses>>
Rollback(r) == RolledBack(r) /\ Finish(r) /\ UNCHANGED <<wallet, row, inst, lapses>>

Init ==
  /\ wallet = InitialWallets
  /\ row = [t \in Txs |-> FreeTx]
  /\ inst = [t \in Txs |-> FreeInst]
  /\ req = [r \in Reqs |-> NewRequest]
  /\ lapses = {}

Step(r) ==
  \/ CreateCheck(r) \/ CreateRegular(r) \/ CreateInstallment(r)
  \/ UpdateLoad(r) \/ UpdateCheck(r) \/ UpdateCommit(r)
  \/ DeleteLoad(r) \/ DeleteCommit(r)
  \/ PayLoad(r) \/ PayCheck(r) \/ PayCommit(r)
  \/ WalletCreate(r) \/ WalletUpdateLoad(r) \/ WalletUpdateCommit(r)
  \/ WalletDeleteGate1(r) \/ WalletDeleteGate2(r) \/ WalletDeleteCommit(r)
  \/ Refuse(r) \/ Rollback(r)

Next == \E r \in Reqs : Step(r)

Spec == Init /\ [][Next]_vars
-----------------------------------------------------------------------------
TypeOK ==
  /\ wallet \in [Wallets -> WalletRows]
  /\ row \in [Txs -> TxRows]
  /\ inst \in [Txs -> InstRows]
  /\ req \in [Reqs -> Requests]
  /\ lapses \subseteq LapseKinds

(* Model A, one installment for one transaction: an installment is stored   *)
(* exactly as long as the row created with it, on the same wallet, and the  *)
(* row carries its monthly amount -- through updates, payments, deletions   *)
(* and cascades in any order.                                               *)
ModelA ==
  \A t \in Txs :
    /\ LiveInst(t) <=> LiveTx(t) /\ row[t].isInstallment
    /\ LiveInst(t) => row[t].wallet = inst[t].wallet /\ row[t].amount = inst[t].monthly

(* No stored row or installment names a wallet that is gone, whatever       *)
(* deletions raced with the insert.                                         *)
NoDangling ==
  \A t \in Txs :
    /\ LiveTx(t) => LiveWallet(row[t].wallet) /\ row[t].to \in {w \in Wallets : LiveWallet(w)} \cup {NoWallet}
    /\ LiveInst(t) => LiveWallet(inst[t].wallet)

(* The four progress fields of an installment always tell the same story,   *)
(* even after concurrent payments overwrote each other: paidTerms is within *)
(* the term, SETTLED means all terms paid, currentTerm and nextDueDate are  *)
(* those of the first unpaid term.                                          *)
ScheduleOK(i) ==
  /\ i.paid <= i.months /\ i.months > 0
  /\ i.status = "SETTLED" <=> i.paid = i.months
  /\ i.term = IF i.paid < i.months THEN i.paid + 1 ELSE i.months
  /\ i.due = i.term - 1
ScheduleAgrees == \A t \in Txs : LiveInst(t) => ScheduleOK(inst[t])

(* What a request carries from its reads to its commit and nothing can      *)
(* change meanwhile: a row stays or stops being an installment for good, an *)
(* installment keeps its terms, an id is never given to another row.  The   *)
(* commits rely on exactly this; the rest of what they carry may be stale.  *)
SameTerms(i, j) ==
  /\ i.st = j.st /\ i.wallet = j.wallet /\ i.grandTotal = j.grandTotal
  /\ i.monthly = j.monthly /\ i.months = j.months
Carried(q) ==
  /\ q.op \in {"update", "delete", "pay"} => row[q.tx].st # "free"
  /\ q.op \in {"update", "delete"} /\ LiveTx(q.tx) => row[q.tx].isInstallment = q.row.isInstallment
  /\ q.op = "update" => ~q.row.isInstallment
  /\ q.op = "pay" => /\ q.inst.st = "live" /\ ScheduleOK(q.inst) /\ q.inst.paid < q.inst.months
                     /\ LiveInst(q.tx) => SameTerms(inst[q.tx], q.inst)
CarriedHolds == \A r \in Reqs : req[r].pc \in {"loaded", "checked"} => Carried(req[r])

(* Exact reversal: whatever a step does to a wallet's balance is what it    *)
(* does to the effect of one transaction row on that wallet, except when    *)
(* the step acts on a stale read of a row or of the transfer gate.          *)
ExactStep ==
  \A w \in Wallets : LiveWallet(w) /\ LiveWallet(w)' =>
    \E t \in Txs :
      /\ wallet'[w].balance - wallet[w].balance = EffectOfTx(t, w)' - EffectOfTx(t, w)
      /\ \A u \in Txs \ {t} : EffectOfTx(u, w)' = EffectOfTx(u, w)

Drifts == {"row", "gate"}
ExactReversal == [][lapses' \cap Drifts = {} => ExactStep]_vars

=============================================================================
