----------------------------- MODULE Reconcile -----------------------------
(***************************************************************************)
(* The audit of the ledger (scripts/reconcile.ts, domain/reconciliation.ts *)
(* and repairPlan.ts), run beside a program that posts: wallets, rows and  *)
(* installments are read by three queries, in no transaction and in any    *)
(* order, then compared.  Queries see committed data only, so the program  *)
(* beside it is the abstract one (AtomicPosting), which Posting implements.*)
(***************************************************************************)
EXTENDS BalanceEffect, Sums

CONSTANTS
  Entries,   \* the requests by which the program may change rows meanwhile
  EntryOf,   \* what each does to its row, one of RowChanges (module BalanceEffect)
  OldRows,   \* rows that may be in the ledger from before and stay
  Openings,  \* the initialBalance of the wallets, as functions
  Damages    \* by what balances may have drifted before, as functions

(* An installment is bought or deleted with its row, never updated, and has *)
(* a monthly amount only if it has a debt: the amount is the debt divided   *)
(* by the months.  Transfers without a destination stay as they are.        *)
ASSUME BooksAssumption ==
  /\ Openings \subseteq [Wallets -> Int] /\ Damages \subseteq [Wallets -> Int]
  /\ EntryOf \in [Entries -> RowChanges] /\ IsFiniteSet(Entries)
  /\ OldRows \subseteq EffectInputs /\ IsFiniteSet(OldRows)
  /\ \A p \in Entries : \A e \in {EntryOf[p].before, EntryOf[p].after} :
       /\ e.isInstallment => NoEffect \in {EntryOf[p].before, EntryOf[p].after}
       /\ e.isInstallment /\ e.grandTotal = 0 => e.amount = 0
       /\ e.type = "TRANSFER" => e.to # NoWallet

VARIABLES
  shown,  \* wallets.balance as committed
  entry,  \* the fate of each entry
  books,  \* initialBalance, old rows and damage, none of which changes
  audit   \* the run of the script

auditVars == <<shown, entry, books, audit>>

Program == INSTANCE AtomicPosting WITH
  Posters <- Entries, balanceOf <- shown, fate <- entry,
  Change <- [p \in Entries |-> [w \in Wallets |-> ChangeOn(EntryOf[p], w)]]

Sources == {"wallets", "rows", "installments"}

(* got names the queries done; balances is the result of the first, rows    *)
(* and plans say which commits the other two have seen.  at, of no effect,  *)
(* is the commits that balances show.  exit is the exit code, -1 before.    *)
NewAudit == [got |-> {}, balances |-> [w \in Wallets |-> 0], at |-> {}, rows |-> {},
             plans |-> {}, exit |-> -1]

Committed == {p \in Entries : entry[p] = "committed"}

(* The row of p for a query that saw the commits in S. *)
Version(p, S) == IF p \in S THEN EntryOf[p].after ELSE EntryOf[p].before
-----------------------------------------------------------------------------
(* Mutant: an installment counts for its monthly amount. *)
AuditedMonthly(p) ==
  LET v == Version(p, audit.rows) IN [v EXCEPT !.grandTotal = v.amount]

(* A row as balanceDeltas is given it: an installment that the third query  *)
(* did not see counts for its monthly amount.                               *)
AuditedRow(p) ==
  LET v == Version(p, audit.rows)
  IN [v EXCEPT !.grandTotal = IF Version(p, audit.plans).isInstallment THEN @ ELSE v.amount]

(* What the rows add to wallet w: the old ones, and those that the program  *)
(* changes as they were, by how much they change and as the audit takes     *)
(* them.                                                                    *)
OldEffects(w)     == [e \in OldRows |-> EffectOn(e, w)]
BeforeEffects(w)  == [p \in Entries |-> EffectOn(EntryOf[p].before, w)]
EntryChanges(w)   == [p \in Entries |-> ChangeOn(EntryOf[p], w)]
AuditedEffects(w) == [p \in Entries |-> EffectOn(AuditedRow(p), w)]

(* reconcileWalletBalances *)
ExpectedOf(w) ==
  books.initial[w] + Total(OldEffects(w), books.old) + Total(AuditedEffects(w), Entries)

DriftSeen(w) == audit.balances[w] - ExpectedOf(w)

(* auditWalletBalances: destination-less transfers out of w. *)
LegacyCount(w) ==
  Cardinality({e \in books.old : e.type = "TRANSFER" /\ e.to = NoWallet /\ e.wallet = w})

(* classify; the script names no manual overrides. *)
Classify(w) ==
  IF DriftSeen(w) = 0 THEN <<"CLEAN", "HIGH">>
  ELSE IF LegacyCount(w) > 0 THEN <<"LEGACY_TRANSFER_UNRESOLVED", "LOW">>
  ELSE IF books.initial[w] = 0 THEN <<"LIKELY_INITIAL_BALANCE_MISSING", "MEDIUM">>
  ELSE <<"UNCLASSIFIED_DRIFT", "LOW">>

HasDrift == \E w \in Wallets : Classify(w)[1] # "CLEAN"

(* buildRepairPlan, for the wallets whose opening balance is verified; the  *)
(* script passes none.                                                      *)
RepairConfidence(w, verified) ==
  IF LegacyCount(w) = 0 /\ w \in verified THEN "HIGH" ELSE Classify(w)[2]
RepairPlan(verified) ==
  {[wallet |-> w, difference |-> -DriftSeen(w),
    manual |-> RepairConfidence(w, verified) = "LOW",
    autoApply |-> RepairConfidence(w, verified) = "HIGH"] :
   w \in {v \in Wallets : Classify(v)[1] # "CLEAN"}}
-----------------------------------------------------------------------------
AuditIdle == audit.exit = -1
AuditReads(source, result) ==
  /\ AuditIdle /\ source \notin audit.got
  /\ audit' = [result EXCEPT !.got = @ \cup {source}]
  /\ UNCHANGED <<shown, entry, books>>

ReadWallets == AuditReads("wallets", [audit EXCEPT !.balances = shown, !.at = Committed])
ReadRows == AuditReads("rows", [audit EXCEPT !.rows = Committed])
ReadInstallments == AuditReads("installments", [audit EXCEPT !.plans = Committed])

(* The report, whatever its format, and the exit code. *)
AuditEnds ==
  /\ AuditIdle /\ audit.got = Sources
  /\ audit' = [audit EXCEPT !.exit = IF HasDrift THEN 2 ELSE 0]
  /\ UNCHANGED <<shown, entry, books>>

(* A query fails. *)
AuditFails ==
  /\ AuditIdle /\ audit.got # Sources
  /\ audit' = [audit EXCEPT !.exit = 1]
  /\ UNCHANGED <<shown, entry, books>>

ReconcileInit ==
  /\ entry = [p \in Entries |-> "pending"]
  /\ books \in [initial : Openings, old : SUBSET OldRows, damage : Damages]
  /\ shown = [w \in Wallets |->
                books.initial[w] + books.damage[w] + Total(OldEffects(w), books.old)
                  + Total(BeforeEffects(w), Entries)]
  /\ audit = NewAudit

ReconcileNext ==
  \/ Program!Next /\ UNCHANGED <<books, audit>>
  \/ ReadWallets \/ ReadRows \/ ReadInstallments \/ AuditEnds \/ AuditFails

ReconcileSpec == ReconcileInit /\ [][ReconcileNext]_auditVars
-----------------------------------------------------------------------------
ReconcileTypeOK ==
  /\ shown \in [Wallets -> Int] /\ entry \in [Entries -> {"pending", "committed", "abandoned"}]
  /\ books \in [initial : Openings, old : SUBSET OldRows, damage : Damages]
  /\ audit \in [got : SUBSET Sources, balances : [Wallets -> Int], at : SUBSET Entries,
                rows : SUBSET Entries, plans : SUBSET Entries, exit : -1..2]

(* Changes on w that the queries did not all see or all miss. *)
TornBy(w) ==
  LET halfSeen   == (audit.at \ audit.rows) \cup (audit.rows \ audit.at)
      planMissed == {p \in Entries : /\ Version(p, audit.rows).isInstallment
                                     /\ ~Version(p, audit.plans).isInstallment}
  IN {p \in halfSeen \cup planMissed : ChangeOn(EntryOf[p], w) # 0}

(* What an operator may conclude from a finished audit that ran beside the  *)
(* program: a wallet on which nothing was committed between the queries      *)
(* is reported with exactly the drift it has, clean or not; exit code 0     *)
(* says that each wallet was judged clean; and nothing is ever proposed for *)
(* automatic repair, however torn the reading.                              *)
AuditSound ==
  audit.exit \in {0, 2} =>
    /\ \A w \in Wallets : TornBy(w) = {} => DriftSeen(w) = books.damage[w]
    /\ audit.exit = 0 => \A w \in Wallets : TornBy(w) = {} => books.damage[w] = 0
    /\ \A x \in RepairPlan({}) : ~x.autoApply /\ (LegacyCount(x.wallet) > 0 => x.manual)
=============================================================================
