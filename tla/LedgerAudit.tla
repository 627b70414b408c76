----------------------------- MODULE LedgerAudit -----------------------------
(***************************************************************************)
(* What the ledger must add up to, by the audit of the code itself:        *)
(* reconcileWalletBalances (src/domain/transactionBalance.ts).             *)
(***************************************************************************)
EXTENDS LedgerRules, Sums

(* createWallet gives a new wallet the same balance and initialBalance.     *)
ASSUME OpeningAssumption ==
  \A w \in Wallets : InitialWallets[w].st = "live"
    => InitialWallets[w].balance = InitialWallets[w].initial

Effects(w) == [t \in Txs |-> EffectOfTx(t, w)]

(* expected = initialBalance + the effect of every stored transaction       *)
ExpectedBalance(w) == wallet[w].initial + Total(Effects(w), Txs)

Drift(w) == wallet[w].balance - ExpectedBalance(w)

(* The stored running balance of every wallet is its opening balance plus   *)
(* the effects of the stored transactions (wallet.service.ts: "expected =   *)
(* initialBalance + sum of effects").                                       *)
LedgerConsistent == \A w \in Wallets : LiveWallet(w) => Drift(w) = 0

(* A balance can drift only if some commit acted on a stale read: a row     *)
(* reversed as it used to be, or a wallet deleted after its transfer gate.  *)
(* Nothing else -- no rollback, refusal, cascade or payment -- loses money. *)
DriftOnlyFromLapse == lapses \cap Drifts = {} => LedgerConsistent
=============================================================================
