-------------------------- MODULE LedgerAuditProofs --------------------------
(***************************************************************************)
(* What the ledger adds up to and which business rules it keeps: for any   *)
(* requests at once as far as that goes, and in full when they are served  *)
(* one at a time.                                                          *)
(***************************************************************************)
EXTENDS LedgerAudit, LedgerProofs, SumProofs

-----------------------------------------------------------------------------
(* The audit.                                                              *)

(* An increment leaves everything but the balance of a wallet alone. *)
LEMMA ApplyKeeps ==
  ASSUME wallet \in [Wallets -> WalletRows], NEW f, Apply(f), NEW w \in Wallets
  PROVE  /\ wallet'[w].st = wallet[w].st /\ wallet'[w].initial = wallet[w].initial
         /\ wallet'[w].kind = wallet[w].kind /\ wallet'[w].limit = wallet[w].limit
BY DEF Apply, LiveWallet, WalletRows

(* A wallet that is there after a step was there before, with the same      *)
(* opening balance, or has just been opened.                                *)
Opened(w) ==
  /\ row' = row /\ inst' = inst
  /\ wallet[w].st = "free" /\ wallet'[w].balance = wallet'[w].initial

LEMMA WalletsEvolve ==
  ASSUME Inv, NEW r \in Reqs, Step(r), NEW w \in Wallets, LiveWallet(w)'
  PROVE  (LiveWallet(w) /\ wallet'[w].initial = wallet[w].initial) \/ Opened(w)
<1>1. wallet \in [Wallets -> WalletRows] /\ wallet'[w].st = "live"
  BY DEF Inv, TypeInv, TypeOK, LiveWallet
<1>2. CASE \E f : Apply(f)
  BY <1>1, <1>2, ApplyKeeps DEF LiveWallet
<1>3. CASE WalletCreate(r)
  <2>1. PICK in \in WalletInputs, v \in Wallets :
          /\ wallet[v].st = "free"
          /\ \E o : wallet' = [wallet EXCEPT ![v] = [st |-> "live", kind |-> in[1], balance |-> o,
                              initial |-> o, limit |-> IF in[1] = "CREDIT" THEN in[3] ELSE 0]]
    BY <1>3 DEF WalletCreate
  <2>2. CASE v = w
    <3>1. PICK o : wallet'[w] = [st |-> "live", kind |-> in[1], balance |-> o, initial |-> o,
                                 limit |-> IF in[1] = "CREDIT" THEN in[3] ELSE 0]
      BY <1>1, <2>1, <2>2
    <3>2. wallet'[w].balance = o /\ wallet'[w].initial = o
      BY <3>1
    <3>3. row' = row /\ inst' = inst
      BY <1>3 DEF WalletCreate
    <3>4. QED
      BY <2>1, <2>2, <3>2, <3>3 DEF Opened
  <2>3. CASE v # w
    BY <1>1, <2>1, <2>3 DEF LiveWallet
  <2>4. QED
    BY <2>2, <2>3
<1>4. CASE WalletUpdateCommit(r)
  BY <1>1, <1>4 DEF WalletUpdateCommit, LiveWallet, WalletRows
<1>5. CASE WalletDeleteCommit(r)
  BY <1>1, <1>5 DEF WalletDeleteCommit, LiveWallet, GoneWallet
<1>6. CASE UNCHANGED wallet
  BY <1>1, <1>6 DEF LiveWallet
<1>7. QED
  BY <1>2, <1>3, <1>4, <1>5, <1>6
     DEF Step, CreateCheck, CreateRegular, CreateInstallment, UpdateLoad, UpdateCheck, UpdateCommit,
         DeleteLoad, DeleteCommit, PayLoad, PayCheck, PayCommit, WalletUpdateLoad,
         WalletDeleteGate1, WalletDeleteGate2, Refuse, Rollback

(* What a commit acted on is never forgotten. *)
LEMMA LapsesGrow ==
  ASSUME NEW r \in Reqs, Step(r)
  PROVE  lapses \subseteq lapses'
BY DEF Step, CreateCheck, CreateRegular, CreateInstallment, UpdateLoad, UpdateCheck, UpdateCommit,
       DeleteLoad, DeleteCommit, PayLoad, PayCheck, PayCommit, WalletCreate, WalletUpdateLoad,
       WalletUpdateCommit, WalletDeleteGate1, WalletDeleteGate2, WalletDeleteCommit, Refuse, Rollback

LEMMA EffectsType ==
  ASSUME Inv, NEW w
  PROVE  /\ IsFiniteSet(Txs)
         /\ \A t \in Txs : Effects(w)[t] = EffectOfTx(t, w) /\ Effects(w)[t] \in Int
<1>1. IsFiniteSet(Txs)
  BY LedgerAssumption, FS_Interval DEF Txs
<1>2. QED
  BY <1>1, EffectOfTxType DEF Effects

(* No stored row has an effect on a wallet that is not there. *)
LEMMA NoEffectOnOthers ==
  ASSUME Inv, NEW w, ~LiveWallet(w), w # NoWallet, NEW t \in Txs
  PROVE  EffectOfTx(t, w) = 0
BY DEF Inv, NoDangling, EffectOfTx, StoredEffect, EffectOn, HasDestination, InputFrom

(* An exact step keeps the drift of a wallet.                               *)
LEMMA ExactStepKeepsDrift ==
  ASSUME Inv, Inv', ExactStep, NEW w \in Wallets, LiveWallet(w), LiveWallet(w)',
         wallet'[w].initial = wallet[w].initial
  PROVE  Drift(w)' = Drift(w)
<1>1. PICK t \in Txs :
        /\ wallet'[w].balance - wallet[w].balance = EffectOfTx(t, w)' - EffectOfTx(t, w)
        /\ \A u \in Txs \ {t} : EffectOfTx(u, w)' = EffectOfTx(u, w)
  BY DEF ExactStep
<1>2. PICK d, e : d = Effects(w)' /\ e = Effects(w)
  OBVIOUS
<1>3. IsFiniteSet(Txs) /\ \A u \in Txs : d[u] \in Int /\ e[u] \in Int
  <2>1. IsFiniteSet(Txs) /\ \A u \in Txs : Effects(w)[u] \in Int
    BY EffectsType
  <2>2. \A u \in Txs : Effects(w)'[u] \in Int
    BY EffectType DEF Effects, EffectOfTx, StoredEffect, Inv, TypeInv, TypeOK
  <2>3. QED
    BY <1>2, <2>1, <2>2
<1>4. \A u \in Txs : d[u] = EffectOfTx(u, w)' /\ e[u] = EffectOfTx(u, w)
  BY <1>2 DEF Effects
<1>5. Total(d, Txs) = Total(e, Txs) + (d[t] - e[t])
  BY <1>1, <1>3, <1>4, TotalChange
<1>6. Total(e, Txs) \in Int /\ d[t] \in Int /\ e[t] \in Int
  BY <1>3, TotalType
<1>7. /\ wallet[w].balance \in Int /\ wallet'[w].balance \in Int
      /\ wallet[w].initial \in Int
  BY DEF Inv, TypeInv, TypeOK, WalletRows
<1>8. wallet'[w].balance - wallet[w].balance = d[t] - e[t]
  BY <1>1, <1>4
<1>9. /\ Drift(w) = wallet[w].balance - (wallet[w].initial + Total(e, Txs))
      /\ Drift(w)' = wallet'[w].balance - (wallet[w].initial + Total(d, Txs))
  BY <1>2 DEF Drift, ExpectedBalance
<1>10. QED
  BY <1>5, <1>6, <1>7, <1>8, <1>9

(* A wallet just opened has no drift. *)
LEMMA OpenedNoDrift ==
  ASSUME Inv, Inv', NEW w \in Wallets, Opened(w)
  PROVE  Drift(w)' = 0
<1>1. ~LiveWallet(w) /\ w # NoWallet
  BY NoWalletAssumption DEF Opened, LiveWallet
<1>2. \A t \in Txs : Effects(w)[t] = 0 /\ IsFiniteSet(Txs)
  BY <1>1, EffectsType, NoEffectOnOthers
<1>3. Total(Effects(w), Txs) = 0
  <2>1. 1 \in Txs
    BY LedgerAssumption DEF Txs
  <2>2. QED
    BY <1>2, <2>1, TotalZero
<1>4. Effects(w)' = Effects(w)
  BY DEF Opened, Effects, EffectOfTx, StoredEffect, LiveTx
<1>5. wallet'[w].initial \in Int
  BY DEF Inv, TypeInv, TypeOK, WalletRows
<1>6. QED
  BY <1>3, <1>4, <1>5 DEF Drift, ExpectedBalance, Opened

LEMMA DriftInit == Init => DriftOnlyFromLapse
<1> SUFFICES ASSUME Init, NEW w \in Wallets, LiveWallet(w) PROVE Drift(w) = 0
  BY DEF DriftOnlyFromLapse, LedgerConsistent
<1>1. \A t \in Txs : Effects(w)[t] = 0
  BY DEF Init, Effects, EffectOfTx, LiveTx, FreeTx
<1>2. IsFiniteSet(Txs)
  BY LedgerAssumption, FS_Interval DEF Txs
<1>3. Total(Effects(w), Txs) = 0
  BY <1>1, <1>2, TotalZero
<1>4. wallet[w].balance = wallet[w].initial /\ wallet[w].initial \in Int
  BY LedgerAssumption, OpeningAssumption DEF Init, LiveWallet, WalletRows
<1>5. QED
  BY <1>3, <1>4 DEF Drift, ExpectedBalance

LEMMA DriftStep ==
  ASSUME Inv, Inv', DriftOnlyFromLapse, NEW r \in Reqs, Step(r)
  PROVE  DriftOnlyFromLapse'
<1> SUFFICES ASSUME lapses' \cap Drifts = {}, NEW w \in Wallets, LiveWallet(w)'
             PROVE  Drift(w)' = 0
  BY DEF DriftOnlyFromLapse, LedgerConsistent, Drifts
<1>1. ExactStep /\ lapses \cap Drifts = {}
  BY StepExact, LapsesGrow
<1>2. CASE LiveWallet(w) /\ wallet'[w].initial = wallet[w].initial
  <2>1. Drift(w) = 0
    BY <1>1, <1>2 DEF DriftOnlyFromLapse, LedgerConsistent
  <2>2. QED
    BY <1>1, <1>2, <2>1, ExactStepKeepsDrift
<1>3. CASE Opened(w)
  BY <1>3, OpenedNoDrift
<1>4. QED
  BY <1>2, <1>3, WalletsEvolve

(* Whatever requests run at once, the balance of a wallet is its opening    *)
(* balance and the effects of the stored rows, as the audit computes it,    *)
(* until a commit acts on a stale read of a row or of the transfer gate.    *)
THEOREM OnlyLapsesDrift == Spec => []DriftOnlyFromLapse
<1>1. Init => DriftOnlyFromLapse
  BY DriftInit
<1>2. Inv /\ Inv' /\ DriftOnlyFromLapse /\ [Next]_vars => DriftOnlyFromLapse'
  <2> SUFFICES ASSUME Inv, Inv', DriftOnlyFromLapse, [Next]_vars PROVE DriftOnlyFromLapse'
    OBVIOUS
  <2>1. CASE Next
    BY <2>1, DriftStep DEF Next
  <2>2. CASE UNCHANGED vars
    BY <2>2 DEF vars, DriftOnlyFromLapse, LedgerConsistent, Drifts, Drift, ExpectedBalance, Effects,
                EffectOfTx, StoredEffect, LiveTx, LiveWallet
  <2>3. QED
    BY <2>1, <2>2
<1>3. QED
  BY <1>1, <1>2, Invariance, PTL DEF Spec

-----------------------------------------------------------------------------
(* Payments.                                                               *)

(* A payment that acts on no stale counters advances an active bill by one  *)
(* term, from the counters it read.                                         *)
Advances(q, p) ==
  /\ p = q.tx /\ p \in Txs /\ q.inst \in InstRows /\ LiveInst(p) /\ SameTerms(inst[p], q.inst)
  /\ inst[p].paid = q.inst.paid /\ q.inst.paid < q.inst.months /\ inst[p].status = "ACTIVE"
  /\ inst'[p] = Advanced(q.inst) /\ \A u \in Txs \ {p} : inst'[u] = inst[u]

LEMMA PaymentAdvances ==
  ASSUME Inv, NEW r \in Reqs, PayCommit(r), "payment" \notin lapses'
  PROVE  Advances(req[r], req[r].tx)
<1> PICK q \in Requests : q = req[r]
  BY DEF Inv, TypeInv, TypeOK
<1> PICK p \in Txs : p = q.tx
  BY DEF Requests
<1>1. /\ At(r, "pay", "checked") /\ PayCommits(q) /\ inst' = [inst EXCEPT ![p] = Advanced(q.inst)]
      /\ lapses' = lapses \cup IF inst[p].paid # q.inst.paid THEN {"payment"} ELSE {}
  BY DEF PayCommit
<1>2. inst[p].paid = q.inst.paid
  BY <1>1
<1>3. inst \in [Txs -> InstRows] /\ inst[p] \in InstRows /\ q.inst \in InstRows
  BY DEF Inv, TypeInv, TypeOK, Requests
<1>4. LiveInst(p) /\ SameTerms(inst[p], q.inst) /\ q.inst.paid < q.inst.months /\ ScheduleOK(inst[p])
  BY <1>1 DEF PayCommits, At, Inv, CarriedHolds, Carried, ScheduleAgrees
<1>5. inst[p].status = "ACTIVE"
  BY <1>2, <1>3, <1>4 DEF ScheduleOK, SameTerms, InstRows
<1>6. QED
  BY <1>1, <1>2, <1>3, <1>4, <1>5 DEF Advances

(* Only a payment changes an installment that stays. *)
LEMMA InstKept ==
  ASSUME Inv, NEW r \in Reqs, Step(r), ~PayCommit(r), NEW t \in Txs, LiveInst(t), LiveInst(t)'
  PROVE  inst'[t] = inst[t]
<1>1. inst \in [Txs -> InstRows] /\ LiveTx(t)
  BY DEF Inv, TypeInv, TypeOK, ModelA
<1>2. inst'[t].st = "live" /\ GoneInst.st = "gone"
  BY DEF LiveInst, GoneInst, FreeInst
<1>3. CASE CreateInstallment(r)
  <2>1. PICK u \in Txs : IsNext(u) /\ inst' = [inst EXCEPT ![u] = NewInst(req[r].in)]
    BY <1>3 DEF CreateInstallment
  <2>2. u # t
    BY <1>1, <2>1 DEF IsNext, LiveTx
  <2>3. QED
    BY <1>1, <2>1, <2>2
<1>4. CASE DeleteCommit(r)
  BY <1>1, <1>2, <1>4 DEF DeleteCommit
<1>5. CASE WalletDeleteCommit(r)
  BY <1>1, <1>2, <1>5 DEF WalletDeleteCommit
<1>6. CASE UNCHANGED inst
  BY <1>6
<1>7. QED
  BY <1>3, <1>4, <1>5, <1>6
     DEF Step, CreateCheck, CreateRegular, UpdateLoad, UpdateCheck, UpdateCommit,
         DeleteLoad, PayLoad, PayCheck, WalletCreate, WalletUpdateLoad, WalletUpdateCommit,
         WalletDeleteGate1, WalletDeleteGate2, Refuse, Rollback

(* However payments, deletions and cascades interleave, paid terms only     *)
(* grow and a settled bill is final, unless two payments worked from the    *)
(* same counters.                                                           *)
THEOREM PaidOnlyGrows == Spec => PaidNeverRegresses
<1>1. Inv /\ [Next]_vars =>
        [\A t \in Txs : "payment" \notin lapses' /\ LiveInst(t) /\ LiveInst(t)'
           => /\ inst[t].paid <= inst'[t].paid
              /\ inst[t].status = "SETTLED" => inst'[t] = inst[t]]_vars
  <2> SUFFICES ASSUME Inv, Next, NEW t \in Txs, "payment" \notin lapses', LiveInst(t), LiveInst(t)'
               PROVE  /\ inst[t].paid <= inst'[t].paid
                      /\ inst[t].status = "SETTLED" => inst'[t] = inst[t]
    OBVIOUS
  <2>1. PICK r \in Reqs : Step(r)
    BY DEF Next
  <2>2. inst[t].paid \in Nat
    BY DEF Inv, TypeInv, TypeOK, InstRows
  <2>3. CASE PayCommit(r)
    <3>1. Advances(req[r], req[r].tx)
      BY <2>3, PaymentAdvances
    <3>2. CASE t = req[r].tx
      BY <2>2, <3>1, <3>2 DEF Advances, Advanced
    <3>3. CASE t # req[r].tx
      BY <2>2, <3>1, <3>3 DEF Advances
    <3>4. QED
      BY <3>2, <3>3
  <2>4. CASE ~PayCommit(r)
    BY <2>1, <2>2, <2>4, InstKept
  <2>5. QED
    BY <2>3, <2>4
<1>2. QED
  BY <1>1, Invariance, PTL DEF Spec, PaidNeverRegresses

(* What a term costs is what the schedule asks for one term more. *)
LEMMA ScheduleStep ==
  ASSUME NEW i \in InstRows, i.paid < i.months
  PROVE  ExpectedAmount(i.grandTotal, i.monthly, i.months, i.paid) = Scheduled(Advanced(i)) - Scheduled(i)
<1>1. /\ i.paid \in Nat /\ i.months \in Nat /\ i.monthly \in Int /\ i.grandTotal \in Nat
  BY DEF InstRows
<1>2. /\ Advanced(i).paid = i.paid + 1 /\ Advanced(i).months = i.months
      /\ Advanced(i).monthly = i.monthly /\ Advanced(i).grandTotal = i.grandTotal
  BY DEF Advanced
<1>3. Scheduled(i) = i.paid * i.monthly /\ i.paid * i.monthly \in Int
  BY <1>1 DEF Scheduled
<1>4. CASE i.paid + 1 = i.months
  <2>1. i.monthly * (i.months - 1) = i.paid * i.monthly
    BY <1>1, <1>4
  <2>2. Scheduled(Advanced(i)) = i.grandTotal
    BY <1>2, <1>4 DEF Scheduled
  <2>3. i.paid + 1 >= i.months
    BY <1>1, <1>4
  <2>4. ExpectedAmount(i.grandTotal, i.monthly, i.months, i.paid) = i.grandTotal - i.monthly * (i.months - 1)
    BY <2>3 DEF ExpectedAmount, FinalMonthlyAmount
  <2>5. QED
    BY <1>3, <2>1, <2>2, <2>4
<1>5. CASE i.paid + 1 # i.months
  <2>1. ~(i.paid + 1 >= i.months)
    BY <1>1, <1>5
  <2>2. (i.paid + 1) * i.monthly = i.paid * i.monthly + i.monthly
    BY <1>1
  <2>3. Scheduled(Advanced(i)) = (i.paid + 1) * i.monthly
    BY <1>2, <1>5 DEF Scheduled
  <2>4. ExpectedAmount(i.grandTotal, i.monthly, i.months, i.paid) = i.monthly
    BY <2>1 DEF ExpectedAmount
  <2>5. QED
    BY <1>1, <1>3, <2>2, <2>3, <2>4
<1>6. QED
  BY <1>4, <1>5

(* The three ways a row gets into the table. *)
LEMMA InsertedBy ==
  ASSUME Inv, NEW r \in Reqs, Step(r), NEW t \in Txs, Inserted(t)
  PROVE  \/ CreateRegular(r) /\ row'[t] = NewTx(req[r].in)
         \/ CreateInstallment(r) /\ row'[t].pays = 0 /\ row'[t].type = req[r].in.type
         \/ PayCommit(r) /\ row'[t] = PaymentTx(req[r])
<1>1. row \in [Txs -> TxRows] /\ row[t].st = "free" /\ row'[t].st = "live"
  BY DEF Inv, TypeInv, TypeOK, Inserted, LiveTx
<1>2. CASE CreateRegular(r)
  BY <1>1, <1>2 DEF CreateRegular
<1>3. CASE CreateInstallment(r)
  BY <1>1, <1>3 DEF CreateInstallment, NewTx
<1>4. CASE PayCommit(r)
  BY <1>1, <1>4 DEF PayCommit
<1>5. CASE UpdateCommit(r)
  BY <1>1, <1>5 DEF UpdateCommit, UpdateCommits, LiveTx
<1>6. CASE DeleteCommit(r)
  BY <1>1, <1>6 DEF DeleteCommit, GoneTx, FreeTx
<1>7. CASE WalletDeleteCommit(r)
  BY <1>1, <1>7 DEF WalletDeleteCommit, LiveTx
<1>8. CASE UNCHANGED row
  BY <1>1, <1>8
<1>9. QED
  BY <1>2, <1>3, <1>4, <1>5, <1>6, <1>7, <1>8
     DEF Step, CreateCheck, UpdateLoad, UpdateCheck, DeleteLoad, PayLoad, PayCheck, WalletCreate,
         WalletUpdateLoad, WalletUpdateCommit, WalletDeleteGate1, WalletDeleteGate2, Refuse, Rollback

(* Ids are never given back, and no installment joins an old row. *)
LEMMA NeverFreed ==
  ASSUME Inv, NEW r \in Reqs, Step(r), NEW t \in Txs, row[t].st # "free"
  PROVE  row'[t].st # "free" /\ (LiveInst(t)' => LiveInst(t))
<1>1. CASE UNCHANGED <<row, inst>>
  BY <1>1 DEF LiveInst
<1>2. CASE Integrity
  BY <1>2 DEF Integrity, RowsEvolve
<1>3. QED
  BY <1>1, <1>2, CreateRegularKeeps, CreateInstallmentKeeps, UpdateCommitKeeps, DeleteCommitKeeps,
     PayCommitKeeps, WalletDeleteKeeps
     DEF Step, CreateCheck, UpdateLoad, UpdateCheck, DeleteLoad, PayLoad, PayCheck, WalletCreate,
         WalletUpdateLoad, WalletUpdateCommit, WalletDeleteGate1, WalletDeleteGate2, Refuse, Rollback

(* Only payInstallment stores a payment; a row that changes stays one or    *)
(* goes.                                                                    *)
LEMMA PaymentsOnlyPaid ==
  ASSUME Inv, NEW r \in Reqs, Step(r), ~PayCommit(r), NEW t \in Txs
  PROVE  PaymentsOf(t)' \subseteq PaymentsOf(t)
<1> SUFFICES ASSUME NEW u \in Txs, row'[u].st = "live", row'[u].pays = t
             PROVE  row[u].st = "live" /\ row[u].pays = t
  BY DEF PaymentsOf, LiveTx
<1>1. row \in [Txs -> TxRows] /\ t # 0
  BY LedgerAssumption DEF Inv, TypeInv, TypeOK, Txs
<1>2. CASE CreateRegular(r)
  BY <1>1, <1>2 DEF CreateRegular, NewTx
<1>3. CASE CreateInstallment(r)
  BY <1>1, <1>3 DEF CreateInstallment, NewTx
<1>4. CASE UpdateCommit(r)
  BY <1>1, <1>4 DEF UpdateCommit, UpdatedTx
<1>5. CASE DeleteCommit(r)
  BY <1>1, <1>5 DEF DeleteCommit, GoneTx, FreeTx
<1>6. CASE WalletDeleteCommit(r)
  <2>1. row'[u] = IF LiveTx(u) /\ row[u].wallet = req[r].wallet THEN GoneTx
                  ELSE IF LiveTx(u) /\ row[u].to = req[r].wallet THEN [row[u] EXCEPT !.to = NoWallet] ELSE row[u]
    BY <1>6 DEF WalletDeleteCommit
  <2>2. GoneTx.st = "gone"
    BY DEF GoneTx, FreeTx
  <2>3. [row[u] EXCEPT !.to = NoWallet].st = row[u].st /\ [row[u] EXCEPT !.to = NoWallet].pays = row[u].pays
    BY <1>1 DEF TxRows
  <2>4. QED
    BY <2>1, <2>2, <2>3
<1>7. CASE UNCHANGED row
  BY <1>7
<1>8. QED
  BY <1>2, <1>3, <1>4, <1>5, <1>6, <1>7
     DEF Step, CreateCheck, UpdateLoad, UpdateCheck, DeleteLoad, PayLoad, PayCheck, WalletCreate,
         WalletUpdateLoad, WalletUpdateCommit, WalletDeleteGate1, WalletDeleteGate2, Refuse, Rollback

(* A payment is for a bill whose id is in use.                              *)
PaysKnown == \A u \in Txs : LiveTx(u) /\ row[u].pays # 0 => row[row[u].pays].st # "free"

LEMMA PaysStep ==
  ASSUME Inv, PaysKnown, NEW r \in Reqs, Step(r)
  PROVE  PaysKnown'
<1> SUFFICES ASSUME NEW u \in Txs, row'[u].st = "live", row'[u].pays # 0
             PROVE  row'[row'[u].pays].st # "free"
  BY DEF PaysKnown, LiveTx
<1>1. Inv' /\ row'[u].pays \in Txs
  BY InvStep DEF Inv, TypeInv, TypeOK, TxRows
<1>2. CASE ~PayCommit(r)
  <2>1. LiveTx(u) /\ row[u].pays = row'[u].pays
    BY <1>1, <1>2, PaymentsOnlyPaid DEF PaymentsOf, LiveTx
  <2>2. QED
    BY <1>1, <2>1, NeverFreed DEF PaysKnown
<1>3. CASE PayCommit(r)
  <2>1. row \in [Txs -> TxRows] /\ req[r].tx \in Txs
    BY DEF Inv, TypeInv, TypeOK, Requests
  <2>2. PICK t \in Txs : row' = [row EXCEPT ![t] = PaymentTx(req[r])]
    BY <1>3 DEF PayCommit
  <2>3. row[req[r].tx].st # "free"
    BY <1>3 DEF PayCommit, At, Inv, CarriedHolds, Carried
  <2>4. CASE u = t
    <3>1. row'[u].pays = req[r].tx
      BY <2>1, <2>2, <2>4 DEF PaymentTx
    <3>2. QED
      BY <2>1, <2>3, <3>1, NeverFreed
  <2>5. CASE u # t
    <3>1. LiveTx(u) /\ row[u].pays = row'[u].pays
      BY <2>1, <2>2, <2>5 DEF LiveTx
    <3>2. QED
      BY <1>1, <3>1, NeverFreed DEF PaysKnown
  <2>6. QED
    BY <2>4, <2>5
<1>4. QED
  BY <1>2, <1>3

LEMMA OneMore ==
  ASSUME NEW S, NEW x, IsFiniteSet(S), Cardinality(S) \in Nat
  PROVE  IsFiniteSet(S \cup {x}) /\ Cardinality(S \cup {x}) <= Cardinality(S) + 1
<1>1. CASE x \in S
  <2>1. S \cup {x} = S
    BY <1>1
  <2>2. IsFiniteSet(S \cup {x}) /\ Cardinality(S \cup {x}) = Cardinality(S)
    BY <2>1, Zenon
  <2>3. QED
    BY <2>2
<1>2. CASE x \notin S
  BY <1>2, FS_AddElement
<1>3. QED
  BY <1>1, <1>2

LEMMA PaymentsFinite ==
  ASSUME NEW t
  PROVE  IsFiniteSet(PaymentsOf(t)) /\ Cardinality(PaymentsOf(t)) \in Nat
<1>1. IsFiniteSet(Txs) /\ PaymentsOf(t) \in SUBSET Txs
  BY LedgerAssumption, FS_Interval DEF Txs, PaymentsOf
<1>2. QED
  BY <1>1, FS_Subset, FS_CardinalityType

LEMMA BackedStep ==
  ASSUME Inv, PaysKnown, PaymentsBacked, NEW r \in Reqs, Step(r)
  PROVE  PaymentsBacked'
<1> SUFFICES ASSUME "payment" \notin lapses', NEW t \in Txs, LiveInst(t)'
             PROVE  Cardinality(PaymentsOf(t)') <= inst'[t].paid
  BY DEF PaymentsBacked
<1>1. "payment" \notin lapses
  BY LapsesGrow
<1>2. inst[t].paid \in Nat /\ inst'[t].paid \in Nat
  BY InvStep DEF Inv, TypeInv, TypeOK, InstRows
<1>3. IsFiniteSet(PaymentsOf(t)) /\ Cardinality(PaymentsOf(t)) \in Nat
  BY PaymentsFinite
<1>4. CASE ~PayCommit(r)
  <2>1. PaymentsOf(t)' \in SUBSET PaymentsOf(t)
    BY <1>4, PaymentsOnlyPaid
  <2>2. IsFiniteSet(PaymentsOf(t)') /\ Cardinality(PaymentsOf(t)') <= Cardinality(PaymentsOf(t))
    BY <1>3, <2>1, FS_Subset
  <2>3. Cardinality(PaymentsOf(t)') \in Nat
    BY <2>2, FS_CardinalityType
  <2>4. CASE LiveInst(t)
    <3>1. inst'[t] = inst[t]
      BY <1>4, <2>4, InstKept
    <3>2. Cardinality(PaymentsOf(t)) <= inst[t].paid
      BY <1>1, <2>4 DEF PaymentsBacked
    <3>3. QED
      BY <1>2, <1>3, <2>2, <2>3, <3>1, <3>2
  <2>5. CASE ~LiveInst(t)
    <3>1. row[t].st = "free"
      BY <2>5, NeverFreed
    <3>2. t # 0
      BY DEF Txs
    <3>3. PaymentsOf(t) = {}
      BY <3>1, <3>2 DEF PaysKnown, PaymentsOf
    <3>4. Cardinality(PaymentsOf(t)') = 0
      BY <2>1, <3>3, FS_EmptySet
    <3>5. QED
      BY <1>2, <3>4
  <2>6. QED
    BY <2>4, <2>5
<1>5. CASE PayCommit(r)
  <2>1. PICK q, p : q = req[r] /\ p = q.tx /\ Advances(q, p)
    BY <1>5, PaymentAdvances
  <2>2. PICK u \in Txs : row' = [row EXCEPT ![u] = PaymentTx(q)]
    BY <1>5, <2>1 DEF PayCommit
  <2>3. row \in [Txs -> TxRows] /\ PaymentTx(q).pays = p
    BY <2>1 DEF Inv, TypeInv, TypeOK, PaymentTx
  <2>4. CASE t = p
    <3>1. PaymentsOf(t)' \in SUBSET (PaymentsOf(t) \cup {u})
      BY <2>2, <2>3 DEF PaymentsOf, LiveTx
    <3>2. /\ IsFiniteSet(PaymentsOf(t) \cup {u})
          /\ Cardinality(PaymentsOf(t) \cup {u}) <= Cardinality(PaymentsOf(t)) + 1
      BY <1>3, OneMore
    <3>3. /\ IsFiniteSet(PaymentsOf(t)')
          /\ Cardinality(PaymentsOf(t)') <= Cardinality(PaymentsOf(t) \cup {u})
      BY <3>1, <3>2, FS_Subset
    <3>4. Cardinality(PaymentsOf(t)') \in Nat /\ Cardinality(PaymentsOf(t) \cup {u}) \in Nat
      BY <3>2, <3>3, FS_CardinalityType
    <3>5. inst'[t].paid = inst[t].paid + 1 /\ LiveInst(t)
      BY <2>1, <2>4 DEF Advances, Advanced
    <3>6. Cardinality(PaymentsOf(t)) <= inst[t].paid
      BY <1>1, <3>5 DEF PaymentsBacked
    <3>7. QED
      BY <1>2, <1>3, <3>2, <3>3, <3>4, <3>5, <3>6
  <2>5. CASE t # p
    <3>1. PaymentsOf(t)' \in SUBSET PaymentsOf(t)
      BY <2>2, <2>3, <2>5 DEF PaymentsOf, LiveTx
    <3>2. IsFiniteSet(PaymentsOf(t)') /\ Cardinality(PaymentsOf(t)') <= Cardinality(PaymentsOf(t))
      BY <1>3, <3>1, FS_Subset
    <3>3. Cardinality(PaymentsOf(t)') \in Nat
      BY <3>2, FS_CardinalityType
    <3>4. inst'[t] = inst[t] /\ LiveInst(t)
      BY <2>1, <2>5 DEF Advances, LiveInst
    <3>5. Cardinality(PaymentsOf(t)) <= inst[t].paid
      BY <1>1, <3>4 DEF PaymentsBacked
    <3>6. QED
      BY <1>2, <1>3, <3>2, <3>3, <3>4, <3>5
  <2>6. QED
    BY <2>4, <2>5
<1>6. QED
  BY <1>4, <1>5

LEMMA BackedHolds == Spec => [](PaysKnown /\ PaymentsBacked)
<1>1. Init => PaysKnown /\ PaymentsBacked
  BY DEF Init, PaysKnown, PaymentsBacked, LiveTx, LiveInst, FreeTx, FreeInst
<1>2. Inv /\ (PaysKnown /\ PaymentsBacked) /\ [Next]_vars => (PaysKnown /\ PaymentsBacked)'
  <2> SUFFICES ASSUME Inv, PaysKnown, PaymentsBacked, [Next]_vars
               PROVE  PaysKnown' /\ PaymentsBacked'
    OBVIOUS
  <2>1. CASE Next
    BY <2>1, PaysStep, BackedStep DEF Next
  <2>2. CASE UNCHANGED vars
    BY <2>2 DEF vars, PaysKnown, PaymentsBacked, PaymentsOf, LiveTx, LiveInst
  <2>3. QED
    BY <2>1, <2>2
<1>3. QED
  BY <1>1, <1>2, Invariance, PTL DEF Spec

(* The payments of a bill follow its schedule to the unit, the rounding     *)
(* remainder in the last, and none is stored without a term paid, unless    *)
(* two payments worked from the same counters.                              *)
THEOREM PaymentsFollowSchedule == Spec => PaymentsMatchSchedule
<1>1. Inv /\ [Next]_vars =>
        [\A t \in Txs : "payment" \notin lapses' /\ Inserted(t) /\ row'[t].pays # 0
           => LET p == row'[t].pays
              IN row'[t].amount = Scheduled(inst'[p]) - Scheduled(inst[p])]_vars
  <2> SUFFICES ASSUME Inv, Next, NEW t \in Txs, "payment" \notin lapses', Inserted(t), row'[t].pays # 0
               PROVE  row'[t].amount = Scheduled(inst'[row'[t].pays]) - Scheduled(inst[row'[t].pays])
    OBVIOUS
  <2>1. PICK r \in Reqs : Step(r)
    BY DEF Next
  <2>2. PayCommit(r) /\ row'[t] = PaymentTx(req[r])
    <3>1. NewTx(req[r].in).pays = 0
      BY DEF NewTx
    <3>2. QED
      BY <2>1, <3>1, InsertedBy
  <2>3. PICK q, p : q = req[r] /\ p = q.tx /\ Advances(q, p)
    BY <2>2, PaymentAdvances
  <2>4. row'[t].pays = p /\ row'[t].amount = Payment(q)
    BY <2>2, <2>3 DEF PaymentTx
  <2>5. Scheduled(inst[p]) = Scheduled(q.inst)
    BY <2>3 DEF Advances, SameTerms, Scheduled
  <2>6. Payment(q) = Scheduled(Advanced(q.inst)) - Scheduled(q.inst)
    BY <2>3, ScheduleStep DEF Advances, Payment
  <2>7. QED
    BY <2>3, <2>4, <2>5, <2>6 DEF Advances
<1>2. QED
  BY <1>1, Invariance, BackedHolds, PTL DEF Spec, PaymentsMatchSchedule

(* A term is deducted twice only by two payments that worked from the same  *)
(* counters: whatever else is in flight, a payment that overwrites none     *)
(* finds its bill unsettled.                                                *)
THEOREM OnlyOverwritesDeductTwice ==
  Spec => [][\A t \in Txs : "payment" \notin lapses' /\ Inserted(t) /\ row'[t].pays # 0
               => inst[row'[t].pays].status = "ACTIVE"]_vars
<1>1. Inv /\ [Next]_vars =>
        [\A t \in Txs : "payment" \notin lapses' /\ Inserted(t) /\ row'[t].pays # 0
           => inst[row'[t].pays].status = "ACTIVE"]_vars
  <2> SUFFICES ASSUME Inv, Next, NEW t \in Txs, "payment" \notin lapses', Inserted(t), row'[t].pays # 0
               PROVE  inst[row'[t].pays].status = "ACTIVE"
    OBVIOUS
  <2>1. PICK r \in Reqs : Step(r)
    BY DEF Next
  <2>2. PayCommit(r) /\ row'[t] = PaymentTx(req[r])
    <3>1. NewTx(req[r].in).pays = 0
      BY DEF NewTx
    <3>2. QED
      BY <2>1, <3>1, InsertedBy
  <2>3. QED
    BY <2>2, PaymentAdvances DEF Advances, PaymentTx
<1>2. QED
  BY <1>1, Invariance, PTL DEF Spec

-----------------------------------------------------------------------------
(* Income.                                                                 *)

(* No wallet update names CREDIT_CARD, PAYLATER or LOAN as the new type.    *)
NoDebtPatches == \A p \in WalletPatches : p[1] \notin DebtKinds

(* Money may come in on wallet w, which may be gone by now. *)
Receives(w) == w \in Wallets /\ wallet[w].st # "free" /\ wallet[w].kind \notin DebtKinds

(* What the checks of a request that is about to commit have left behind. *)
Vetted(q) ==
  /\ q.op = "create" /\ q.pc = "checked" =>
       (q.in.type = "INCOME" => Receives(q.in.wallet)) /\ (q.in.months > 0 => q.in.type = "EXPENSE")
  /\ q.op = "update" /\ q.pc = "checked" /\ NewType(q) = "INCOME" => Receives(NewWallet(q))
  /\ q.op = "walletUpdate" => q.patch \in WalletPatches

IncomeVetted ==
  \A t \in Txs : "row" \notin lapses /\ LiveTx(t) /\ row[t].type = "INCOME" => Receives(row[t].wallet)

IncomeInv == IncomeVetted /\ \A r \in Reqs : Vetted(req[r])

LEMMA ReceivesStep ==
  ASSUME Inv, IncomeInv, NoDebtPatches, NEW r \in Reqs, Step(r), NEW w, Receives(w)
  PROVE  Receives(w)'
<1>1. wallet \in [Wallets -> WalletRows] /\ w \in Wallets
  BY DEF Inv, TypeInv, TypeOK, Receives
<1>2. CASE \E f : Apply(f)
  BY <1>1, <1>2, ApplyKeeps DEF Receives
<1>3. CASE WalletCreate(r)
  <2>1. PICK in \in WalletInputs, v \in Wallets :
          wallet[v].st = "free" /\ \E x : wallet' = [wallet EXCEPT ![v] = x]
    BY <1>3 DEF WalletCreate
  <2>2. QED
    BY <1>1, <2>1 DEF Receives
<1>4. CASE WalletUpdateCommit(r)
  <2>1. PICK q : q = req[r]
    OBVIOUS
  <2>2. q.patch[1] \notin DebtKinds
    BY <1>4, <2>1 DEF IncomeInv, Vetted, WalletUpdateCommit, At, NoDebtPatches
  <2>3. wallet' = [wallet EXCEPT ![q.wallet].kind = IF q.patch[1] # "absent" THEN q.patch[1]
                                                    ELSE wallet[q.wallet].kind,
                                 ![q.wallet].limit = IF q.patch[2] # 0 THEN q.patch[2]
                                                     ELSE wallet[q.wallet].limit]
    BY <1>4, <2>1 DEF WalletUpdateCommit
  <2>4. QED
    BY <1>1, <2>2, <2>3 DEF Receives, WalletRows
<1>5. CASE WalletDeleteCommit(r)
  BY <1>1, <1>5 DEF WalletDeleteCommit, Receives, GoneWallet, DebtKinds
<1>6. CASE UNCHANGED wallet
  BY <1>6 DEF Receives
<1>7. QED
  BY <1>2, <1>3, <1>4, <1>5, <1>6
     DEF Step, CreateCheck, CreateRegular, CreateInstallment, UpdateLoad, UpdateCheck, UpdateCommit,
         DeleteLoad, DeleteCommit, PayLoad, PayCheck, PayCommit, WalletUpdateLoad,
         WalletDeleteGate1, WalletDeleteGate2, Refuse, Rollback

(* A step moves its own request: to a new state, with its tables as they    *)
(* were read, or to the end.                                                *)
LEMMA OtherRequests ==
  ASSUME NEW r \in Reqs, Step(r)
  PROVE  \E q : req' = [req EXCEPT ![r] = q]
<1>1. CASE CreateCheck(r) \/ UpdateLoad(r) \/ DeleteLoad(r) \/ PayLoad(r) \/ WalletUpdateLoad(r)
           \/ WalletDeleteGate1(r)
  BY <1>1 DEF CreateCheck, UpdateLoad, DeleteLoad, PayLoad, WalletUpdateLoad, WalletDeleteGate1
<1>2. CASE UpdateCheck(r) \/ PayCheck(r) \/ WalletDeleteGate2(r)
  BY <1>2 DEF UpdateCheck, PayCheck, WalletDeleteGate2
<1>3. CASE Finish(r)
  BY <1>3 DEF Finish
<1>4. QED
  BY <1>1, <1>2, <1>3
     DEF Step, CreateRegular, CreateInstallment, UpdateCommit, DeleteCommit, PayCommit, WalletCreate,
         WalletUpdateCommit, WalletDeleteCommit, Refuse, Rollback

LEMMA VettedMoves ==
  ASSUME Inv, IncomeInv, NEW r \in Reqs, Step(r)
  PROVE  Vetted(req'[r])
<1>1. req[r] \in Requests /\ req \in [Reqs -> Requests]
  BY DEF Inv, TypeInv, TypeOK
<1>2. CASE CreateCheck(r)
  <2>1. PICK in \in CreateInputs :
          /\ CreateAllowed(in)
          /\ req' = [req EXCEPT ![r] = [NewRequest EXCEPT !.op = "create", !.pc = "checked", !.in = in]]
    BY <1>2 DEF CreateCheck
  <2>2. in.type = "INCOME" => Receives(in.wallet)
    BY <2>1 DEF CreateAllowed, Receives, LiveWallet
  <2>3. in.months \in Nat /\ (in.months > 0 => in.type = "EXPENSE")
    BY <2>1, LedgerAssumption DEF CreateAllowed, IsCreditExpense, Inputs
  <2>4. req'[r] = [NewRequest EXCEPT !.op = "create", !.pc = "checked", !.in = in]
    BY <1>1, <2>1
  <2>5. QED
    BY <2>2, <2>3, <2>4 DEF Vetted, NewRequest
<1>3. CASE UpdateLoad(r)
  BY <1>1, <1>3 DEF UpdateLoad, Vetted, NewRequest
<1>4. CASE DeleteLoad(r)
  BY <1>1, <1>4 DEF DeleteLoad, Vetted, NewRequest
<1>5. CASE PayLoad(r)
  BY <1>1, <1>5 DEF PayLoad, Vetted, NewRequest
<1>6. CASE WalletUpdateLoad(r)
  BY <1>1, <1>6 DEF WalletUpdateLoad, Vetted, NewRequest
<1>7. CASE WalletDeleteGate1(r)
  BY <1>1, <1>7 DEF WalletDeleteGate1, Vetted, NewRequest
<1>8. CASE UpdateCheck(r)
  <2>1. PICK q \in Requests : q = req[r]
    BY <1>1
  <2>2. /\ req'[r].op = "update" /\ req'[r].in = q.in /\ req'[r].row = q.row
    BY <1>1, <1>8, <2>1 DEF UpdateCheck, At, Requests
  <2>3. NewType(q) = "INCOME" => Receives(NewWallet(q))
    BY <1>8, <2>1 DEF UpdateCheck, UpdateAllowed, Receives, LiveWallet
  <2>4. NewType(req'[r]) = NewType(q) /\ NewWallet(req'[r]) = NewWallet(q)
    BY <2>2 DEF NewType, NewWallet
  <2>5. QED
    BY <2>2, <2>3, <2>4 DEF Vetted
<1>9. CASE PayCheck(r) \/ WalletDeleteGate2(r)
  <2>1. req'[r].op \in {"pay", "walletDelete"}
    BY <1>1, <1>9 DEF PayCheck, WalletDeleteGate2, At, Requests
  <2>2. QED
    BY <2>1 DEF Vetted
<1>10. CASE Finish(r)
  BY <1>1, <1>10 DEF Finish, Vetted, DoneRequest, NewRequest
<1>11. QED
  BY <1>2, <1>3, <1>4, <1>5, <1>6, <1>7, <1>8, <1>9, <1>10
     DEF Step, CreateRegular, CreateInstallment, UpdateCommit, DeleteCommit, PayCommit, WalletCreate,
         WalletUpdateCommit, WalletDeleteCommit, Refuse, Rollback

(* The rows of a step: inserted, updated, or with type and wallet as before.*)
LEMMA IncomeRows ==
  ASSUME Inv, IncomeInv, NEW r \in Reqs, Step(r), NEW t \in Txs, "row" \notin lapses',
         LiveTx(t)', row'[t].type = "INCOME"
  PROVE  Receives(row'[t].wallet)
<1>1. /\ row \in [Txs -> TxRows] /\ row[t] \in TxRows /\ row'[t].st = "live"
      /\ req[r] \in Requests /\ "row" \notin lapses
  BY LapsesGrow DEF Inv, TypeInv, TypeOK, LiveTx
<1>2. Vetted(req[r])
  BY DEF IncomeInv
<1>3. LiveTx(t) /\ row'[t].type = row[t].type /\ row'[t].wallet = row[t].wallet
        => Receives(row'[t].wallet)
  BY <1>1 DEF IncomeInv, IncomeVetted
<1>4. CASE row[t].st = "free"
  <2>1. \/ CreateRegular(r) /\ row'[t] = NewTx(req[r].in)
        \/ CreateInstallment(r) /\ row'[t].type = req[r].in.type
        \/ PayCommit(r) /\ row'[t] = PaymentTx(req[r])
    BY <1>1, <1>4, InsertedBy DEF Inserted
  <2>2. CASE CreateRegular(r) /\ row'[t] = NewTx(req[r].in)
    BY <1>2, <2>2 DEF NewTx, Vetted, CreateRegular, At
  <2>3. CASE CreateInstallment(r) /\ row'[t].type = req[r].in.type
    BY <1>2, <2>3 DEF Vetted, CreateInstallment, At
  <2>4. CASE PayCommit(r) /\ row'[t] = PaymentTx(req[r])
    BY <2>4 DEF PaymentTx
  <2>5. QED
    BY <2>1, <2>2, <2>3, <2>4
<1>5. CASE UpdateCommit(r)
  <2>1. PICK q \in Requests : q = req[r]
    BY <1>1
  <2>2. /\ At(r, "update", "checked") /\ UpdateCommits(q) /\ lapses' = lapses \cup RowLapse(q)
        /\ row' = [row EXCEPT ![q.tx] = UpdatedTx(q, row[q.tx])]
    BY <1>5, <2>1 DEF UpdateCommit
  <2>3. CASE t = q.tx
    <3>1. StoredEffect(t) = ReadEffect(q)
      BY <2>2, <2>3 DEF RowLapse
    <3>2. row[t].type = q.row.type /\ row[t].wallet = q.row.wallet
      BY <3>1 DEF StoredEffect, ReadEffect, InputFrom
    <3>3. row'[t] = UpdatedTx(q, row[t])
      BY <1>1, <2>2, <2>3
    <3>4. row'[t].type = NewType(q) /\ row'[t].wallet = NewWallet(q)
      BY <3>2, <3>3 DEF UpdatedTx, NewType, NewWallet
    <3>5. QED
      BY <1>2, <2>1, <2>2, <3>4 DEF Vetted, At
  <2>4. CASE t # q.tx
    BY <1>1, <1>3, <2>2, <2>4 DEF LiveTx
  <2>5. QED
    BY <2>3, <2>4
<1>6. CASE row[t].st # "free" /\ (CreateRegular(r) \/ CreateInstallment(r) \/ PayCommit(r))
  <2>1. PICK u, x : u \in Txs /\ IsNext(u) /\ row' = [row EXCEPT ![u] = x]
    BY <1>6 DEF CreateRegular, CreateInstallment, PayCommit
  <2>2. row'[t] = row[t]
    BY <1>1, <1>6, <2>1 DEF IsNext
  <2>3. QED
    BY <1>1, <1>3, <2>2 DEF LiveTx
<1>7. CASE DeleteCommit(r)
  <2>1. row'[t] = row[t]
    BY <1>1, <1>7 DEF DeleteCommit, GoneTx, FreeTx
  <2>2. QED
    BY <1>1, <1>3, <2>1 DEF LiveTx
<1>8. CASE WalletDeleteCommit(r)
  <2>1. row'[t].type = row[t].type /\ row'[t].wallet = row[t].wallet /\ LiveTx(t)
    BY <1>1, <1>8 DEF WalletDeleteCommit, LiveTx, GoneTx, FreeTx, TxRows
  <2>2. QED
    BY <1>3, <2>1
<1>9. CASE UNCHANGED row
  BY <1>1, <1>3, <1>9 DEF LiveTx
<1>10. QED
  BY <1>4, <1>5, <1>6, <1>7, <1>8, <1>9
     DEF Step, CreateCheck, UpdateLoad, UpdateCheck, DeleteLoad, PayLoad, PayCheck, WalletCreate,
         WalletUpdateLoad, WalletUpdateCommit, WalletDeleteGate1, WalletDeleteGate2, Refuse, Rollback

LEMMA IncomeStep ==
  ASSUME Inv, IncomeInv, NoDebtPatches, NEW r \in Reqs, Step(r)
  PROVE  IncomeInv'
<1>1. \A w : Receives(w) => Receives(w)'
  BY ReceivesStep
<1>2. ASSUME NEW q, Vetted(q)
      PROVE  Vetted(q)'
  BY <1>1, <1>2 DEF Vetted
<1>3. PICK p : req' = [req EXCEPT ![r] = p]
  BY OtherRequests
<1>4. req \in [Reqs -> Requests]
  BY DEF Inv, TypeInv, TypeOK
<1>5. ASSUME NEW s \in Reqs
      PROVE  Vetted(req'[s])
  BY <1>3, <1>4, VettedMoves DEF IncomeInv
<1>6. \A s \in Reqs : Vetted(req[s])'
  <2>1. PICK f : f = req'
    OBVIOUS
  <2>2. \A s \in Reqs : Vetted(f[s])
    BY <1>5, <2>1
  <2>3. QED
    BY <1>1, <2>1, <2>2 DEF Vetted
<1>7. IncomeVetted'
  BY <1>1, IncomeRows DEF IncomeVetted
<1>8. QED
  BY <1>6, <1>7 DEF IncomeInv

(* However creates and updates interleave, no income is on a card, paylater *)
(* or loan wallet -- if no wallet is turned into one after the income, which*)
(* updateWallet does not refuse, and until an update acts on a stale read.  *)
THEOREM IncomeNeverOnDebt == NoDebtPatches => (Spec => []NoIncomeOnDebt)
<1> SUFFICES ASSUME NoDebtPatches PROVE Spec => []NoIncomeOnDebt
  OBVIOUS
<1>1. Init => IncomeInv
  BY DEF Init, IncomeInv, IncomeVetted, LiveTx, FreeTx, Vetted, NewRequest
<1>2. Inv /\ IncomeInv /\ [Next]_vars => IncomeInv'
  <2> SUFFICES ASSUME Inv, IncomeInv, [Next]_vars PROVE IncomeInv'
    OBVIOUS
  <2>1. CASE Next
    BY <2>1, IncomeStep DEF Next
  <2>2. CASE UNCHANGED vars
    BY <2>2 DEF vars, IncomeInv, IncomeVetted, LiveTx, Vetted, Receives
  <2>3. QED
    BY <2>1, <2>2
<1>3. IncomeInv => NoIncomeOnDebt
  BY DEF IncomeInv, IncomeVetted, NoIncomeOnDebt, Receives
<1>4. QED
  BY <1>1, <1>2, <1>3, Invariance, PTL DEF Spec

-----------------------------------------------------------------------------
(* One request at a time.  What the request has read is then what is stored *)
(* and what its checks have established still holds, so no commit acts on a *)
(* stale read and every rule the checks are there for is kept.              *)
Fresh(q) ==
  /\ q.op = "create" => CreateAllowed(q.in)
  /\ q.op \in {"update", "delete"} => LiveTx(q.tx) /\ q.row = row[q.tx]
  /\ q.op = "update" => q.inst = FreeInst
  /\ q.op = "delete" => q.inst = inst[q.tx]
  /\ q.op = "pay" => q.inst = inst[q.tx] /\ inst[q.tx].status = "ACTIVE" /\ Payment(q) > 0
  /\ q.op = "pay" /\ q.pc = "checked" => PayAllowed(q)
  /\ q.op = "walletDelete" => ~OnTransfer(q.wallet)

Solo == \A r, s \in InFlight : r = s
AloneInv == Solo /\ lapses = {} /\ \A r \in InFlight : Fresh(req[r])

(* Nobody else is in flight when a request moves. *)
LEMMA MovesAlone ==
  ASSUME MaxInFlight = 1, Solo, NEW r \in Reqs, Step(r)
  PROVE  InFlight \subseteq {r}
<1>1. CASE r \in InFlight
  BY <1>1 DEF Solo
<1>2. CASE Cardinality(InFlight) < MaxInFlight
  <2>1. IsFiniteSet(InFlight)
    <3>1. CASE InFlight = {}
      BY <3>1, FS_EmptySet
    <3>2. CASE InFlight # {}
      <4>1. PICK s : InFlight = {s}
        BY <3>2 DEF Solo
      <4>2. QED
        BY <4>1, FS_Singleton
    <3>3. QED
      BY <3>1, <3>2
  <2>2. Cardinality(InFlight) = 0
    BY <1>2, <2>1, FS_CardinalityType
  <2>3. QED
    BY <2>1, <2>2, FS_EmptySet
<1>3. CreateCheck(r) \/ UpdateLoad(r) \/ DeleteLoad(r) \/ PayLoad(r) \/ WalletCreate(r)
      \/ WalletUpdateLoad(r) \/ WalletDeleteGate1(r) => Cardinality(InFlight) < MaxInFlight
  BY DEF CreateCheck, UpdateLoad, DeleteLoad, PayLoad, WalletCreate, WalletUpdateLoad,
         WalletDeleteGate1, CanStart
<1>4. CreateRegular(r) \/ CreateInstallment(r) \/ UpdateCheck(r) \/ UpdateCommit(r) \/ DeleteCommit(r)
      \/ PayCheck(r) \/ PayCommit(r) \/ WalletUpdateCommit(r) \/ WalletDeleteGate2(r)
      \/ WalletDeleteCommit(r) \/ Refuse(r) \/ Rollback(r) => r \in InFlight
  BY DEF CreateRegular, CreateInstallment, UpdateCheck, UpdateCommit, DeleteCommit, PayCheck, PayCommit,
         WalletUpdateCommit, WalletDeleteGate2, WalletDeleteCommit, Refuse, Rollback, Refused,
         RolledBack, At, InFlight
<1>5. QED
  BY <1>1, <1>2, <1>3, <1>4 DEF Step

(* A request that goes on has read what is stored, and leaves it alone. *)
LEMMA FreshMoves ==
  ASSUME Inv, NEW r \in Reqs, Step(r), r \in InFlight => Fresh(req[r]), req'[r].pc # "done"
  PROVE  Fresh(req'[r]) /\ UNCHANGED <<wallet, row, inst>>
<1>1. req[r] \in Requests /\ req \in [Reqs -> Requests]
  BY DEF Inv, TypeInv, TypeOK
<1>2. CASE CreateCheck(r)
  <2>1. PICK in \in CreateInputs :
          /\ CreateAllowed(in)
          /\ req' = [req EXCEPT ![r] = [NewRequest EXCEPT !.op = "create", !.pc = "checked", !.in = in]]
    BY <1>2 DEF CreateCheck
  <2>2. req'[r] = [NewRequest EXCEPT !.op = "create", !.pc = "checked", !.in = in]
    BY <1>1, <2>1
  <2>3. req'[r].op = "create" /\ req'[r].in = in
    BY <2>2 DEF NewRequest
  <2>4. QED
    BY <1>2, <2>1, <2>3 DEF Fresh, CreateCheck
<1>3. CASE UpdateLoad(r)
  BY <1>1, <1>3 DEF UpdateLoad, Fresh, NewRequest
<1>4. CASE DeleteLoad(r)
  BY <1>1, <1>4 DEF DeleteLoad, Fresh, NewRequest
<1>5. CASE PayLoad(r)
  <2>1. PICK t, w, q :
          /\ t \in Txs /\ w \in Wallets
          /\ q = [NewRequest EXCEPT !.op = "pay", !.pc = "loaded", !.tx = t, !.wallet = w, !.inst = inst[t]]
          /\ inst[t].status = "ACTIVE" /\ Payment(q) > 0
          /\ req' = [req EXCEPT ![r] = q]
    BY <1>5 DEF PayLoad
  <2>2. req'[r] = q
    BY <1>1, <2>1
  <2>3. q.op = "pay" /\ q.pc = "loaded" /\ q.tx = t /\ q.inst = inst[t]
    BY <2>1 DEF NewRequest
  <2>4. Fresh(q)
    BY <2>1, <2>3 DEF Fresh
  <2>5. UNCHANGED <<wallet, row, inst>>
    BY <1>5 DEF PayLoad
  <2>6. QED
    BY <2>2, <2>4, <2>5
<1>6. CASE WalletUpdateLoad(r)
  BY <1>1, <1>6 DEF WalletUpdateLoad, Fresh, NewRequest
<1>7. CASE WalletDeleteGate1(r)
  BY <1>1, <1>7 DEF WalletDeleteGate1, Fresh, NewRequest
<1>8. CASE UpdateCheck(r) \/ PayCheck(r) \/ WalletDeleteGate2(r)
  <2>1. PICK q \in Requests : q = req[r]
    BY <1>1
  <2>2. PICK p : p = req'[r]
    OBVIOUS
  <2>3. /\ p.op = q.op /\ p.in = q.in /\ p.row = q.row /\ p.inst = q.inst
        /\ p.tx = q.tx /\ p.wallet = q.wallet /\ p.pc = "checked"
    BY <1>1, <1>8, <2>1, <2>2 DEF UpdateCheck, PayCheck, WalletDeleteGate2, Requests
  <2>4. Fresh(q) /\ q.op \in {"update", "pay", "walletDelete"} /\ (q.op = "pay" => PayAllowed(q))
    BY <1>8, <2>1 DEF InFlight, UpdateCheck, PayCheck, WalletDeleteGate2, At
  <2>5. Payment(p) = Payment(q)
    BY <2>3 DEF Payment
  <2>6. q.op = "pay" => PayAllowed(p)
    BY <2>3, <2>4, <2>5 DEF PayAllowed
  <2>7. Fresh(p)
    BY <2>3, <2>4, <2>5, <2>6 DEF Fresh
  <2>8. QED
    BY <1>8, <2>2, <2>7 DEF UpdateCheck, PayCheck, WalletDeleteGate2
<1>9. CASE Finish(r)
  BY <1>1, <1>9 DEF Finish, DoneRequest, NewRequest
<1>10. QED
  BY <1>2, <1>3, <1>4, <1>5, <1>6, <1>7, <1>8, <1>9
     DEF Step, CreateRegular, CreateInstallment, UpdateCommit, DeleteCommit, PayCommit, WalletCreate,
         WalletUpdateCommit, WalletDeleteCommit, Refuse, Rollback

(* A row that is still stored as it was read has the effect it was read to  *)
(* have.                                                                    *)
LEMMA FreshEffect ==
  ASSUME Inv, NEW q, NEW t \in Txs, t = q.tx, q.row = row[t],
         q.inst = inst[t] \/ (q.inst = FreeInst /\ ~row[t].isInstallment)
  PROVE  StoredEffect(t) = ReadEffect(q)
<1>1. CASE q.inst = inst[t]
  BY <1>1 DEF StoredEffect, ReadEffect
<1>2. CASE q.inst = FreeInst /\ ~row[t].isInstallment
  <2>1. inst[t].st # "live" /\ FreeInst.st # "live"
    BY <1>2 DEF Inv, ModelA, LiveInst, FreeInst
  <2>2. QED
    BY <1>2, <2>1 DEF StoredEffect, ReadEffect, InputFrom
<1>3. QED
  BY <1>1, <1>2

LEMMA FreshNoLapse ==
  ASSUME Inv, lapses = {}, NEW r \in Reqs, Step(r), r \in InFlight => Fresh(req[r])
  PROVE  lapses' = {}
<1> PICK q \in Requests : q = req[r]
  BY DEF Inv, TypeInv, TypeOK
<1>1. CASE UpdateCommit(r)
  <2>1. /\ q.op = "update" /\ q.pc = "checked" /\ LiveTx(q.tx) /\ q.tx \in Txs
        /\ lapses' = lapses \cup RowLapse(q)
    BY <1>1 DEF UpdateCommit, UpdateCommits, At, Requests
  <2>2. Fresh(q) /\ Carried(q)
    BY <2>1 DEF InFlight, Inv, CarriedHolds
  <2>3. q.row = row[q.tx] /\ q.inst = FreeInst /\ ~row[q.tx].isInstallment
    BY <2>1, <2>2 DEF Fresh, Carried
  <2>4. QED
    BY <2>1, <2>3, FreshEffect DEF RowLapse
<1>2. CASE DeleteCommit(r)
  <2>1. q.op = "delete" /\ q.pc = "checked" /\ q.tx \in Txs /\ lapses' = lapses \cup RowLapse(q)
    BY <1>2 DEF DeleteCommit, At, Requests
  <2>2. q.row = row[q.tx] /\ q.inst = inst[q.tx]
    BY <2>1 DEF Fresh, InFlight
  <2>3. QED
    BY <2>1, <2>2, FreshEffect DEF RowLapse
<1>3. CASE PayCommit(r)
  BY <1>3 DEF PayCommit, At, InFlight, Fresh
<1>4. CASE WalletDeleteCommit(r)
  BY <1>4 DEF WalletDeleteCommit, At, InFlight, Fresh
<1>5. CASE UNCHANGED lapses
  BY <1>5
<1>6. QED
  BY <1>1, <1>2, <1>3, <1>4, <1>5
     DEF Step, CreateCheck, CreateRegular, CreateInstallment, UpdateLoad, UpdateCheck, DeleteLoad,
         PayLoad, PayCheck, WalletCreate, WalletUpdateLoad, WalletUpdateCommit, WalletDeleteGate1,
         WalletDeleteGate2, Refuse, Rollback

LEMMA AloneStep ==
  ASSUME MaxInFlight = 1, Inv, AloneInv, NEW r \in Reqs, Step(r)
  PROVE  AloneInv'
<1>1. InFlight \subseteq {r} /\ (r \in InFlight => Fresh(req[r]))
  BY MovesAlone DEF AloneInv
<1>2. PICK p : req' = [req EXCEPT ![r] = p]
  BY OtherRequests
<1>3. req \in [Reqs -> Requests]
  BY DEF Inv, TypeInv, TypeOK
<1>4. InFlight' \subseteq {r}
  BY <1>1, <1>2, <1>3 DEF InFlight
<1>5. ASSUME r \in InFlight'
      PROVE  Fresh(req[r])'
  <2>1. req'[r].pc # "done"
    BY <1>5 DEF InFlight
  <2>2. Fresh(req'[r]) /\ UNCHANGED <<wallet, row, inst>>
    BY <1>1, <2>1, FreshMoves
  <2>3. PICK q : q = req'[r]
    OBVIOUS
  <2>4. Fresh(q)'
    BY <2>2, <2>3 DEF Fresh, LiveTx, PayAllowed, LiveWallet, OnTransfer, CreateAllowed, TransferAllowed,
                      IsCreditExpense, RemainingCredit
  <2>5. QED
    BY <2>3, <2>4
<1>6. lapses' = {}
  BY <1>1, FreshNoLapse DEF AloneInv
<1>7. QED
  BY <1>4, <1>5, <1>6 DEF AloneInv, Solo

LEMMA AloneHolds == MaxInFlight = 1 => (Spec => []AloneInv)
<1> SUFFICES ASSUME MaxInFlight = 1 PROVE Spec => []AloneInv
  OBVIOUS
<1>1. Init => AloneInv
  BY DEF Init, AloneInv, Solo, InFlight, NewRequest
<1>2. Inv /\ AloneInv /\ [Next]_vars => AloneInv'
  <2> SUFFICES ASSUME Inv, AloneInv, [Next]_vars PROVE AloneInv'
    OBVIOUS
  <2>1. CASE Next
    BY <2>1, AloneStep DEF Next
  <2>2. CASE UNCHANGED vars
    BY <2>2 DEF vars, AloneInv, Solo, InFlight, Fresh, LiveTx, PayAllowed, LiveWallet, OnTransfer,
                CreateAllowed, TransferAllowed, IsCreditExpense, RemainingCredit
  <2>3. QED
    BY <2>1, <2>2
<1>3. QED
  BY <1>1, <1>2, Invariance, PTL DEF Spec

(* One request at a time, no money is ever lost or made up: every balance   *)
(* is what the audit expects.                                               *)
THEOREM ConsistentAlone == MaxInFlight = 1 => (Spec => []LedgerConsistent)
<1>1. AloneInv /\ DriftOnlyFromLapse => LedgerConsistent
  BY DEF AloneInv, DriftOnlyFromLapse
<1>2. QED
  BY <1>1, AloneHolds, OnlyLapsesDrift, PTL

-----------------------------------------------------------------------------
(* The rules for inserting a row and for deleting a wallet.                 *)

(* What is bought costs something. *)
LEMMA PlanPositive ==
  ASSUME NEW in \in Inputs, in.amount > 0
  PROVE  PlanTotal(in) \in Nat /\ PlanTotal(in) > 0
<1>1. in.amount \in Nat /\ in.rate \in Nat /\ in.months \in Nat
  BY DEF Inputs
<1>2. (in.amount * in.rate) * in.months \in Nat
  BY <1>1, ProductType
<1>3. TotalInterest(in.amount, in.rate, in.months) \in Nat
  BY <1>2, RoundedQuotientType DEF TotalInterest
<1>4. QED
  BY <1>1, <1>3 DEF PlanTotal, GrandTotal

(* An asset that holds the amount is not overdrawn by a transfer from it.   *)
LEMMA StaysFunded ==
  ASSUME Inv, NEW x \in TxRows, NEW i \in InstRows, Apply(Deltas(InputFrom(x, i))),
         ~x.isInstallment, x.type = "TRANSFER", LiveWallet(x.wallet),
         x.amount >= 0, wallet[x.wallet].balance >= x.amount
  PROVE  wallet'[x.wallet].balance >= 0
<1>1. wallet \in [Wallets -> WalletRows] /\ x.amount \in Int
  BY DEF Inv, TypeInv, TypeOK, TxRows
<1>2. PICK w \in Wallets : w = x.wallet
  BY DEF TxRows
<1>3. wallet'[w].balance = wallet[w].balance + Deltas(InputFrom(x, i))[w]
  BY <1>1, <1>2, DeltasType, ApplyType
<1>4. Deltas(InputFrom(x, i))[w] = -x.amount \/ Deltas(InputFrom(x, i))[w] = -x.amount + x.amount
  BY <1>1, <1>2 DEF Deltas, EffectOn, SourceDelta, HasDestination, InputFrom
<1>5. wallet[w].balance \in Int
  BY <1>1 DEF WalletRows
<1>6. QED
  BY <1>1, <1>2, <1>3, <1>4, <1>5

LEMMA InsertFunded ==
  ASSUME Inv, Inv', AloneInv, NEW r \in Reqs, Step(r), NEW t \in Txs, Inserted(t),
         row'[t].type = "TRANSFER"
  PROVE  wallet'[row'[t].wallet].balance >= 0
<1> PICK q \in Requests : q = req[r]
  BY DEF Inv, TypeInv, TypeOK
<1>1. \/ CreateRegular(r) /\ row'[t] = NewTx(q.in)
      \/ CreateInstallment(r) /\ row'[t].type = q.in.type
      \/ PayCommit(r) /\ row'[t] = PaymentTx(q)
  BY InsertedBy
<1>2. row'[t] \in TxRows
  BY DEF Inv, TypeInv, TypeOK
<1>3. CASE CreateRegular(r) /\ row'[t] = NewTx(q.in)
  <2>1. Fresh(q) /\ q.op = "create"
    BY <1>3 DEF AloneInv, InFlight, CreateRegular, At
  <2>2. q.in.type = "TRANSFER" /\ q.in.amount \in Nat
    BY <1>3 DEF NewTx, Requests, Inputs
  <2>3. LiveWallet(q.in.wallet) /\ wallet[q.in.wallet].balance >= q.in.amount
    BY <2>1, <2>2 DEF Fresh, CreateAllowed, TransferAllowed
  <2>4. Apply(Deltas(InputFrom(NewTx(q.in), FreeInst))) /\ FreeInst \in InstRows
    BY <1>3, Blank DEF CreateRegular
  <2>5. PICK x \in TxRows : x = NewTx(q.in)
    BY <1>2, <1>3
  <2>6. /\ ~x.isInstallment /\ x.type = "TRANSFER" /\ x.wallet = q.in.wallet /\ x.amount = q.in.amount
    BY <2>2, <2>5 DEF NewTx
  <2>7. QED
    BY <1>3, <2>2, <2>3, <2>4, <2>5, <2>6, StaysFunded
<1>4. CASE CreateInstallment(r) /\ row'[t].type = q.in.type
  <2>1. Fresh(q) /\ q.op = "create" /\ q.in.months > 0
    BY <1>4 DEF AloneInv, InFlight, CreateInstallment, At
  <2>2. q.in.type = "EXPENSE"
    BY <2>1 DEF Fresh, CreateAllowed, IsCreditExpense
  <2>3. QED
    BY <1>4, <2>2
<1>5. CASE PayCommit(r) /\ row'[t] = PaymentTx(q)
  <2>1. Fresh(q) /\ q.op = "pay" /\ q.pc = "checked"
    BY <1>5 DEF AloneInv, InFlight, PayCommit, At
  <2>2. PayAllowed(q) /\ Payment(q) > 0 /\ Payment(q) \in Int
    BY <2>1, PaymentType DEF Fresh
  <2>3. Apply(Deltas(InputFrom(PaymentTx(q), FreeInst))) /\ FreeInst \in InstRows
    BY <1>5, Blank DEF PayCommit
  <2>4. PICK x \in TxRows : x = PaymentTx(q)
    BY <1>2, <1>5
  <2>5. ~x.isInstallment /\ x.type = "TRANSFER" /\ x.wallet = q.wallet /\ x.amount = Payment(q)
    BY <2>4 DEF PaymentTx
  <2>6. QED
    BY <1>5, <2>2, <2>3, <2>4, <2>5, StaysFunded DEF PayAllowed
<1>6. QED
  BY <1>1, <1>3, <1>4, <1>5

(* One request at a time, no new transfer and no bill payment overdraws the *)
(* wallet it takes the money from.                                          *)
THEOREM FundedAlone == MaxInFlight = 1 => (Spec => TransferFunded)
<1>1. Inv /\ Inv' /\ AloneInv /\ [Next]_vars =>
        [\A t \in Txs : Inserted(t) /\ row'[t].type = "TRANSFER"
           => wallet'[row'[t].wallet].balance >= 0]_vars
  BY InsertFunded DEF Next
<1>2. QED
  BY <1>1, Invariance, AloneHolds, PTL DEF Spec, TransferFunded

LEMMA PurchaseFits ==
  ASSUME Inv, Inv', AloneInv, NEW r \in Reqs, Step(r), NEW t \in Txs, ~LiveInst(t), LiveInst(t)'
  PROVE  -(wallet'[inst'[t].wallet].balance) <= wallet'[inst'[t].wallet].limit
<1> PICK q \in Requests : q = req[r]
  BY DEF Inv, TypeInv, TypeOK
<1>1. /\ inst \in [Txs -> InstRows] /\ wallet \in [Wallets -> WalletRows] /\ q.in \in Inputs
      /\ inst[t].st # "live" /\ inst'[t].st = "live"
  BY DEF Inv, TypeInv, TypeOK, Requests, LiveInst
<1>2. CreateInstallment(r)
  <2>1. CASE DeleteCommit(r)
    BY <1>1, <2>1 DEF DeleteCommit, GoneInst, FreeInst
  <2>2. CASE PayCommit(r)
    BY <1>1, <2>2 DEF PayCommit, PayCommits, LiveInst
  <2>3. CASE WalletDeleteCommit(r)
    BY <1>1, <2>3 DEF WalletDeleteCommit, GoneInst, FreeInst
  <2>4. CASE UNCHANGED inst
    BY <1>1, <2>4
  <2>5. QED
    BY <2>1, <2>2, <2>3, <2>4
       DEF Step, CreateCheck, CreateRegular, UpdateLoad, UpdateCheck, UpdateCommit, DeleteLoad, PayLoad,
           PayCheck, WalletCreate, WalletUpdateLoad, WalletUpdateCommit, WalletDeleteGate1,
           WalletDeleteGate2, Refuse, Rollback
<1>3. inst'[t] = NewInst(q.in) /\ Apply(Debt(NewInst(q.in))) /\ q.in.months > 0
  BY <1>1, <1>2 DEF CreateInstallment
<1>4. CreateAllowed(q.in)
  BY <1>2 DEF AloneInv, InFlight, CreateInstallment, At, Fresh
<1>5. PICK w \in Wallets : w = q.in.wallet /\ LiveWallet(w)
  BY <1>4 DEF CreateAllowed, LiveWallet
<1>6. PICK n : n = PlanTotal(q.in)
  OBVIOUS
<1>7. n \in Nat /\ n > 0 /\ n <= RemainingCredit(w)
  BY <1>1, <1>3, <1>4, <1>5, <1>6, PlanPositive DEF CreateAllowed
<1>8. inst'[t].wallet = w /\ NewInst(q.in) \in InstRows /\ Debt(NewInst(q.in))[w] = -n
  BY <1>1, <1>3, <1>5, <1>6, NewInstType DEF NewInst, Debt
<1>9. wallet'[w].balance = wallet[w].balance - n /\ wallet'[w].limit = wallet[w].limit
  <2>1. Debt(NewInst(q.in)) \in [Wallets -> Int]
    BY <1>8, DebtType
  <2>2. wallet'[w].balance = wallet[w].balance + Debt(NewInst(q.in))[w]
    BY <1>1, <1>3, <1>5, <2>1, ApplyType
  <2>3. wallet[w].balance \in Int
    BY <1>1 DEF WalletRows
  <2>4. wallet'[w].limit = wallet[w].limit
    BY <1>1, <1>3, ApplyKeeps
  <2>5. QED
    BY <1>7, <1>8, <2>2, <2>3, <2>4
<1>10. wallet[w].balance \in Int /\ wallet[w].limit \in Int
  BY <1>1 DEF WalletRows
<1>11. QED
  BY <1>7, <1>8, <1>9, <1>10 DEF RemainingCredit, Max0

(* One request at a time, no purchase takes a card over its limit.          *)
THEOREM WithinLimitAlone == MaxInFlight = 1 => (Spec => PurchaseWithinLimit)
<1>1. Inv /\ Inv' /\ AloneInv /\ [Next]_vars =>
        [\A t \in Txs : LiveInst(t)' /\ ~LiveInst(t)
           => -(wallet'[inst'[t].wallet].balance) <= wallet'[inst'[t].wallet].limit]_vars
  BY PurchaseFits DEF Next
<1>2. QED
  BY <1>1, Invariance, AloneHolds, PTL DEF Spec, PurchaseWithinLimit

LEMMA DeletionBlocked ==
  ASSUME Inv, AloneInv, NEW r \in Reqs, Step(r), NEW w \in Wallets, LiveWallet(w), ~LiveWallet(w)'
  PROVE  ~OnTransfer(w)
<1>1. wallet \in [Wallets -> WalletRows] /\ wallet[w].st = "live" /\ wallet'[w].st # "live"
  BY DEF Inv, TypeInv, TypeOK, LiveWallet
<1>2. CASE \E f : Apply(f)
  BY <1>1, <1>2, ApplyKeeps
<1>3. CASE WalletCreate(r)
  <2>1. PICK v, x : v \in Wallets /\ wallet[v].st = "free" /\ wallet' = [wallet EXCEPT ![v] = x]
    BY <1>3 DEF WalletCreate
  <2>2. QED
    BY <1>1, <2>1
<1>4. CASE WalletUpdateCommit(r)
  BY <1>1, <1>4 DEF WalletUpdateCommit, WalletRows
<1>5. CASE WalletDeleteCommit(r)
  <2>1. w = req[r].wallet
    BY <1>1, <1>5 DEF WalletDeleteCommit
  <2>2. QED
    BY <1>5, <2>1 DEF AloneInv, InFlight, WalletDeleteCommit, At, Fresh
<1>6. CASE UNCHANGED wallet
  BY <1>1, <1>6
<1>7. QED
  BY <1>2, <1>3, <1>4, <1>5, <1>6
     DEF Step, CreateCheck, CreateRegular, CreateInstallment, UpdateLoad, UpdateCheck, UpdateCommit,
         DeleteLoad, DeleteCommit, PayLoad, PayCheck, PayCommit, WalletUpdateLoad,
         WalletDeleteGate1, WalletDeleteGate2, Refuse, Rollback

(* One request at a time, no wallet on either side of a stored transfer is  *)
(* ever deleted.                                                            *)
THEOREM DeletionBlockedAlone == MaxInFlight = 1 => (Spec => TransfersBlockDeletion)
<1>1. Inv /\ AloneInv /\ [Next]_vars =>
        [\A w \in Wallets : LiveWallet(w) /\ ~LiveWallet(w)' => ~OnTransfer(w)]_vars
  BY DeletionBlocked DEF Next
<1>2. QED
  BY <1>1, Invariance, AloneHolds, PTL DEF Spec, TransfersBlockDeletion

(* One request at a time, no settled bill is ever paid again: the double    *)
(* deduction that two payments at once can cause has no other cause.        *)
THEOREM NoDoubleDeductionAlone == MaxInFlight = 1 => (Spec => NoDoubleDeduction)
<1>1. Inv /\ AloneInv /\ [Next]_vars =>
        [\A t \in Txs : Inserted(t) /\ row'[t].pays # 0
           => inst[row'[t].pays].status = "ACTIVE"]_vars
  <2> SUFFICES ASSUME Inv, AloneInv, Next, NEW t \in Txs, Inserted(t), row'[t].pays # 0
               PROVE  inst[row'[t].pays].status = "ACTIVE"
    OBVIOUS
  <2>1. PICK r \in Reqs : Step(r)
    BY DEF Next
  <2>2. PayCommit(r) /\ row'[t] = PaymentTx(req[r])
    <3>1. NewTx(req[r].in).pays = 0
      BY DEF NewTx
    <3>2. QED
      BY <2>1, <3>1, InsertedBy
  <2>3. row'[t].pays = req[r].tx
    BY <2>2 DEF PaymentTx
  <2>4. QED
    BY <2>2, <2>3 DEF AloneInv, InFlight, PayCommit, At, Fresh
<1>2. QED
  BY <1>1, Invariance, AloneHolds, PTL DEF Spec, NoDoubleDeduction
=============================================================================
