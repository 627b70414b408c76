---------------------------- MODULE LedgerProofs ----------------------------
(***************************************************************************)
(* What holds of the ledger for any number of wallets, rows and requests,  *)
(* any request bodies and any opening balances.                            *)
(***************************************************************************)
EXTENDS Ledger, TLAPS

-----------------------------------------------------------------------------
(* The arithmetic of a bill stays within the integers. *)
LEMMA RoundedQuotientType ==
  ASSUME NEW n \in Nat, NEW d \in Nat, d > 0
  PROVE  RoundedQuotient(n, d) \in Nat
BY DEF RoundedQuotient

LEMMA ProductType ==
  ASSUME NEW a \in Nat, NEW b \in Nat
  PROVE  a * b \in Nat
OBVIOUS

LEMMA PlanType ==
  ASSUME NEW in \in Inputs
  PROVE  /\ PlanTotal(in) \in Nat
         /\ in.months > 0 => MonthlyAmount(PlanTotal(in), in.months) \in Nat
<1>1. in.amount \in Nat /\ in.rate \in Nat /\ in.months \in Nat
  BY DEF Inputs
<1>2. (in.amount * in.rate) * in.months \in Nat
  BY <1>1, ProductType
<1>3. TotalInterest(in.amount, in.rate, in.months) \in Nat
  BY <1>2, RoundedQuotientType DEF TotalInterest
<1>4. PlanTotal(in) \in Nat
  BY <1>1, <1>3 DEF PlanTotal, GrandTotal
<1>5. QED
  BY <1>1, <1>4, RoundedQuotientType DEF MonthlyAmount

LEMMA EffectType ==
  ASSUME NEW x \in TxRows, NEW i \in InstRows, NEW w
  PROVE  EffectOn(InputFrom(x, i), w) \in Int /\ ReverseOn(InputFrom(x, i), w) \in Int
BY DEF EffectOn, ReverseOn, SourceDelta, HasDestination, InputFrom, TxRows, InstRows

LEMMA PaymentType ==
  ASSUME NEW q \in Requests
  PROVE  Payment(q) \in Int
<1>1. /\ q.inst.grandTotal \in Int /\ q.inst.monthly \in Int
      /\ q.inst.months \in Int /\ q.inst.paid \in Int
  BY DEF Requests, InstRows
<1>2. q.inst.monthly * (q.inst.months - 1) \in Int
  BY <1>1
<1>3. QED
  BY <1>1, <1>2 DEF Payment, ExpectedAmount, FinalMonthlyAmount

LEMMA ApplyType ==
  ASSUME wallet \in [Wallets -> WalletRows], NEW f \in [Wallets -> Int], Apply(f)
  PROVE  /\ wallet' \in [Wallets -> WalletRows]
         /\ \A w \in Wallets : LiveWallet(w)' <=> LiveWallet(w)
         /\ \A w \in Wallets : LiveWallet(w) => wallet'[w].balance = wallet[w].balance + f[w]
BY DEF Apply, LiveWallet, WalletRows

LEMMA Blank ==
  /\ NewRequest \in Requests /\ DoneRequest \in Requests
  /\ FreeTx \in TxRows /\ GoneTx \in TxRows
  /\ FreeInst \in InstRows /\ GoneInst \in InstRows /\ GoneWallet \in WalletRows
<1>1. AnyWallet \in Wallets
  BY LedgerAssumption DEF AnyWallet
<1>2. FreeTx \in TxRows
  BY <1>1 DEF FreeTx, TxRows, RowStates, TxTypes
<1>2a. GoneTx \in TxRows
  BY <1>2 DEF GoneTx, TxRows, RowStates
<1>3. FreeInst \in InstRows /\ GoneInst \in InstRows
  BY <1>1 DEF FreeInst, GoneInst, InstRows, RowStates
<1>4. GoneWallet \in WalletRows
  BY DEF GoneWallet, WalletRows, RowStates, WalletKinds
<1>5. NoInput \in Inputs /\ <<"absent", 0>> \in Patches /\ 1 \in Txs
  BY LedgerAssumption DEF NoInput, Inputs, Patches, Txs
<1>6. NewRequest \in Requests /\ DoneRequest \in Requests
  BY <1>1, <1>2, <1>3, <1>5 DEF NewRequest, DoneRequest, Requests
<1>7. QED
  BY <1>2, <1>2a, <1>3, <1>4, <1>6

-----------------------------------------------------------------------------
(* Type correctness.  A create that reached its commit has a real type.     *)
CreateBodies == \A r \in Reqs : At(r, "create", "checked") => req[r].in.type # "absent"

TypeInv == TypeOK /\ CreateBodies

LEMMA TypeInit == Init => TypeInv
<1> SUFFICES ASSUME Init PROVE TypeInv
  OBVIOUS
<1>1. row \in [Txs -> TxRows] /\ inst \in [Txs -> InstRows] /\ req \in [Reqs -> Requests]
  BY Blank DEF Init
<1>2. wallet \in [Wallets -> WalletRows] /\ lapses \subseteq LapseKinds
  BY LedgerAssumption DEF Init
<1>3. CreateBodies
  BY DEF Init, CreateBodies, At, NewRequest
<1>4. QED
  BY <1>1, <1>2, <1>3 DEF TypeInv, TypeOK

(* A request that is finished, or moves on, keeps the table of requests     *)
(* well typed.                                                              *)
LEMMA ReqStep ==
  ASSUME TypeInv, NEW r \in Reqs, NEW q \in Requests, req' = [req EXCEPT ![r] = q],
         q.op = "create" => q.in.type # "absent"
  PROVE  req' \in [Reqs -> Requests] /\ CreateBodies'
BY DEF TypeInv, TypeOK, CreateBodies, At

LEMMA FinishType ==
  ASSUME TypeInv, NEW r \in Reqs, Finish(r)
  PROVE  req' \in [Reqs -> Requests] /\ CreateBodies'
BY ReqStep, Blank DEF Finish, DoneRequest, NewRequest

LEMMA AdvanceType ==
  ASSUME TypeInv, NEW r \in Reqs, req[r].op # "create" \/ req[r].pc = "checked",
         req' = [req EXCEPT ![r].pc = "checked"]
  PROVE  req' \in [Reqs -> Requests] /\ CreateBodies'
<1>1. req[r] \in Requests
  BY DEF TypeInv, TypeOK
<1>2. [req[r] EXCEPT !.pc = "checked"] \in Requests
  BY <1>1 DEF Requests
<1>3. req' \in [Reqs -> Requests]
  BY <1>2 DEF TypeInv, TypeOK
<1>4. CreateBodies'
  BY <1>1 DEF TypeInv, TypeOK, CreateBodies, At, Requests
<1>5. QED
  BY <1>3, <1>4

LEMMA NewTxType ==
  ASSUME NEW in \in Inputs, in.type # "absent", in.wallet \in Wallets
  PROVE  NewTx(in) \in TxRows
BY DEF NewTx, TxRows, Inputs, RowStates, TxTypes

LEMMA NewInstType ==
  ASSUME NEW in \in Inputs, in.months > 0, in.wallet \in Wallets
  PROVE  NewInst(in) \in InstRows
<1>1. PlanTotal(in) \in Nat /\ MonthlyAmount(PlanTotal(in), in.months) \in Nat
  BY PlanType
<1>2. in.months \in Nat
  BY DEF Inputs
<1>3. QED
  BY <1>1, <1>2 DEF NewInst, InstRows, RowStates

LEMMA UpdatedTxType ==
  ASSUME NEW q \in Requests, NEW x \in TxRows
  PROVE  UpdatedTx(q, x) \in TxRows
<1>1. q.in \in Inputs /\ q.row \in TxRows
  BY DEF Requests
<1>2. NewTo(q) \in Wallets \cup {NoWallet}
  BY <1>1 DEF NewTo, Inputs, TxRows
<1>3. QED
  BY <1>1, <1>2 DEF UpdatedTx, Inputs, TxRows, TxTypes

LEMMA PaymentTxType ==
  ASSUME NEW q \in Requests
  PROVE  PaymentTx(q) \in TxRows
<1>1. Payment(q) \in Int /\ q.wallet \in Wallets /\ q.inst.wallet \in Wallets /\ q.tx \in Txs
  BY PaymentType DEF Requests, InstRows
<1>2. QED
  BY <1>1 DEF PaymentTx, TxRows, RowStates, TxTypes

LEMMA AdvancedType ==
  ASSUME NEW i \in InstRows
  PROVE  Advanced(i) \in InstRows
BY DEF Advanced, InstRows


-----------------------------------------------------------------------------
(* The deltas a commit applies are integers.                                *)
LEMMA DeltasType ==
  ASSUME NEW x \in TxRows, NEW i \in InstRows
  PROVE  /\ Deltas(InputFrom(x, i)) \in [Wallets -> Int]
         /\ Reversal(InputFrom(x, i)) \in [Wallets -> Int]
BY EffectType DEF Deltas, Reversal

LEMMA DebtType ==
  ASSUME NEW i \in InstRows
  PROVE  Debt(i) \in [Wallets -> Int]
BY DEF Debt, InstRows

LEMMA NewEffectType ==
  ASSUME NEW q \in Requests, NEW w
  PROVE  EffectOn(NewEffect(q), w) \in Int
<1>1. q.in \in Inputs /\ q.row \in TxRows
  BY DEF Requests
<1>2. NewAmount(q) \in Int
  BY <1>1 DEF NewAmount, Inputs, TxRows
<1>3. QED
  BY <1>2 DEF EffectOn, SourceDelta, HasDestination, NewEffect

LEMMA UpdateDeltasType ==
  ASSUME NEW q \in Requests
  PROVE  [w \in Wallets |-> ReverseOn(ReadEffect(q), w) + EffectOn(NewEffect(q), w)] \in [Wallets -> Int]
<1>1. q.row \in TxRows /\ q.inst \in InstRows
  BY DEF Requests
<1>2. \A w \in Wallets : ReverseOn(ReadEffect(q), w) \in Int /\ EffectOn(NewEffect(q), w) \in Int
  BY <1>1, EffectType, NewEffectType DEF ReadEffect
<1>3. QED
  BY <1>2

(* Every step keeps the types: one case per action.                         *)
LEMMA TypeStep ==
  ASSUME TypeInv, NEW r \in Reqs, Step(r)
  PROVE  TypeInv'
<1>1. /\ wallet \in [Wallets -> WalletRows] /\ row \in [Txs -> TxRows]
      /\ inst \in [Txs -> InstRows] /\ req \in [Reqs -> Requests] /\ lapses \subseteq LapseKinds
      /\ req[r] \in Requests /\ req[r].in \in Inputs /\ req[r].row \in TxRows
      /\ req[r].inst \in InstRows /\ req[r].tx \in Txs /\ req[r].wallet \in Wallets
      /\ req[r].patch \in Patches
  BY DEF TypeInv, TypeOK, Requests
<1> DEFINE Reading == UNCHANGED <<wallet, row, inst, lapses>>
<1>2. ASSUME Reading, req' \in [Reqs -> Requests] /\ CreateBodies' PROVE TypeInv'
  BY <1>1, <1>2 DEF TypeInv, TypeOK
<1>3. CASE CreateCheck(r)
  <2>1. PICK in \in CreateInputs :
          /\ CreateAllowed(in)
          /\ req' = [req EXCEPT ![r] = [NewRequest EXCEPT !.op = "create", !.pc = "checked", !.in = in]]
    BY <1>3 DEF CreateCheck
  <2>2. [NewRequest EXCEPT !.op = "create", !.pc = "checked", !.in = in] \in Requests
    BY Blank, LedgerAssumption DEF Requests, Endpoints
  <2>3. in.type # "absent"
    BY <2>1 DEF CreateAllowed
  <2> DEFINE q == [NewRequest EXCEPT !.op = "create", !.pc = "checked", !.in = in]
  <2>4. q.in = in
    BY DEF NewRequest
  <2>5. req' \in [Reqs -> Requests] /\ CreateBodies'
    BY <2>1, <2>2, <2>3, <2>4, ReqStep
  <2>6. QED
    BY <1>2, <1>3, <2>5 DEF CreateCheck
<1>4. CASE CreateRegular(r)
  <2>1. req[r].in.type # "absent" /\ req[r].in.wallet \in Wallets
    BY <1>4 DEF TypeInv, CreateBodies, CreateRegular, CreateCommits, LiveWallet
  <2>2. NewTx(req[r].in) \in TxRows
    BY <1>1, <2>1, NewTxType
  <2>3. wallet' \in [Wallets -> WalletRows]
    BY <1>1, <1>4, <2>2, Blank, DeltasType, ApplyType DEF CreateRegular
  <2>4. row' \in [Txs -> TxRows]
    BY <1>1, <1>4, <2>2 DEF CreateRegular
  <2>5. req' \in [Reqs -> Requests] /\ CreateBodies'
    BY <1>4, FinishType DEF CreateRegular
  <2>6. QED
    BY <1>1, <1>4, <2>3, <2>4, <2>5 DEF CreateRegular, TypeInv, TypeOK
<1>5. CASE CreateInstallment(r)
  <2> DEFINE i == NewInst(req[r].in)
             x == [NewTx(req[r].in) EXCEPT !.amount = i.monthly, !.isInstallment = TRUE]
  <2>1. req[r].in.type # "absent" /\ req[r].in.wallet \in Wallets /\ req[r].in.months > 0
    BY <1>5 DEF TypeInv, CreateBodies, CreateInstallment, CreateCommits, LiveWallet
  <2>2. NewTx(req[r].in) \in TxRows /\ i \in InstRows
    BY <1>1, <2>1, NewTxType, NewInstType
  <2>3. x \in TxRows
    BY <2>2 DEF TxRows, InstRows
  <2>4. PICK t \in Txs : row' = [row EXCEPT ![t] = x] /\ inst' = [inst EXCEPT ![t] = i]
    BY <1>5 DEF CreateInstallment
  <2>5. Apply(Debt(i)) /\ Finish(r) /\ UNCHANGED lapses
    BY <1>5 DEF CreateInstallment
  <2> HIDE DEF x, i
  <2>6. wallet' \in [Wallets -> WalletRows]
    BY <1>1, <2>2, <2>5, DebtType, ApplyType
  <2>7. row' \in [Txs -> TxRows] /\ inst' \in [Txs -> InstRows]
    BY <1>1, <2>2, <2>3, <2>4
  <2>8. QED
    BY <1>1, <2>5, <2>6, <2>7, FinishType DEF TypeInv, TypeOK
<1>6. CASE UpdateLoad(r)
  <2>1. PICK in \in UpdateInputs, t \in Txs :
          req' = [req EXCEPT ![r] = [NewRequest EXCEPT !.op = "update", !.pc = "loaded",
                                                       !.tx = t, !.in = in, !.row = row[t]]]
    BY <1>6 DEF UpdateLoad
  <2> DEFINE q == [NewRequest EXCEPT !.op = "update", !.pc = "loaded", !.tx = t, !.in = in, !.row = row[t]]
  <2>2. q \in Requests
    BY <1>1, Blank, LedgerAssumption DEF Requests, Endpoints
  <2>3. q.op # "create"
    BY DEF NewRequest
  <2>4. QED
    BY <1>2, <1>6, <2>1, <2>2, <2>3, ReqStep DEF UpdateLoad
<1>7. CASE UpdateCheck(r)
  BY <1>2, <1>7, AdvanceType DEF UpdateCheck, At
<1>8. CASE UpdateCommit(r)
  <2>1. /\ row' = [row EXCEPT ![req[r].tx] = UpdatedTx(req[r], row[req[r].tx])]
        /\ Finish(r) /\ inst' = inst
        /\ lapses' = lapses \cup RowLapse(req[r])
    BY <1>8 DEF UpdateCommit
  <2>2. wallet' \in [Wallets -> WalletRows]
    BY <1>1, <1>8, UpdateDeltasType, ApplyType DEF UpdateCommit
  <2>3. row' \in [Txs -> TxRows]
    BY <1>1, <2>1, UpdatedTxType
  <2>4. lapses' \subseteq LapseKinds
    BY <1>1, <2>1 DEF RowLapse, LapseKinds
  <2>5. QED
    BY <1>1, <2>1, <2>2, <2>3, <2>4, FinishType DEF TypeInv, TypeOK
<1>9. CASE DeleteLoad(r)
  <2>1. PICK t \in Txs :
          req' = [req EXCEPT ![r] = [NewRequest EXCEPT !.op = "delete", !.pc = "checked",
                                       !.tx = t, !.row = row[t], !.inst = inst[t]]]
    BY <1>9 DEF DeleteLoad
  <2> DEFINE q == [NewRequest EXCEPT !.op = "delete", !.pc = "checked", !.tx = t, !.row = row[t], !.inst = inst[t]]
  <2>2. q \in Requests
    BY <1>1, Blank DEF Requests, Endpoints
  <2>3. q.op # "create"
    BY DEF NewRequest
  <2>4. QED
    BY <1>2, <1>9, <2>1, <2>2, <2>3, ReqStep DEF DeleteLoad
<1>10. CASE DeleteCommit(r)
  <2>1. /\ row' = [row EXCEPT ![req[r].tx] = GoneTx]
        /\ inst' = IF req[r].row.isInstallment THEN [inst EXCEPT ![req[r].tx] = GoneInst] ELSE inst
        /\ Apply(Reversal(ReadEffect(req[r])))
        /\ lapses' = lapses \cup RowLapse(req[r])
        /\ Finish(r)
    BY <1>10 DEF DeleteCommit
  <2>2. wallet' \in [Wallets -> WalletRows]
    BY <1>1, <2>1, DeltasType, ApplyType DEF ReadEffect
  <2>3. row' \in [Txs -> TxRows] /\ inst' \in [Txs -> InstRows]
    BY <1>1, <2>1, Blank
  <2>4. lapses' \subseteq LapseKinds
    BY <1>1, <2>1 DEF RowLapse, LapseKinds
  <2>5. QED
    BY <2>1, <2>2, <2>3, <2>4, FinishType DEF TypeInv, TypeOK
<1>11. CASE PayLoad(r)
  <2>1. PICK t \in Txs, w \in Wallets :
          req' = [req EXCEPT ![r] = [NewRequest EXCEPT !.op = "pay", !.pc = "loaded",
                                                       !.tx = t, !.wallet = w, !.inst = inst[t]]]
    BY <1>11 DEF PayLoad
  <2> DEFINE q == [NewRequest EXCEPT !.op = "pay", !.pc = "loaded", !.tx = t, !.wallet = w, !.inst = inst[t]]
  <2>2. q \in Requests
    BY <1>1, Blank DEF Requests, Endpoints
  <2>3. q.op # "create"
    BY DEF NewRequest
  <2>4. QED
    BY <1>2, <1>11, <2>1, <2>2, <2>3, ReqStep DEF PayLoad
<1>12. CASE PayCheck(r)
  BY <1>2, <1>12, AdvanceType DEF PayCheck, At
<1>13. CASE PayCommit(r)
  <2>1. PICK t \in Txs : row' = [row EXCEPT ![t] = PaymentTx(req[r])]
    BY <1>13 DEF PayCommit
  <2>2. /\ Apply(Deltas(InputFrom(PaymentTx(req[r]), FreeInst)))
        /\ inst' = [inst EXCEPT ![req[r].tx] = Advanced(req[r].inst)]
        /\ lapses' = lapses \cup IF inst[req[r].tx].paid # req[r].inst.paid THEN {"payment"} ELSE {}
        /\ Finish(r)
    BY <1>13 DEF PayCommit
  <2>3. PaymentTx(req[r]) \in TxRows /\ Advanced(req[r].inst) \in InstRows
    BY <1>1, PaymentTxType, AdvancedType
  <2>4. wallet' \in [Wallets -> WalletRows]
    BY <1>1, <2>2, <2>3, Blank, DeltasType, ApplyType
  <2>5. row' \in [Txs -> TxRows] /\ inst' \in [Txs -> InstRows]
    BY <1>1, <2>1, <2>2, <2>3
  <2>6. lapses' \subseteq LapseKinds
    BY <1>1, <2>2 DEF LapseKinds
  <2>7. QED
    BY <2>2, <2>4, <2>5, <2>6, FinishType DEF TypeInv, TypeOK
<1>14. CASE WalletCreate(r)
  <2>1. PICK in \in WalletInputs, w \in Wallets :
          LET opening == CASE in[1] = "ASSET" -> in[2] [] in[1] = "CREDIT" -> 0 [] in[1] = "LOAN" -> -in[2]
          IN wallet' = [wallet EXCEPT ![w] = [st |-> "live", kind |-> in[1], balance |-> opening,
                          initial |-> opening, limit |-> IF in[1] = "CREDIT" THEN in[3] ELSE 0]]
    BY <1>14 DEF WalletCreate
  <2>2. in[1] \in WalletKinds /\ in[2] \in Int /\ in[3] \in Nat
    BY LedgerAssumption
  <2>3. wallet' \in [Wallets -> WalletRows]
    BY <1>1, <2>1, <2>2 DEF WalletRows, RowStates, WalletKinds
  <2>4. QED
    BY <1>1, <1>14, <2>3, FinishType DEF WalletCreate, TypeInv, TypeOK
<1>15. CASE WalletUpdateLoad(r)
  <2>1. PICK p \in WalletPatches, w \in Wallets :
          req' = [req EXCEPT ![r] = [NewRequest EXCEPT !.op = "walletUpdate", !.pc = "checked",
                                                       !.wallet = w, !.patch = p]]
    BY <1>15 DEF WalletUpdateLoad
  <2> DEFINE q == [NewRequest EXCEPT !.op = "walletUpdate", !.pc = "checked", !.wallet = w, !.patch = p]
  <2>2. q \in Requests
    BY Blank, LedgerAssumption DEF Requests, Endpoints
  <2>3. q.op # "create"
    BY DEF NewRequest
  <2>4. QED
    BY <1>2, <1>15, <2>1, <2>2, <2>3, ReqStep DEF WalletUpdateLoad
<1>16. CASE WalletUpdateCommit(r)
  <2>1. wallet' \in [Wallets -> WalletRows]
    BY <1>1, <1>16 DEF WalletUpdateCommit, WalletRows, Patches
  <2>2. QED
    BY <1>1, <1>16, <2>1, FinishType DEF WalletUpdateCommit, TypeInv, TypeOK
<1>17. CASE WalletDeleteGate1(r)
  <2>1. PICK w \in Wallets, force \in BOOLEAN :
          req' = [req EXCEPT ![r] = [NewRequest EXCEPT !.op = "walletDelete", !.pc = "loaded",
                                                       !.wallet = w, !.force = force]]
    BY <1>17 DEF WalletDeleteGate1
  <2> DEFINE q == [NewRequest EXCEPT !.op = "walletDelete", !.pc = "loaded", !.wallet = w, !.force = force]
  <2>2. q \in Requests
    BY Blank DEF Requests, Endpoints
  <2>3. q.op # "create"
    BY DEF NewRequest
  <2>4. QED
    BY <1>2, <1>17, <2>1, <2>2, <2>3, ReqStep DEF WalletDeleteGate1
<1>18. CASE WalletDeleteGate2(r)
  BY <1>2, <1>18, AdvanceType DEF WalletDeleteGate2, At
<1>19. CASE WalletDeleteCommit(r)
  <2>1. wallet' \in [Wallets -> WalletRows]
    BY <1>1, <1>19, Blank DEF WalletDeleteCommit
  <2>2. \A t \in Txs : [row[t] EXCEPT !.to = NoWallet] \in TxRows
    BY <1>1 DEF TxRows
  <2>3. row' \in [Txs -> TxRows]
    BY <1>1, <1>19, <2>2, Blank DEF WalletDeleteCommit
  <2>4. inst' \in [Txs -> InstRows]
    BY <1>1, <1>19, Blank DEF WalletDeleteCommit
  <2>5. lapses' \subseteq LapseKinds
    BY <1>1, <1>19 DEF WalletDeleteCommit, LapseKinds
  <2>6. QED
    BY <1>19, <2>1, <2>3, <2>4, <2>5, FinishType DEF WalletDeleteCommit, TypeInv, TypeOK
<1>20. CASE Refuse(r)
  BY <1>2, <1>20, FinishType DEF Refuse
<1>21. CASE Rollback(r)
  BY <1>2, <1>21, FinishType DEF Rollback
<1>22. QED
  BY <1>3, <1>4, <1>5, <1>6, <1>7, <1>8, <1>9, <1>10, <1>11, <1>12, <1>13, <1>14, <1>15, <1>16,
     <1>17, <1>18, <1>19, <1>20, <1>21 DEF Step

(* Type correctness of the ledger: every request, in any interleaving,      *)
(* leaves well-formed rows, and no commit works on a half-filled request.   *)
THEOREM TypeCorrect == Spec => []TypeOK
<1>1. Init => TypeInv
  BY TypeInit
<1>2. TypeInv /\ [Next]_vars => TypeInv'
  <2> SUFFICES ASSUME TypeInv, [Next]_vars PROVE TypeInv'
    OBVIOUS
  <2>1. CASE Next
    BY <2>1, TypeStep DEF Next
  <2>2. CASE UNCHANGED vars
    BY <2>2 DEF vars, TypeInv, TypeOK, CreateBodies, At
  <2>3. QED
    BY <2>1, <2>2
<1>3. TypeInv => TypeOK
  BY DEF TypeInv
<1>4. QED
  BY <1>1, <1>2, <1>3, PTL DEF Spec

-----------------------------------------------------------------------------
(* The inductive invariant: the three integrity invariants, which need each *)
(* other, and what requests in flight carry.                                *)
Inv == TypeInv /\ ModelA /\ NoDangling /\ ScheduleAgrees /\ CarriedHolds

LEMMA InvInit == Init => Inv
<1> SUFFICES ASSUME Init PROVE Inv
  OBVIOUS
<1>1. TypeInv
  BY TypeInit
<1>2. \A t \in Txs : ~LiveTx(t) /\ ~LiveInst(t)
  BY DEF Init, LiveTx, LiveInst, FreeTx, FreeInst
<1>3. CarriedHolds
  BY DEF Init, CarriedHolds, NewRequest
<1>4. QED
  BY <1>1, <1>2, <1>3 DEF Inv, ModelA, NoDangling, ScheduleAgrees

(* How rows may change: an id is used once, a deleted row stays deleted, and *)
(* what makes a row an installment, or the terms of one, never changes.      *)
RowsEvolve ==
  \A t \in Txs : row[t].st # "free" =>
    /\ row'[t].st # "free"
    /\ LiveTx(t)' => LiveTx(t) /\ row'[t].isInstallment = row[t].isInstallment
    /\ LiveInst(t)' => LiveInst(t) /\ SameTerms(inst'[t], inst[t])

(* A commit ends its own request and leaves what the others carry true.     *)
LEMMA CarriedStable ==
  ASSUME Inv, NEW r \in Reqs, Finish(r), RowsEvolve
  PROVE  CarriedHolds'
<1> SUFFICES ASSUME NEW s \in Reqs, req'[s].pc \in {"loaded", "checked"}
             PROVE  Carried(req[s])' /\ req'[s] = req[s]
  BY DEF CarriedHolds, Carried
<1>1. req'[s] = req[s] /\ Carried(req[s])
  BY DEF Inv, TypeInv, TypeOK, CarriedHolds, Finish, DoneRequest, NewRequest
<1>2. req[s].tx \in Txs
  BY DEF Inv, TypeInv, TypeOK, Requests
<1>3. QED
  BY <1>1, <1>2 DEF Carried, RowsEvolve, SameTerms, LiveTx, LiveInst

(* A read step only has to establish what its own request now carries.      *)
LEMMA CarriedRead ==
  ASSUME Inv, UNCHANGED <<wallet, row, inst, lapses>>, NEW r \in Reqs, NEW q,
         req' = [req EXCEPT ![r] = q], Carried(q), TypeInv'
  PROVE  Inv'
<1>1. ModelA' /\ NoDangling' /\ ScheduleAgrees'
  BY DEF Inv, ModelA, NoDangling, ScheduleAgrees, LiveTx, LiveInst, LiveWallet
<1>2. CarriedHolds'
  BY DEF Inv, TypeInv, TypeOK, CarriedHolds, Carried, LiveTx, LiveInst
<1>3. QED
  BY <1>1, <1>2 DEF Inv

LEMMA CarriedAdvance ==
  ASSUME Inv, UNCHANGED <<wallet, row, inst, lapses>>, NEW r \in Reqs,
         req[r].pc \in {"loaded", "checked"}, req' = [req EXCEPT ![r].pc = "checked"], TypeInv'
  PROVE  Inv'
<1>1. req' = [req EXCEPT ![r] = [req[r] EXCEPT !.pc = "checked"]]
  BY DEF Inv, TypeInv, TypeOK
<1>2. Carried(req[r]) /\ req[r] \in Requests
  BY DEF Inv, TypeInv, TypeOK, CarriedHolds
<1>3. Carried([req[r] EXCEPT !.pc = "checked"])
  BY <1>2 DEF Carried, Requests
<1>4. QED
  BY <1>1, <1>3, CarriedRead

-----------------------------------------------------------------------------
(* One lemma per commit: it evolves the rows and keeps the integrity        *)
(* invariants.                                                              *)
Integrity == RowsEvolve /\ ModelA' /\ NoDangling' /\ ScheduleAgrees'

LEMMA ApplyLive ==
  ASSUME NEW f, Apply(f)
  PROVE  \A w : LiveWallet(w)' <=> LiveWallet(w)
BY DEF Apply, LiveWallet, GoneWallet

LEMMA CreateRegularKeeps ==
  ASSUME Inv, NEW r \in Reqs, CreateRegular(r) PROVE Integrity
<1>1. PICK t \in Txs : IsNext(t) /\ row' = [row EXCEPT ![t] = NewTx(req[r].in)]
  BY DEF CreateRegular
<1>2. /\ \A w : LiveWallet(w)' <=> LiveWallet(w)
      /\ inst' = inst /\ CreateCommits(r)
  BY ApplyLive DEF CreateRegular
<1>3. row \in [Txs -> TxRows] /\ row[t].st = "free" /\ ~LiveTx(t)
  BY <1>1 DEF IsNext, Inv, TypeInv, TypeOK, LiveTx
<1>4. /\ row'[t] = NewTx(req[r].in) /\ \A u \in Txs \ {t} : row'[u] = row[u]
  BY <1>1, <1>3
<1>5. RowsEvolve
  BY <1>2, <1>3, <1>4 DEF RowsEvolve, LiveTx, LiveInst, SameTerms
<1>6. ModelA'
  BY <1>2, <1>3, <1>4 DEF Inv, ModelA, LiveTx, LiveInst, NewTx
<1>7. NoDangling'
  BY <1>2, <1>3, <1>4 DEF Inv, NoDangling, LiveTx, LiveInst, NewTx, CreateCommits, LiveWallet
<1>8. ScheduleAgrees'
  BY <1>2 DEF Inv, ScheduleAgrees, LiveInst
<1>9. QED
  BY <1>5, <1>6, <1>7, <1>8 DEF Integrity

LEMMA CreateInstallmentKeeps ==
  ASSUME Inv, NEW r \in Reqs, CreateInstallment(r) PROVE Integrity
<1> DEFINE i == NewInst(req[r].in)
           x == [NewTx(req[r].in) EXCEPT !.amount = i.monthly, !.isInstallment = TRUE]
<1>1. PICK t \in Txs : IsNext(t) /\ row' = [row EXCEPT ![t] = x] /\ inst' = [inst EXCEPT ![t] = i]
  BY DEF CreateInstallment
<1>2. /\ \A w : LiveWallet(w)' <=> LiveWallet(w)
      /\ CreateCommits(r) /\ req[r].in.months > 0
  BY ApplyLive DEF CreateInstallment
<1>3. row \in [Txs -> TxRows] /\ inst \in [Txs -> InstRows] /\ row[t].st = "free"
  BY <1>1 DEF IsNext, Inv, TypeInv, TypeOK
<1>4. /\ row'[t] = x /\ \A u \in Txs \ {t} : row'[u] = row[u]
      /\ inst'[t] = i /\ \A u \in Txs \ {t} : inst'[u] = inst[u]
  BY <1>1, <1>3
<1>5. /\ x.st = "live" /\ x.isInstallment /\ x.amount = i.monthly /\ x.wallet = req[r].in.wallet
      /\ x.to = NewTx(req[r].in).to
      /\ i.st = "live" /\ i.wallet = req[r].in.wallet
  BY DEF NewTx, NewInst
<1>6. ScheduleOK(i)
  <2>1. req[r].in.months \in Nat
    BY DEF Inv, TypeInv, TypeOK, Requests, Inputs
  <2>2. QED
    BY <1>2, <2>1 DEF NewInst, ScheduleOK
<1> HIDE DEF x, i
<1>7. RowsEvolve
  BY <1>3, <1>4 DEF RowsEvolve, LiveTx, LiveInst, SameTerms
<1>8. ModelA'
  BY <1>4, <1>5 DEF Inv, ModelA, LiveTx, LiveInst
<1>9. NoDangling'
  BY <1>2, <1>4, <1>5 DEF Inv, NoDangling, LiveTx, LiveInst, NewTx, CreateCommits, LiveWallet
<1>10. ScheduleAgrees'
  BY <1>4, <1>6 DEF Inv, ScheduleAgrees, LiveInst
<1>11. QED
  BY <1>7, <1>8, <1>9, <1>10 DEF Integrity

LEMMA UpdateCommitKeeps ==
  ASSUME Inv, NEW r \in Reqs, UpdateCommit(r) PROVE Integrity
<1> PICK q \in Requests : q = req[r]
  BY DEF Inv, TypeInv, TypeOK
<1> PICK t \in Txs : t = q.tx
  BY DEF Requests
<1>1. /\ At(r, "update", "checked") /\ UpdateCommits(q) /\ inst' = inst
      /\ row' = [row EXCEPT ![t] = UpdatedTx(q, row[t])]
      /\ \A w : LiveWallet(w)' <=> LiveWallet(w)
  BY ApplyLive DEF UpdateCommit
<1>2. /\ row \in [Txs -> TxRows] /\ q.in \in Inputs /\ q.row \in TxRows
  BY DEF Inv, TypeInv, TypeOK, Requests
<1>3. /\ row'[t] = UpdatedTx(q, row[t]) /\ \A u \in Txs \ {t} : row'[u] = row[u]
  BY <1>1, <1>2
<1>4. LiveTx(t) /\ ~row[t].isInstallment
  BY <1>1 DEF UpdateCommits, At, Inv, CarriedHolds, Carried
<1>5. row'[t].st = "live" /\ row'[t].isInstallment = row[t].isInstallment
  BY <1>3, <1>4 DEF UpdatedTx, LiveTx
<1>6. LiveWallet(row'[t].wallet) /\ (row'[t].to # NoWallet => LiveWallet(row'[t].to))
  <2>1. LiveWallet(row[t].wallet)
    BY <1>2, <1>4 DEF Inv, NoDangling
  <2>2. LiveWallet(NewWallet(q))
    BY <1>1 DEF UpdateCommits, AllLive, Targets, NewEffect
  <2>3. NewTo(q) # NoWallet => NewType(q) = "TRANSFER" /\ NewTo(q) \in Wallets
    BY <1>2 DEF NewTo, Inputs, TxRows
  <2>4. NewTo(q) # NoWallet => NewTo(q) \in Targets(NewEffect(q))
    BY <2>3 DEF Targets, HasDestination, NewEffect
  <2>5. NewTo(q) # NoWallet => LiveWallet(NewTo(q))
    BY <1>1, <2>4 DEF UpdateCommits, AllLive
  <2>6. QED
    BY <1>3, <2>1, <2>2, <2>5 DEF UpdatedTx, NewWallet
<1>7. RowsEvolve
  BY <1>1, <1>3, <1>4, <1>5 DEF RowsEvolve, LiveTx, LiveInst, SameTerms
<1>8. ModelA'
  BY <1>1, <1>3, <1>4, <1>5 DEF Inv, ModelA, LiveTx, LiveInst
<1>9. NoDangling'
  BY <1>1, <1>3, <1>6 DEF Inv, NoDangling, LiveTx, LiveInst, LiveWallet
<1>10. ScheduleAgrees'
  BY <1>1 DEF Inv, ScheduleAgrees, LiveInst
<1>11. QED
  BY <1>7, <1>8, <1>9, <1>10 DEF Integrity

LEMMA DeleteCommitKeeps ==
  ASSUME Inv, NEW r \in Reqs, DeleteCommit(r) PROVE Integrity
<1> PICK q \in Requests : q = req[r]
  BY DEF Inv, TypeInv, TypeOK
<1> PICK t \in Txs : t = q.tx
  BY DEF Requests
<1>1. /\ At(r, "delete", "checked") /\ DeleteCommits(q)
      /\ row' = [row EXCEPT ![t] = GoneTx]
      /\ inst' = IF q.row.isInstallment THEN [inst EXCEPT ![t] = GoneInst] ELSE inst
      /\ \A w : LiveWallet(w)' <=> LiveWallet(w)
  BY ApplyLive DEF DeleteCommit
<1>2. row \in [Txs -> TxRows] /\ inst \in [Txs -> InstRows]
  BY DEF Inv, TypeInv, TypeOK
<1>3. LiveTx(t) /\ row[t].isInstallment = q.row.isInstallment
  BY <1>1 DEF DeleteCommits, At, Inv, CarriedHolds, Carried
<1>4. GoneTx.st = "gone" /\ GoneInst.st = "gone"
  BY DEF GoneTx, GoneInst, FreeTx, FreeInst
<1>5. row'[t].st = "gone" /\ \A u \in Txs \ {t} : row'[u] = row[u] /\ inst'[u] = inst[u]
  BY <1>1, <1>2, <1>4
<1>6. inst'[t].st # "live"
  BY <1>1, <1>2, <1>3, <1>4 DEF Inv, ModelA, LiveInst
<1>7. RowsEvolve
  BY <1>2, <1>5, <1>6 DEF RowsEvolve, LiveTx, LiveInst, SameTerms
<1>8. ModelA'
  BY <1>5, <1>6 DEF Inv, ModelA, LiveTx, LiveInst
<1>9. NoDangling'
  BY <1>1, <1>5, <1>6 DEF Inv, NoDangling, LiveTx, LiveInst
<1>10. ScheduleAgrees'
  BY <1>5, <1>6 DEF Inv, ScheduleAgrees, LiveInst
<1>11. QED
  BY <1>7, <1>8, <1>9, <1>10 DEF Integrity

LEMMA PayCommitKeeps ==
  ASSUME Inv, NEW r \in Reqs, PayCommit(r) PROVE Integrity
<1> PICK q \in Requests : q = req[r]
  BY DEF Inv, TypeInv, TypeOK
<1> PICK i \in Txs : i = q.tx
  BY DEF Requests
<1>1. PICK t \in Txs : IsNext(t) /\ row' = [row EXCEPT ![t] = PaymentTx(q)]
  BY DEF PayCommit
<1>2. /\ At(r, "pay", "checked") /\ PayCommits(q)
      /\ inst' = [inst EXCEPT ![i] = Advanced(q.inst)]
      /\ \A w : LiveWallet(w)' <=> LiveWallet(w)
  BY ApplyLive DEF PayCommit
<1>3. row \in [Txs -> TxRows] /\ inst \in [Txs -> InstRows] /\ q.inst \in InstRows
  BY DEF Inv, TypeInv, TypeOK, Requests
<1>4. /\ row'[t] = PaymentTx(q) /\ \A u \in Txs \ {t} : row'[u] = row[u]
      /\ inst'[i] = Advanced(q.inst) /\ \A u \in Txs \ {i} : inst'[u] = inst[u]
  BY <1>1, <1>2, <1>3
<1>5. /\ LiveInst(i) /\ SameTerms(inst[i], q.inst) /\ ScheduleOK(q.inst)
      /\ q.inst.paid < q.inst.months
  BY <1>2 DEF PayCommits, At, Inv, CarriedHolds, Carried
<1>6. row[t].st = "free" /\ i # t
  BY <1>1, <1>5 DEF IsNext, Inv, ModelA, LiveTx
<1>7. SameTerms(inst'[i], inst[i]) /\ inst'[i].st = "live" /\ ScheduleOK(inst'[i])
  <2>1. SameTerms(Advanced(q.inst), q.inst)
    BY DEF Advanced, SameTerms
  <2>2. ScheduleOK(Advanced(q.inst))
    BY <1>3, <1>5 DEF Advanced, ScheduleOK, InstRows
  <2>3. QED
    BY <1>4, <1>5, <2>1, <2>2 DEF SameTerms, LiveInst
<1>8. /\ row'[t].st = "live" /\ ~row'[t].isInstallment
      /\ LiveWallet(row'[t].wallet) /\ LiveWallet(row'[t].to) /\ LiveWallet(inst'[i].wallet)
  BY <1>2, <1>4 DEF PaymentTx, PayCommits, Advanced
<1>9. RowsEvolve
  BY <1>4, <1>5, <1>6, <1>7 DEF RowsEvolve, LiveTx, LiveInst, SameTerms
<1>10. ModelA'
  BY <1>4, <1>5, <1>6, <1>7, <1>8 DEF Inv, ModelA, LiveTx, LiveInst, SameTerms
<1>11. NoDangling'
  BY <1>2, <1>4, <1>6, <1>8 DEF Inv, NoDangling, LiveTx, LiveInst, LiveWallet
<1>12. ScheduleAgrees'
  BY <1>4, <1>7 DEF Inv, ScheduleAgrees, LiveInst
<1>13. QED
  BY <1>9, <1>10, <1>11, <1>12 DEF Integrity

LEMMA WalletWriteKeeps ==
  ASSUME Inv, NEW r \in Reqs, WalletCreate(r) \/ WalletUpdateCommit(r) PROVE Integrity
<1>1. row' = row /\ inst' = inst
  BY DEF WalletCreate, WalletUpdateCommit
<1>2. \A w : LiveWallet(w) => LiveWallet(w)'
  <2>1. wallet \in [Wallets -> WalletRows]
    BY DEF Inv, TypeInv, TypeOK
  <2>2. CASE WalletCreate(r)
    BY <2>1, <2>2 DEF WalletCreate, LiveWallet
  <2>3. CASE WalletUpdateCommit(r)
    BY <2>1, <2>3 DEF WalletUpdateCommit, LiveWallet
  <2>4. QED
    BY <2>2, <2>3
<1>3. RowsEvolve
  BY <1>1 DEF RowsEvolve, LiveTx, LiveInst, SameTerms
<1>4. ModelA' /\ ScheduleAgrees'
  BY <1>1 DEF Inv, ModelA, ScheduleAgrees, LiveTx, LiveInst
<1>5. NoDangling'
  BY <1>1, <1>2 DEF Inv, NoDangling, LiveTx, LiveInst
<1>6. QED
  BY <1>3, <1>4, <1>5 DEF Integrity

(* The cascade: rows of the wallet and their installments go together, and  *)
(* transfers into it lose their destination.                                *)
LEMMA WalletDeleteKeeps ==
  ASSUME Inv, NEW r \in Reqs, WalletDeleteCommit(r) PROVE Integrity
<1> PICK w \in Wallets : w = req[r].wallet
  BY DEF Inv, TypeInv, TypeOK, Requests
<1>1. wallet' = [wallet EXCEPT ![w] = GoneWallet]
  BY DEF WalletDeleteCommit
<1>2. wallet \in [Wallets -> WalletRows] /\ row \in [Txs -> TxRows] /\ inst \in [Txs -> InstRows]
  BY DEF Inv, TypeInv, TypeOK
<1>3. \A v : LiveWallet(v) /\ v # w => LiveWallet(v)'
  BY <1>1, <1>2 DEF LiveWallet
<1>4. GoneTx.st = "gone" /\ GoneInst.st = "gone"
  BY DEF GoneTx, GoneInst, FreeTx, FreeInst
<1>5. ASSUME NEW t \in Txs, LiveTx(t), row[t].wallet = w
      PROVE  row'[t].st = "gone"
  BY <1>4, <1>5 DEF WalletDeleteCommit
<1>6. ASSUME NEW t \in Txs, ~(LiveTx(t) /\ row[t].wallet = w)
      PROVE  /\ row'[t].st = row[t].st /\ row'[t].wallet = row[t].wallet
             /\ row'[t].amount = row[t].amount /\ row'[t].isInstallment = row[t].isInstallment
             /\ (row'[t].to = row[t].to /\ row[t].to # w) \/ row'[t].to = NoWallet \/ ~LiveTx(t)
  <2>1. row[t] \in TxRows
    BY <1>2
  <2>2. row'[t] = IF LiveTx(t) /\ row[t].to = w THEN [row[t] EXCEPT !.to = NoWallet] ELSE row[t]
    BY <1>6 DEF WalletDeleteCommit
  <2>3. QED
    BY <2>1, <2>2 DEF TxRows
<1>7. ASSUME NEW t \in Txs
      PROVE  inst'[t] = IF LiveInst(t) /\ inst[t].wallet = w THEN GoneInst ELSE inst[t]
  BY DEF WalletDeleteCommit
<1>8. ASSUME NEW t \in Txs
      PROVE  LiveInst(t)' => LiveInst(t) /\ inst'[t] = inst[t] /\ inst[t].wallet # w
  BY <1>4, <1>7 DEF LiveInst
<1>9. RowsEvolve
  BY <1>5, <1>6, <1>8 DEF RowsEvolve, LiveTx, SameTerms
<1>10. ModelA'
  <2> SUFFICES ASSUME NEW t \in Txs
               PROVE  /\ LiveInst(t)' <=> LiveTx(t)' /\ row'[t].isInstallment
                      /\ LiveInst(t)' => row'[t].wallet = inst'[t].wallet /\ row'[t].amount = inst'[t].monthly
    BY DEF ModelA
  <2>1. CASE LiveTx(t) /\ row[t].wallet = w
    BY <1>4, <1>5, <1>7, <2>1 DEF Inv, ModelA, LiveTx, LiveInst
  <2>2. CASE ~(LiveTx(t) /\ row[t].wallet = w)
    BY <1>6, <1>7, <2>2 DEF Inv, ModelA, LiveTx, LiveInst
  <2>3. QED
    BY <2>1, <2>2
<1>11. NoDangling'
  <2> DEFINE RefsOK(t) ==
        /\ LiveTx(t) => LiveWallet(row[t].wallet) /\ (row[t].to # NoWallet => LiveWallet(row[t].to))
        /\ LiveInst(t) => LiveWallet(inst[t].wallet)
  <2>1. NoDangling' <=> \A t \in Txs : RefsOK(t)'
    BY DEF NoDangling, LiveWallet
  <2>2. \A t \in Txs : RefsOK(t)
    BY DEF Inv, NoDangling
  <2>3. ASSUME NEW t \in Txs, LiveTx(t)'
        PROVE  /\ LiveWallet(row[t].wallet)'
               /\ (row[t].to # NoWallet => LiveWallet(row[t].to))'
    <3>1. LiveTx(t) /\ row[t].wallet # w
      BY <1>5, <1>6, <2>3 DEF LiveTx
    <3>2. /\ row'[t].wallet = row[t].wallet
          /\ row'[t].to = NoWallet \/ (row'[t].to = row[t].to /\ row[t].to # w)
      BY <1>6, <3>1
    <3>3. QED
      BY <1>3, <2>2, <3>1, <3>2 DEF LiveWallet
  <2>4. ASSUME NEW t \in Txs, LiveInst(t)'
        PROVE  LiveWallet(inst[t].wallet)'
    <3>1. LiveInst(t) /\ inst'[t] = inst[t] /\ inst[t].wallet # w
      BY <1>8, <2>4
    <3>2. QED
      BY <1>3, <2>2, <3>1 DEF LiveWallet
  <2>5. QED
    BY <2>1, <2>3, <2>4
<1>12. ScheduleAgrees'
  BY <1>8 DEF Inv, ScheduleAgrees
<1>13. QED
  BY <1>9, <1>10, <1>11, <1>12 DEF Integrity

-----------------------------------------------------------------------------
(* Every step keeps the invariant: a read step only changes its request, a  *)
(* commit finishes it.                                                      *)
LEMMA ReadKeeps ==
  ASSUME Inv, NEW r \in Reqs, TypeInv',
         CreateCheck(r) \/ UpdateLoad(r) \/ UpdateCheck(r) \/ DeleteLoad(r) \/ PayLoad(r) \/ PayCheck(r)
           \/ WalletUpdateLoad(r) \/ WalletDeleteGate1(r) \/ WalletDeleteGate2(r)
  PROVE  Inv'
<1>1. /\ row \in [Txs -> TxRows] /\ inst \in [Txs -> InstRows]
      /\ \A t \in Txs : LiveInst(t) => row[t].st # "free" /\ ScheduleOK(inst[t])
  BY DEF Inv, TypeInv, TypeOK, ModelA, ScheduleAgrees, LiveTx
<1>2. CASE CreateCheck(r)
  <2>1. PICK in \in CreateInputs :
          req' = [req EXCEPT ![r] = [NewRequest EXCEPT !.op = "create", !.pc = "checked", !.in = in]]
    BY <1>2 DEF CreateCheck
  <2>2. Carried([NewRequest EXCEPT !.op = "create", !.pc = "checked", !.in = in])
    BY DEF Carried, NewRequest
  <2>3. QED
    BY <1>2, <2>1, <2>2, CarriedRead DEF CreateCheck
<1>3. CASE UpdateLoad(r)
  <2>1. PICK in \in UpdateInputs, t \in Txs :
          /\ LiveTx(t) /\ ~row[t].isInstallment
          /\ req' = [req EXCEPT ![r] = [NewRequest EXCEPT !.op = "update", !.pc = "loaded",
                                                          !.tx = t, !.in = in, !.row = row[t]]]
    BY <1>3 DEF UpdateLoad
  <2>2. Carried([NewRequest EXCEPT !.op = "update", !.pc = "loaded", !.tx = t, !.in = in, !.row = row[t]])
    BY <2>1 DEF Carried, NewRequest, LiveTx
  <2>3. QED
    BY <1>3, <2>1, <2>2, CarriedRead DEF UpdateLoad
<1>4. CASE DeleteLoad(r)
  <2>1. PICK t \in Txs :
          /\ LiveTx(t)
          /\ req' = [req EXCEPT ![r] = [NewRequest EXCEPT !.op = "delete", !.pc = "checked",
                                          !.tx = t, !.row = row[t], !.inst = inst[t]]]
    BY <1>4 DEF DeleteLoad
  <2>2. Carried([NewRequest EXCEPT !.op = "delete", !.pc = "checked",
                                   !.tx = t, !.row = row[t], !.inst = inst[t]])
    BY <2>1 DEF Carried, NewRequest, LiveTx
  <2>3. QED
    BY <1>4, <2>1, <2>2, CarriedRead DEF DeleteLoad
<1>5. CASE PayLoad(r)
  <2>1. PICK t \in Txs, w \in Wallets :
          /\ LiveInst(t) /\ inst[t].paid < inst[t].months
          /\ req' = [req EXCEPT ![r] = [NewRequest EXCEPT !.op = "pay", !.pc = "loaded",
                                                          !.tx = t, !.wallet = w, !.inst = inst[t]]]
    BY <1>5 DEF PayLoad
  <2>2. Carried([NewRequest EXCEPT !.op = "pay", !.pc = "loaded", !.tx = t, !.wallet = w, !.inst = inst[t]])
    BY <1>1, <2>1 DEF Carried, NewRequest, LiveInst, SameTerms
  <2>3. QED
    BY <1>5, <2>1, <2>2, CarriedRead DEF PayLoad
<1>6. CASE WalletUpdateLoad(r)
  <2>1. PICK p \in WalletPatches, w \in Wallets :
          req' = [req EXCEPT ![r] = [NewRequest EXCEPT !.op = "walletUpdate", !.pc = "checked",
                                                       !.wallet = w, !.patch = p]]
    BY <1>6 DEF WalletUpdateLoad
  <2>2. Carried([NewRequest EXCEPT !.op = "walletUpdate", !.pc = "checked", !.wallet = w, !.patch = p])
    BY DEF Carried, NewRequest
  <2>3. QED
    BY <1>6, <2>1, <2>2, CarriedRead DEF WalletUpdateLoad
<1>7. CASE WalletDeleteGate1(r)
  <2>1. PICK w \in Wallets, force \in BOOLEAN :
          req' = [req EXCEPT ![r] = [NewRequest EXCEPT !.op = "walletDelete", !.pc = "loaded",
                                                       !.wallet = w, !.force = force]]
    BY <1>7 DEF WalletDeleteGate1
  <2>2. Carried([NewRequest EXCEPT !.op = "walletDelete", !.pc = "loaded", !.wallet = w, !.force = force])
    BY DEF Carried, NewRequest
  <2>3. QED
    BY <1>7, <2>1, <2>2, CarriedRead DEF WalletDeleteGate1
<1>8. CASE UpdateCheck(r) \/ PayCheck(r) \/ WalletDeleteGate2(r)
  BY <1>8, CarriedAdvance DEF UpdateCheck, PayCheck, WalletDeleteGate2, At
<1>9. QED
  BY <1>2, <1>3, <1>4, <1>5, <1>6, <1>7, <1>8

LEMMA InvStep ==
  ASSUME Inv, NEW r \in Reqs, Step(r)
  PROVE  Inv'
<1>1. TypeInv'
  BY TypeStep DEF Inv
<1>2. CASE Refuse(r) \/ Rollback(r)
  <2>1. UNCHANGED <<wallet, row, inst, lapses>> /\ Finish(r)
    BY <1>2 DEF Refuse, Rollback
  <2>2. Carried(DoneRequest)
    BY DEF Carried, DoneRequest, NewRequest
  <2>3. QED
    BY <1>1, <2>1, <2>2, CarriedRead DEF Finish
<1>3. ASSUME Finish(r), Integrity PROVE Inv'
  BY <1>1, <1>3, CarriedStable DEF Inv, Integrity
<1>4. CASE CreateRegular(r)
  BY <1>3, <1>4, CreateRegularKeeps DEF CreateRegular
<1>5. CASE CreateInstallment(r)
  BY <1>3, <1>5, CreateInstallmentKeeps DEF CreateInstallment
<1>6. CASE UpdateCommit(r)
  BY <1>3, <1>6, UpdateCommitKeeps DEF UpdateCommit
<1>7. CASE DeleteCommit(r)
  BY <1>3, <1>7, DeleteCommitKeeps DEF DeleteCommit
<1>8. CASE PayCommit(r)
  BY <1>3, <1>8, PayCommitKeeps DEF PayCommit
<1>9. CASE WalletCreate(r) \/ WalletUpdateCommit(r)
  BY <1>3, <1>9, WalletWriteKeeps DEF WalletCreate, WalletUpdateCommit
<1>10. CASE WalletDeleteCommit(r)
  BY <1>3, <1>10, WalletDeleteKeeps DEF WalletDeleteCommit
<1>11. QED
  BY <1>1, <1>2, <1>4, <1>5, <1>6, <1>7, <1>8, <1>9, <1>10, ReadKeeps DEF Step

THEOREM Invariance == Spec => []Inv
<1>1. Init => Inv
  BY InvInit
<1>2. Inv /\ [Next]_vars => Inv'
  <2> SUFFICES ASSUME Inv, [Next]_vars PROVE Inv'
    OBVIOUS
  <2>1. CASE Next
    BY <2>1, InvStep DEF Next
  <2>2. CASE UNCHANGED vars
    BY <2>2 DEF vars, Inv, TypeInv, TypeOK, CreateBodies, At, ModelA, NoDangling, ScheduleAgrees,
                CarriedHolds, Carried, LiveTx, LiveInst, LiveWallet
  <2>3. QED
    BY <2>1, <2>2
<1>3. QED
  BY <1>1, <1>2, PTL DEF Spec

(* One installment for one transaction, for ever.                           *)
THEOREM ModelAHolds == Spec => []ModelA
BY Invariance, PTL DEF Inv

(* No row outlives the wallet it names, whatever deletion raced with it.    *)
THEOREM NoDanglingHolds == Spec => []NoDangling
BY Invariance, PTL DEF Inv

(* The progress fields of an installment agree, even when payments overwrite *)
(* each other.                                                               *)
THEOREM ScheduleAgreesHolds == Spec => []ScheduleAgrees
BY Invariance, PTL DEF Inv

(* What the commits rely on without reading it again stays true between a   *)
(* request's reads and its commit, whatever commits in between.             *)
THEOREM ReadsStayGood == Spec => []CarriedHolds
BY Invariance, PTL DEF Inv

-----------------------------------------------------------------------------
(* Exact reversal.                                                          *)

(* The effect of a row that is no installment does not look at one.         *)
LEMMA EffectOfRegular ==
  ASSUME NEW x, ~x.isInstallment, NEW i, NEW j, NEW w
  PROVE  EffectOn(InputFrom(x, i), w) = EffectOn(InputFrom(x, j), w)
BY DEF EffectOn, SourceDelta, HasDestination, InputFrom

LEMMA EffectOfTxType ==
  ASSUME Inv, NEW t \in Txs, NEW w
  PROVE  EffectOfTx(t, w) \in Int
BY EffectType DEF EffectOfTx, StoredEffect, Inv, TypeInv, TypeOK

(* A commit that changes one row t, and the balances by f, is exact when f   *)
(* is the change of t's effect.                                              *)
LEMMA OneRowExact ==
  ASSUME Inv, Inv', NEW f \in [Wallets -> Int], Apply(f), NEW t \in Txs,
         \A u \in Txs \ {t} : row'[u] = row[u]
                              /\ inst'[u].st = inst[u].st /\ inst'[u].grandTotal = inst[u].grandTotal,
         \A w \in Wallets : EffectOfTx(t, w)' = EffectOfTx(t, w) + f[w]
  PROVE  ExactStep
<1> SUFFICES ASSUME NEW w \in Wallets, LiveWallet(w), LiveWallet(w)'
             PROVE  /\ wallet'[w].balance - wallet[w].balance = EffectOfTx(t, w)' - EffectOfTx(t, w)
                    /\ \A u \in Txs \ {t} : EffectOfTx(u, w)' = EffectOfTx(u, w)
  BY DEF ExactStep
<1>1. wallet'[w].balance = wallet[w].balance + f[w] /\ wallet[w].balance \in Int
  BY ApplyType DEF Inv, TypeInv, TypeOK, WalletRows
<1>2. wallet'[w].balance - wallet[w].balance = EffectOfTx(t, w)' - EffectOfTx(t, w)
  BY <1>1, EffectOfTxType
<1>3. \A u \in Txs \ {t} : EffectOfTx(u, w)' = EffectOfTx(u, w)
  BY DEF EffectOfTx, StoredEffect, InputFrom, LiveTx
<1>4. QED
  BY <1>2, <1>3

(* A step that leaves balances and effects alone is exact.                  *)
LEMMA NothingMovedExact ==
  ASSUME \A w \in Wallets : LiveWallet(w) /\ LiveWallet(w)' =>
           /\ wallet'[w].balance = wallet[w].balance
           /\ \A u \in Txs : EffectOfTx(u, w)' = EffectOfTx(u, w),
         Inv
  PROVE  ExactStep
<1>1. 1 \in Txs
  BY LedgerAssumption DEF Txs
<1>2. \A w \in Wallets : wallet[w].balance \in Int /\ EffectOfTx(1, w) \in Int
  BY <1>1, EffectOfTxType DEF Inv, TypeInv, TypeOK, WalletRows
<1>3. QED
  BY <1>1, <1>2 DEF ExactStep

LEMMA CreateRegularExact ==
  ASSUME Inv, Inv', NEW r \in Reqs, CreateRegular(r) PROVE ExactStep
<1> DEFINE x == NewTx(req[r].in)
           f == Deltas(InputFrom(x, FreeInst))
<1>1. PICK t \in Txs : IsNext(t) /\ row' = [row EXCEPT ![t] = x]
  BY DEF CreateRegular
<1>2. Apply(f) /\ inst' = inst
  BY DEF CreateRegular
<1>3. row \in [Txs -> TxRows] /\ row' \in [Txs -> TxRows] /\ ~LiveTx(t)
  BY <1>1 DEF IsNext, LiveTx, Inv, TypeInv, TypeOK
<1>4. row'[t] = x /\ x \in TxRows /\ \A u \in Txs \ {t} : row'[u] = row[u]
  BY <1>1, <1>3
<1>5. x.st = "live" /\ ~x.isInstallment
  BY DEF NewTx
<1>6. f \in [Wallets -> Int] /\ \A w \in Wallets : f[w] = EffectOn(InputFrom(x, FreeInst), w)
  BY <1>4, Blank, DeltasType DEF Deltas
<1>7. ASSUME NEW w \in Wallets
      PROVE  EffectOfTx(t, w)' = EffectOfTx(t, w) + f[w]
  <2>1. EffectOfTx(t, w) = 0
    BY <1>3 DEF EffectOfTx
  <2>2. EffectOfTx(t, w)' = EffectOn(InputFrom(x, inst[t]), w)
    BY <1>2, <1>4, <1>5 DEF EffectOfTx, StoredEffect, LiveTx
  <2>3. EffectOfTx(t, w)' = f[w]
    BY <1>5, <1>6, <2>2, EffectOfRegular
  <2>4. QED
    BY <1>6, <2>1, <2>3
<1> HIDE DEF x, f
<1>8. QED
  BY <1>2, <1>4, <1>6, <1>7, OneRowExact

LEMMA CreateInstallmentExact ==
  ASSUME Inv, Inv', NEW r \in Reqs, CreateInstallment(r) PROVE ExactStep
<1> DEFINE i == NewInst(req[r].in)
           x == [NewTx(req[r].in) EXCEPT !.amount = i.monthly, !.isInstallment = TRUE]
           f == Debt(i)
<1>1. PICK t \in Txs : IsNext(t) /\ row' = [row EXCEPT ![t] = x] /\ inst' = [inst EXCEPT ![t] = i]
  BY DEF CreateInstallment
<1>2. Apply(f)
  BY DEF CreateInstallment
<1>3. /\ row \in [Txs -> TxRows] /\ row' \in [Txs -> TxRows] /\ ~LiveTx(t)
      /\ inst \in [Txs -> InstRows] /\ inst' \in [Txs -> InstRows]
  BY <1>1 DEF IsNext, LiveTx, Inv, TypeInv, TypeOK
<1>4. /\ row'[t] = x /\ x \in TxRows /\ \A u \in Txs \ {t} : row'[u] = row[u]
      /\ inst'[t] = i /\ i \in InstRows /\ \A u \in Txs \ {t} : inst'[u] = inst[u]
  BY <1>1, <1>3
<1>5. /\ x.st = "live" /\ x.isInstallment /\ x.wallet = i.wallet /\ i.st = "live"
      /\ i.grandTotal \in Nat
  BY <1>4 DEF NewTx, NewInst, InstRows
<1>6. f \in [Wallets -> Int] /\ \A w \in Wallets : f[w] = EffectOn(InputFrom(x, i), w)
  <2>1. \A w \in Wallets : f[w] = IF w = i.wallet THEN -i.grandTotal ELSE 0
    BY DEF Debt
  <2>2. InputFrom(x, i).isInstallment /\ InputFrom(x, i).wallet = i.wallet
        /\ InputFrom(x, i).grandTotal = i.grandTotal
    BY <1>5 DEF InputFrom
  <2>3. \A w \in Wallets : EffectOn(InputFrom(x, i), w) = IF w = i.wallet THEN -i.grandTotal ELSE 0
    BY <1>5, <2>2 DEF EffectOn, SourceDelta, HasDestination
  <2>4. QED
    BY <1>4, <2>1, <2>3, DebtType
<1> HIDE DEF x, i, f
<1>7. ASSUME NEW w \in Wallets
      PROVE  EffectOfTx(t, w)' = EffectOfTx(t, w) + f[w]
  BY <1>3, <1>4, <1>5, <1>6 DEF EffectOfTx, StoredEffect, LiveTx
<1>8. QED
  BY <1>2, <1>4, <1>6, <1>7, OneRowExact

(* A row read and still stored as it was read is reversed exactly.           *)
LEMMA NoRowLapse ==
  ASSUME NEW q, lapses' = lapses \cup RowLapse(q), lapses' \cap Drifts = {}
  PROVE  StoredEffect(q.tx) = ReadEffect(q)
BY DEF RowLapse, Drifts

LEMMA UpdateCommitExact ==
  ASSUME Inv, Inv', NEW r \in Reqs, UpdateCommit(r), lapses' \cap Drifts = {} PROVE ExactStep
<1> PICK q \in Requests : q = req[r]
  BY DEF Inv, TypeInv, TypeOK
<1> PICK t \in Txs : t = q.tx
  BY DEF Requests
<1> DEFINE x == UpdatedTx(q, row[t])
           f == [w \in Wallets |-> ReverseOn(ReadEffect(q), w) + EffectOn(NewEffect(q), w)]
<1>1. /\ At(r, "update", "checked") /\ UpdateCommits(q) /\ inst' = inst
      /\ row' = [row EXCEPT ![t] = x] /\ Apply(f) /\ lapses' = lapses \cup RowLapse(q)
  BY DEF UpdateCommit
<1>2. row \in [Txs -> TxRows] /\ row[t] \in TxRows /\ inst[t] \in InstRows
  BY DEF Inv, TypeInv, TypeOK
<1>3. row'[t] = x /\ \A u \in Txs \ {t} : row'[u] = row[u]
  BY <1>1, <1>2
<1>4. LiveTx(t) /\ row[t].isInstallment = FALSE
  BY <1>1, <1>2 DEF UpdateCommits, At, Inv, CarriedHolds, Carried, TxRows
<1>5. StoredEffect(t) = ReadEffect(q)
  BY <1>1, NoRowLapse
<1>6. /\ row[t].type = q.row.type /\ row[t].amount = q.row.amount
      /\ row[t].wallet = q.row.wallet
  BY <1>5 DEF StoredEffect, ReadEffect, InputFrom
<1>7. /\ x.type = NewType(q) /\ x.amount = NewAmount(q) /\ x.wallet = NewWallet(q)
      /\ x.to = NewTo(q) /\ x.isInstallment = FALSE /\ x.st = "live"
  BY <1>4, <1>6 DEF UpdatedTx, NewType, NewAmount, NewWallet, LiveTx
<1>8. f \in [Wallets -> Int]
  BY UpdateDeltasType
<1>9. ASSUME NEW w \in Wallets
      PROVE  EffectOfTx(t, w)' = EffectOfTx(t, w) + f[w]
  <2>1. EffectOfTx(t, w) = EffectOn(ReadEffect(q), w)
    BY <1>4, <1>5 DEF EffectOfTx
  <2>2. EffectOfTx(t, w)' = EffectOn(InputFrom(x, inst[t]), w)
    BY <1>1, <1>3, <1>7 DEF EffectOfTx, StoredEffect, LiveTx
  <2>3. EffectOn(InputFrom(x, inst[t]), w) = EffectOn(NewEffect(q), w)
    BY <1>7 DEF EffectOn, SourceDelta, HasDestination, InputFrom, NewEffect
  <2>4. EffectOn(ReadEffect(q), w) \in Int /\ EffectOn(NewEffect(q), w) \in Int
    BY <1>2, <1>5, EffectType, NewEffectType DEF StoredEffect
  <2>5. f[w] = -EffectOn(ReadEffect(q), w) + EffectOn(NewEffect(q), w)
    BY DEF ReverseOn
  <2>6. QED
    BY <2>1, <2>2, <2>3, <2>4, <2>5
<1> HIDE DEF x, f
<1>10. QED
  BY <1>1, <1>3, <1>8, <1>9, OneRowExact

LEMMA DeleteCommitExact ==
  ASSUME Inv, Inv', NEW r \in Reqs, DeleteCommit(r), lapses' \cap Drifts = {} PROVE ExactStep
<1> PICK q \in Requests : q = req[r]
  BY DEF Inv, TypeInv, TypeOK
<1> PICK t \in Txs : t = q.tx
  BY DEF Requests
<1> DEFINE f == Reversal(ReadEffect(q))
<1>1. /\ DeleteCommits(q) /\ row' = [row EXCEPT ![t] = GoneTx] /\ Apply(f)
      /\ inst' = IF q.row.isInstallment THEN [inst EXCEPT ![t] = GoneInst] ELSE inst
      /\ lapses' = lapses \cup RowLapse(q)
  BY DEF DeleteCommit
<1>2. row \in [Txs -> TxRows] /\ inst \in [Txs -> InstRows] /\ q.row \in TxRows /\ q.inst \in InstRows
  BY DEF Inv, TypeInv, TypeOK, Requests
<1>3. /\ LiveTx(t) /\ LiveTx(t)' = FALSE
      /\ \A u \in Txs \ {t} : row'[u] = row[u] /\ inst'[u] = inst[u]
  BY <1>1, <1>2 DEF DeleteCommits, LiveTx, GoneTx, FreeTx
<1>4. StoredEffect(t) = ReadEffect(q)
  BY <1>1, NoRowLapse
<1>5. f \in [Wallets -> Int] /\ \A w \in Wallets : f[w] = -EffectOn(ReadEffect(q), w)
  BY <1>2, DeltasType DEF ReadEffect, Reversal, ReverseOn
<1>6. ASSUME NEW w \in Wallets
      PROVE  EffectOfTx(t, w)' = EffectOfTx(t, w) + f[w]
  <2>1. EffectOfTx(t, w) = EffectOn(ReadEffect(q), w) /\ EffectOfTx(t, w)' = 0
    BY <1>3, <1>4 DEF EffectOfTx
  <2>2. EffectOfTx(t, w) \in Int
    BY EffectOfTxType
  <2>3. QED
    BY <1>5, <2>1, <2>2
<1> HIDE DEF f
<1>7. QED
  BY <1>1, <1>3, <1>5, <1>6, OneRowExact

LEMMA PayCommitExact ==
  ASSUME Inv, Inv', NEW r \in Reqs, PayCommit(r) PROVE ExactStep
<1> PICK q \in Requests : q = req[r]
  BY DEF Inv, TypeInv, TypeOK
<1> PICK i \in Txs : i = q.tx
  BY DEF Requests
<1> DEFINE x == PaymentTx(q)
           f == Deltas(InputFrom(x, FreeInst))
<1>1. PICK t \in Txs : IsNext(t) /\ row' = [row EXCEPT ![t] = x]
  BY DEF PayCommit
<1>2. /\ At(r, "pay", "checked") /\ PayCommits(q) /\ Apply(f)
      /\ inst' = [inst EXCEPT ![i] = Advanced(q.inst)]
  BY DEF PayCommit
<1>3. row \in [Txs -> TxRows] /\ inst \in [Txs -> InstRows] /\ x \in TxRows
  BY PaymentTxType DEF Inv, TypeInv, TypeOK
<1>4. /\ row'[t] = x /\ \A u \in Txs \ {t} : row'[u] = row[u]
      /\ inst'[i] = Advanced(q.inst) /\ \A u \in Txs \ {i} : inst'[u] = inst[u]
  BY <1>1, <1>2, <1>3
<1>5. SameTerms(inst[i], q.inst)
  BY <1>2 DEF PayCommits, At, Inv, CarriedHolds, Carried
<1>6. \A u \in Txs : inst'[u].st = inst[u].st /\ inst'[u].grandTotal = inst[u].grandTotal
  BY <1>4, <1>5 DEF SameTerms, Advanced
<1>7. ~LiveTx(t) /\ x.st = "live" /\ ~x.isInstallment
  BY <1>1 DEF IsNext, LiveTx, PaymentTx
<1>8. f \in [Wallets -> Int] /\ \A w \in Wallets : f[w] = EffectOn(InputFrom(x, FreeInst), w)
  BY <1>3, Blank, DeltasType DEF Deltas
<1> HIDE DEF x, f
<1>9. ASSUME NEW w \in Wallets
      PROVE  EffectOfTx(t, w)' = EffectOfTx(t, w) + f[w]
  <2>1. EffectOfTx(t, w) = 0
    BY <1>7 DEF EffectOfTx
  <2>2. PICK j : j = inst'[t]
    OBVIOUS
  <2>3. EffectOfTx(t, w)' = EffectOn(InputFrom(x, j), w)
    BY <1>4, <1>7, <2>2 DEF EffectOfTx, StoredEffect, LiveTx
  <2>4. EffectOfTx(t, w)' = f[w]
    BY <1>7, <1>8, <2>3, EffectOfRegular
  <2>5. QED
    BY <1>8, <2>1, <2>4
<1>10. QED
  BY <1>2, <1>4, <1>6, <1>8, <1>9, OneRowExact

(* Opening a wallet and changing its kind or limit touch no balance that    *)
(* was there before.                                                        *)
LEMMA WalletWriteExact ==
  ASSUME Inv, NEW r \in Reqs, WalletCreate(r) \/ WalletUpdateCommit(r) PROVE ExactStep
<1>1. row' = row /\ inst' = inst
  BY DEF WalletCreate, WalletUpdateCommit
<1>2. \A u \in Txs, w \in Wallets : EffectOfTx(u, w)' = EffectOfTx(u, w)
  BY <1>1 DEF EffectOfTx, StoredEffect, LiveTx
<1>3. ASSUME NEW w \in Wallets, LiveWallet(w)
      PROVE  wallet'[w].balance = wallet[w].balance
  <2>1. wallet \in [Wallets -> WalletRows] /\ wallet[w].st = "live"
    BY <1>3 DEF Inv, TypeInv, TypeOK, LiveWallet
  <2>2. CASE WalletCreate(r)
    BY <2>1, <2>2 DEF WalletCreate
  <2>3. CASE WalletUpdateCommit(r)
    BY <2>1, <2>3 DEF WalletUpdateCommit, WalletRows
  <2>4. QED
    BY <2>2, <2>3
<1>4. QED
  BY <1>2, <1>3, NothingMovedExact

(* With no transfer on the wallet, the cascade removes only rows that moved *)
(* no money of any other wallet.                                            *)
LEMMA WalletDeleteExact ==
  ASSUME Inv, NEW r \in Reqs, WalletDeleteCommit(r), lapses' \cap Drifts = {} PROVE ExactStep
<1> PICK w \in Wallets : w = req[r].wallet
  BY DEF Inv, TypeInv, TypeOK, Requests
<1>1. /\ wallet' = [wallet EXCEPT ![w] = GoneWallet]
      /\ row' = [t \in Txs |->
           IF LiveTx(t) /\ row[t].wallet = w THEN GoneTx
           ELSE IF LiveTx(t) /\ row[t].to = w THEN [row[t] EXCEPT !.to = NoWallet] ELSE row[t]]
      /\ inst' = [t \in Txs |-> IF LiveInst(t) /\ inst[t].wallet = w THEN GoneInst ELSE inst[t]]
  BY DEF WalletDeleteCommit
<1>2. ~OnTransfer(w)
  BY DEF WalletDeleteCommit, Drifts
<1>3. wallet \in [Wallets -> WalletRows] /\ row \in [Txs -> TxRows] /\ inst \in [Txs -> InstRows]
  BY DEF Inv, TypeInv, TypeOK
<1>4. \A v \in Wallets : LiveWallet(v)' => v # w /\ wallet'[v] = wallet[v]
  BY <1>1, <1>3 DEF LiveWallet, GoneWallet
<1>5. ASSUME NEW v \in Wallets, v # w, NEW t \in Txs
      PROVE  EffectOfTx(t, v)' = EffectOfTx(t, v)
  <2>1. row[t] \in TxRows /\ inst[t] \in InstRows
    BY <1>3
  <2>2. LiveTx(t) => (row[t].type = "TRANSFER" => row[t].wallet # w /\ row[t].to # w)
    BY <1>2 DEF OnTransfer
  <2>3. CASE LiveTx(t) /\ row[t].wallet = w
    <3>1. LiveTx(t)' = FALSE
      BY <1>1, <2>3 DEF LiveTx, GoneTx, FreeTx
    <3>2. EffectOn(StoredEffect(t), v) = 0
      BY <1>5, <2>2, <2>3 DEF EffectOn, HasDestination, StoredEffect, InputFrom
    <3>3. QED
      BY <2>3, <3>1, <3>2 DEF EffectOfTx
  <2>4. CASE LiveTx(t) /\ row[t].wallet # w /\ row[t].to = w
    <3>1. row'[t] = [row[t] EXCEPT !.to = NoWallet] /\ row[t].type # "TRANSFER"
      BY <1>1, <2>2, <2>4
    <3>2. /\ row'[t].st = row[t].st /\ row'[t].type = row[t].type /\ row'[t].amount = row[t].amount
          /\ row'[t].wallet = row[t].wallet /\ row'[t].isInstallment = row[t].isInstallment
      BY <2>1, <3>1 DEF TxRows
    <3>3. LiveInst(t) => inst[t].wallet # w
      BY <2>4 DEF Inv, ModelA
    <3>4. inst'[t] = inst[t]
      BY <1>1, <3>3
    <3>5. LiveTx(t)' = LiveTx(t)
      BY <3>2 DEF LiveTx
    <3>6. EffectOn(InputFrom(row'[t], inst'[t]), v) = EffectOn(InputFrom(row[t], inst[t]), v)
      BY <3>1, <3>2, <3>4 DEF EffectOn, SourceDelta, HasDestination, InputFrom
    <3>7. QED
      BY <3>5, <3>6 DEF EffectOfTx, StoredEffect
  <2>5. CASE LiveTx(t) /\ row[t].wallet # w /\ row[t].to # w
    <3>1. row'[t] = row[t]
      BY <1>1, <2>5
    <3>2. LiveInst(t) => inst[t].wallet # w
      BY <2>5 DEF Inv, ModelA
    <3>3. inst'[t] = inst[t]
      BY <1>1, <3>2
    <3>4. QED
      BY <3>1, <3>3 DEF EffectOfTx, StoredEffect, LiveTx
  <2>6. CASE ~LiveTx(t)
    BY <1>1, <2>6 DEF EffectOfTx, LiveTx
  <2>7. QED
    BY <2>3, <2>4, <2>5, <2>6
<1>6. QED
  BY <1>4, <1>5, NothingMovedExact

(* Reads, refusals, rollbacks and stuttering write nothing.                 *)
LEMMA SilentExact ==
  ASSUME Inv, UNCHANGED <<wallet, row, inst>> PROVE ExactStep
<1>1. \A u \in Txs, w \in Wallets : EffectOfTx(u, w)' = EffectOfTx(u, w)
  BY DEF EffectOfTx, StoredEffect, LiveTx
<1>2. QED
  BY <1>1, NothingMovedExact

LEMMA StepExact ==
  ASSUME Inv, Inv', NEW r \in Reqs, Step(r), lapses' \cap Drifts = {} PROVE ExactStep
<1>1. CASE CreateRegular(r)
  BY <1>1, CreateRegularExact
<1>2. CASE CreateInstallment(r)
  BY <1>2, CreateInstallmentExact
<1>3. CASE UpdateCommit(r)
  BY <1>3, UpdateCommitExact
<1>4. CASE DeleteCommit(r)
  BY <1>4, DeleteCommitExact
<1>5. CASE PayCommit(r)
  BY <1>5, PayCommitExact
<1>6. CASE WalletCreate(r) \/ WalletUpdateCommit(r)
  BY <1>6, WalletWriteExact
<1>7. CASE WalletDeleteCommit(r)
  BY <1>7, WalletDeleteExact
<1>8. CASE CreateCheck(r) \/ UpdateLoad(r) \/ UpdateCheck(r) \/ DeleteLoad(r) \/ PayLoad(r)
           \/ PayCheck(r) \/ WalletUpdateLoad(r) \/ WalletDeleteGate1(r) \/ WalletDeleteGate2(r)
  BY <1>8, SilentExact DEF CreateCheck, UpdateLoad, UpdateCheck, DeleteLoad, PayLoad, PayCheck,
                           WalletUpdateLoad, WalletDeleteGate1, WalletDeleteGate2
<1>9. CASE Refuse(r) \/ Rollback(r)
  BY <1>9, SilentExact DEF Refuse, Rollback
<1>10. QED
  BY <1>1, <1>2, <1>3, <1>4, <1>5, <1>6, <1>7, <1>8, <1>9 DEF Step

(* Every step moves each balance by exactly what it does to the effect of   *)
(* one row, as long as no commit acted on a stale read of a row or of the   *)
(* transfer gate.                                                           *)
THEOREM ReversalIsExact == Spec => ExactReversal
<1>1. Inv /\ Inv' /\ [Next]_vars => [lapses' \cap Drifts = {} => ExactStep]_vars
  <2> SUFFICES ASSUME Inv, Inv', [Next]_vars, lapses' \cap Drifts = {}
               PROVE  ExactStep
    OBVIOUS
  <2>1. CASE Next
    BY <2>1, StepExact DEF Next
  <2>2. CASE UNCHANGED vars
    BY <2>2, SilentExact DEF vars
  <2>3. QED
    BY <2>1, <2>2
<1>2. QED
  BY <1>1, Invariance, PTL DEF Spec, ExactReversal

=============================================================================
