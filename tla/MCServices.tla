----------------------------- MODULE MCServices -----------------------------
(***************************************************************************)
(* Small instances of the components of Services, checked in one run: the  *)
(* initial state picks the component that has traffic, the others wait, so *)
(* the state spaces add up and do not multiply.                            *)
(***************************************************************************)
EXTENDS Services, TLC

CONSTANTS house, car, g1, g2, g3, food, salary, m1, m2, q1, q2, q3, bank, card, p1, p2, p3

VARIABLE part   \* the component that has traffic

instanceVars == <<servicesVars, part>>
-----------------------------------------------------------------------------
Effect(type, amount, w, to) ==
  [type |-> type, amount |-> amount, wallet |-> w, to |-> to, isInstallment |-> FALSE, grandTotal |-> 0]
Bill(amount, grand, w) ==
  [Effect("EXPENSE", amount, w, NoWallet) EXCEPT !.isInstallment = TRUE, !.grandTotal = grand]
Dated(e, cat, date) ==
  [type |-> e.type, amount |-> e.amount, wallet |-> e.wallet, to |-> e.to, cat |-> cat, date |-> date,
   isInstallment |-> e.isInstallment, grandTotal |-> e.grandTotal]
OnBoth(x, y) == (bank :> x) @@ (card :> y)

Entered(e)     == [before |-> NoEffect, after |-> e]
Deleted(e)     == [before |-> e, after |-> NoEffect]
Updated(e, f)  == [before |-> e, after |-> f]

(* An update that turns a transfer round, with two increments on each       *)
(* wallet, a transfer that locks them in the other order; the purchase and  *)
(* the deletion of an installment.                                          *)
TurnedRound == Updated(Effect("TRANSFER", 2, bank, card), Effect("TRANSFER", 1, card, bank))
ThreePostings ==
  (p1 :> TurnedRound) @@ (p2 :> Entered(Effect("TRANSFER", 1, card, bank)))
  @@ (p3 :> Entered(Bill(3, 7, card)))
ThreeEntries ==
  (p1 :> TurnedRound) @@ (p2 :> Deleted(Bill(2, 5, bank))) @@ (p3 :> Entered(Bill(3, 7, card)))
Start == {OnBoth(5, 1)}

(* A transfer without a destination, an installment; an undocumented        *)
(* opening balance on either wallet, or none.                               *)
Legacy     == {Effect("TRANSFER", 4, bank, NoWallet), Bill(2, 5, bank)}
OneOpening == {OnBoth(0, 6)}
Drifts     == {OnBoth(0, 0), OnBoth(3, 0), OnBoth(0, -1)}

(* Rows on both sides of midnight in the reporting zone, at the ends of     *)
(* months and of the seven days, back-dated and dated ahead; a payment from *)
(* a wallet to itself, and a transfer without a destination.                *)
RowsToShow ==
  {Dated(Effect("EXPENSE", 3, bank, NoWallet), food, 2028022916),
   Dated(Effect("EXPENSE", 2, bank, NoWallet), "none", 2028022917),
   Dated(Effect("TRANSFER", 3, bank, NoWallet), "none", 2028022416),
   Dated(Effect("INCOME", 5, bank, NoWallet), "none", 2028030117),
   Dated(Effect("TRANSFER", 4, bank, card), "none", 2028030110),
   Dated(Bill(1, 6, bank), food, 2028013117),
   Dated(Effect("TRANSFER", 1, card, bank), "none", 2028033117),
   Dated(Effect("TRANSFER", 2, bank, bank), "none", 2028022917)}

(* From a cent to round sums, up to and beyond what 12 or 13 terms need,    *)
(* bought around the cut-off and due at the end of months, also of leap     *)
(* years.                                                                   *)
SmallAndLarge ==
  [principal : {1, 7, 66, 67, 78, 79, 1000}, rate : {0, 3}, months : {1, 2, 12, 13},
   day : {20271130, 20281231}, cutoff : {30}, dueDay : {28, 30, 31}]

Init ==
  /\ part \in {"goals", "budgets", "server", "audit", "reports", "plans"}
  /\ ServicesInit
  /\ part # "budgets" => ~user
  /\ part # "server" => pool = 1
  /\ part # "audit" => books.old = {} /\ books.damage = OnBoth(0, 0)
  /\ part # "reports" => now = 2028030111

Next ==
  /\ \/ part = "goals"   /\ GoalsTurn
     \/ part = "budgets" /\ BudgetsTurn
     \/ part = "server"  /\ ServerTurn
     \/ part = "audit"   /\ AuditTurn
     \/ part = "reports" /\ ReportsTurn
     \/ part = "plans"   /\ PlansTurn
  /\ UNCHANGED part

Spec == Init /\ [][Next]_instanceVars /\ ServerFairness
=============================================================================
