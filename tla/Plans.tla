------------------------------- MODULE Plans -------------------------------
(***************************************************************************)
(* A bill from its purchase to its last term, in cents and days: the plan  *)
(* of domain/installment.ts, the first due date of domain/billingCycle.ts  *)
(* and payInstallment term after term.  Module Ledger has the same steps   *)
(* amid other requests, with due dates counted in months; this one has the *)
(* rounding and the calendar.                                              *)
(***************************************************************************)
EXTENDS InstallmentPlan, BillingCalendar

CONSTANT Purchases   \* principal, rate, months, day, and the cut-off and due day of the card

ASSUME PurchasesAssumption ==
  \A x \in Purchases :
    /\ x.principal \in Nat \ {0} /\ x.rate \in 0..100 /\ x.months \in 1..120
    /\ x.day \in Nat /\ IsDate(x.day) /\ x.cutoff \in 1..31 /\ x.dueDay \in 1..31

VARIABLE
  plan   \* the installment; total, of no effect, is the sum of its payments

NoPlan == [status |-> "NONE", grandTotal |-> 0, monthly |-> 0, months |-> 1, paid |-> 0,
           total |-> 0, first |-> NoDate, due |-> NoDate]

(* The installment branch of createTransaction. *)
Purchase(x) ==
  LET grand == GrandTotal(x.principal, x.rate, x.months)
      first == CalculateFirstDueDate(x.day, x.cutoff, x.dueDay)
  IN /\ plan = NoPlan
     /\ plan' = [status |-> "ACTIVE", grandTotal |-> grand, monthly |-> MonthlyAmount(grand, x.months),
                 months |-> x.months, paid |-> 0, total |-> 0, first |-> first, due |-> first]

NextAmount == ExpectedAmount(plan.grandTotal, plan.monthly, plan.months, plan.paid)

(* payInstallment: an amount that is not positive is refused. *)
PayTerm ==
  /\ plan.status = "ACTIVE" /\ NextAmount > 0
  /\ LET final == plan.paid + 1 >= plan.months
     IN plan' = [plan EXCEPT !.paid = @ + 1, !.total = @ + NextAmount,
                             !.status = IF final THEN "SETTLED" ELSE "ACTIVE",
                             !.due = IF final THEN @ ELSE AddBillingMonth(@, 1)]

PlansInit == plan = NoPlan
PlansNext == (\E x \in Purchases : Purchase(x)) \/ PayTerm
PlansSpec == PlansInit /\ [][PlansNext]_plan
-----------------------------------------------------------------------------
PlansTypeOK ==
  /\ plan.status \in {"NONE", "ACTIVE", "SETTLED"} /\ plan.paid \in 0..plan.months
  /\ plan.grandTotal \in Nat /\ plan.monthly \in Nat /\ plan.total \in Nat
  /\ plan # NoPlan => IsDate(plan.first) /\ IsDate(plan.due)

(* The days of the months from the first due date to the next. *)
LengthsPassed ==
  {LET month == InMonth(m, 31) IN Day(month) : m \in MonthIndex(plan.first) .. MonthIndex(plan.due)}

(* "The payment schedule sums to grandTotal exactly". *)
PaidExactly == plan.status = "SETTLED" => plan.total = plan.grandTotal

(* A bill can only get stuck -- its last term, or every term, costs nothing *)
(* or less and is refused -- if it is of a few cents for its term.          *)
StuckOnlyIfTiny ==
  plan.status = "ACTIVE" /\ NextAmount <= 0 => 2 * plan.grandTotal <= plan.months * (plan.months - 1)

(* No month is skipped or paid twice.  The due day is the first one until a *)
(* shorter month comes, and stays what that month made of it.               *)
DueMonthly ==
  /\ LET unpaid == IF plan.status = "ACTIVE" THEN plan.paid ELSE plan.months - 1
     IN MonthIndex(plan.due) = MonthIndex(plan.first) + unpaid
  /\ Day(plan.due) <= Day(plan.first)
  /\ \A n \in LengthsPassed : Day(plan.due) <= n
  /\ Day(plan.due) = Day(plan.first) \/ Day(plan.due) \in LengthsPassed

(* A bill is paid to the cent and month by month, or is of a few cents and  *)
(* can never be paid to the end.                                            *)
RunsOut == plan # NoPlan => PaidExactly /\ StuckOnlyIfTiny /\ DueMonthly
=============================================================================
