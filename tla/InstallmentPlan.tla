-------------------------- MODULE InstallmentPlan --------------------------
(***************************************************************************)
(* The arithmetic of a bill: src/domain/installment.ts.  Money is counted  *)
(* in its smallest unit (cents, the scale of the Decimal(15,2) columns), a *)
(* rate in percent per month.                                              *)
(***************************************************************************)
EXTENDS Integers

(* toMoney of the quotient n / d of naturals: round half up to a whole unit *)
RoundedQuotient(n, d) == (2 * n + d) \div (2 * d)

TotalInterest(principal, rate, months) ==
  RoundedQuotient(principal * rate * months, 100)

GrandTotal(principal, rate, months) ==
  principal + TotalInterest(principal, rate, months)

MonthlyAmount(grandTotal, months) == RoundedQuotient(grandTotal, months)

(* computeFinalMonthlyAmount: what the rounded monthly amounts left behind *)
FinalMonthlyAmount(grandTotal, monthly, months) ==
  grandTotal - monthly * (months - 1)

(* Mutant: the last term costs what the others do. *)
MonthlyToTheEnd(grandTotal, monthly, months, paid) == monthly

(* What payInstallment expects for the term after `paid` settled ones. *)
ExpectedAmount(grandTotal, monthly, months, paid) ==
  IF paid + 1 >= months THEN FinalMonthlyAmount(grandTotal, monthly, months)
  ELSE monthly
=============================================================================
