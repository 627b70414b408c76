-------------------------- MODULE BillingCalendar --------------------------
(***************************************************************************)
(* Calendar dates as the code handles them (src/domain/billingCycle.ts).   *)
(* An ISO day '2028-02-29' is the number 20280229: the code compares the   *)
(* strings, and the numbers compare alike.                                 *)
(***************************************************************************)
EXTENDS Integers

NoDate == 0

Year(date)  == date \div 10000
Month(date) == (date \div 100) % 100
Day(date)   == date % 100

IsLeap(year) == year % 4 = 0 /\ (year % 100 # 0 \/ year % 400 = 0)

DaysIn(year, month) ==
  IF month = 2 THEN (IF IsLeap(year) THEN 29 ELSE 28)
  ELSE IF month \in {4, 6, 9, 11} THEN 30 ELSE 31

(* Mutant: the day is taken as it is. *)
UnclampedDay(year, month, day) == 10000 * year + 100 * month + day

(* The day of a month, or its last one where the month is shorter. *)
ClampDay(year, month, day) ==
  10000 * year + 100 * month + (IF day <= DaysIn(year, month) THEN day ELSE DaysIn(year, month))

(* Months counted from year 0; the twelve of a year are 0 to 11. *)
MonthIndex(date) == 12 * Year(date) + Month(date) - 1
InMonth(index, day) == ClampDay(index \div 12, (index % 12) + 1, day)

AddBillingMonth(date, months) == InMonth(MonthIndex(date) + months, Day(date))

(* Mutant: the occurrence of today is taken for past. *)
NextAfterToday(start, end, today) ==
  LET months == MonthIndex(today) - MonthIndex(start)
      here   == AddBillingMonth(start, months)
      next   == IF start > today THEN start
                ELSE IF here > today THEN here ELSE AddBillingMonth(start, months + 1)
  IN IF end # NoDate /\ next > end THEN NoDate ELSE next

(* Mutant: the recurrence never ends. *)
NextForEver(start, end, today) ==
  LET months == MonthIndex(today) - MonthIndex(start)
      here   == AddBillingMonth(start, months)
  IN IF start > today THEN start
     ELSE IF here < today THEN AddBillingMonth(start, months + 1) ELSE here

(* The first monthly occurrence not before today, NoDate once past `end`.   *)
NextMonthlyOccurrence(start, end, today) ==
  LET months == MonthIndex(today) - MonthIndex(start)
      here   == AddBillingMonth(start, months)
      next   == IF start > today THEN start
                ELSE IF here < today THEN AddBillingMonth(start, months + 1) ELSE here
  IN IF end # NoDate /\ next > end THEN NoDate ELSE next

(* Mutant: a purchase on the cut-off day misses the statement. *)
DueBeforeCutoff(date, cutoff, dueDay) ==
  InMonth(MonthIndex(date) + (IF Day(date) < cutoff THEN 1 ELSE 2), dueDay)

(* A purchase up to the cut-off falls due next month, a later one the month *)
(* after.                                                                   *)
CalculateFirstDueDate(date, cutoff, dueDay) ==
  LET closing == Day(ClampDay(Year(date), Month(date), cutoff))
  IN InMonth(MonthIndex(date) + (IF Day(date) <= closing THEN 1 ELSE 2), dueDay)

(* subtractDays of the reminder engine; no offset is longer than a month.   *)
SubtractDays(date, days) ==
  IF Day(date) > days THEN date - days
  ELSE LET before == MonthIndex(date) - 1
       IN InMonth(before, 31) + Day(date) - days

(* The date is one of the calendar. *)
IsDate(date) ==
  Month(date) \in 1..12 /\ Day(date) \in 1..DaysIn(Year(date), Month(date))

NextDay(date) ==
  IF Day(date) < DaysIn(Year(date), Month(date)) THEN date + 1
  ELSE InMonth(MonthIndex(date) + 1, 1)
=============================================================================
