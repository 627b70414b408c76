------------------------------ MODULE Reports ------------------------------
(***************************************************************************)
(* What the program shows of its ledger: lists, monthly summary, export,   *)
(* budget usage, net worth and the seven-day sparkline of a wallet         *)
(* (domain/reportingTime.ts, reportingEffect.ts and budget.ts and the      *)
(* query services).  Rows carry instants; months and days are those of the *)
(* reporting zone.                                                         *)
(*                                                                         *)
(* An instant is YYYYMMDDHH in UTC, a day YYYYMMDD (module                 *)
(* BillingCalendar), a month its MonthIndex.                               *)
(***************************************************************************)
EXTENDS BalanceEffect, BillingCalendar, Sums

CONSTANTS
  ZoneHours,    \* the reporting zone is so far ahead of UTC (Asia/Jakarta: 7)
  ReportIds,    \* ids of rows, the bound on creations
  ReportRows,   \* rows that may be entered: effect inputs with cat and date
  Categories,   \* categories with a budget
  BudgetLimit,  \* the amount of each of these budgets
  Nows,         \* the instants at which the user may look
  DebtWallets,  \* CREDIT_CARD, PAYLATER and LOAN
  Watched,      \* the wallet whose sparkline is asked for
  Created       \* when it was created

(* The hour is one of the 24 of a date. *)
IsInstant(t) == IsDate(t \div 100) /\ t % 100 \in 0..23

ASSUME ZoneAssumption ==
  /\ ZoneHours \in 1..23 /\ Created \in Int /\ BudgetLimit \in Int
  /\ Nows \subseteq Int /\ \A t \in Nows : IsInstant(t)

(* Only an expense is an installment.  A transfer may go to its own source  *)
(* (payInstallment after updateWallet has changed the type of a card) or,   *)
(* from before transfers had one, have no destination.                      *)
ASSUME ReportRowsAssumption ==
  /\ IsFiniteSet(Wallets) /\ Watched \in Wallets /\ DebtWallets \subseteq Wallets
  /\ IsFiniteSet(ReportIds) /\ IsFiniteSet(Categories) /\ "none" \notin Categories
  /\ ReportRows \subseteq
       [type : TxTypes, amount : Int, wallet : Wallets, to : Wallets \cup {NoWallet},
        isInstallment : BOOLEAN, grandTotal : Int, cat : Categories \cup {"none"}, date : Int]
  /\ \A x \in ReportRows : IsInstant(x.date) /\ (x.isInstallment => x.type = "EXPENSE")

VARIABLES
  row,     \* transactions table: each id is mapped to its row or to NoRow
  now,     \* the instant of the request
  spark    \* local variables of getWalletSparkline

reportVars == <<row, now, spark>>

NoRow == [type |-> "INCOME", amount |-> 0, wallet |-> Watched, to |-> NoWallet,
          isInstallment |-> FALSE, grandTotal |-> 0, cat |-> "none", date |-> 0]
In(table) == {i \in ReportIds : table[i] # NoRow}
Amounts == [i \in ReportIds |-> row[i].amount]
RowEffects(table, w) == [i \in ReportIds |-> EffectOn(table[i], w)]
-----------------------------------------------------------------------------
(* domain/reportingTime.ts *)

(* calendarDateFromInstant, formatReportingDate *)
LocalDay(t) == IF (t % 100) + ZoneHours >= 24 THEN NextDay(t \div 100) ELSE t \div 100

(* localMidnight: in a zone of constant offset the search for the instant   *)
(* ends with the first correction.                                          *)
LocalMidnight(day) == 100 * SubtractDays(day, 1) + 24 - ZoneHours

(* getReportingDayRange and getReportingMonthRange, half-open *)
DayRange(day) == [start |-> LocalMidnight(day), end |-> LocalMidnight(NextDay(day))]
MonthRange(m) == [start |-> LocalMidnight(InMonth(m, 1)), end |-> LocalMidnight(InMonth(m + 1, 1))]

(* Mutant: both ends of a range belong to it. *)
WithinClosed(t, range) == t >= range.start /\ t <= range.end

Within(t, range) == t >= range.start /\ t < range.end

(* getRollingDayRanges: the first is six days ago, the seventh is today. *)
RollingDay(i) == SubtractDays(LocalDay(now), 7 - i)

(* resolveMonthYear, resolveBudgetPeriod: an absent month or year is like   *)
(* zero, the current one; any other month is clamped to the twelve.         *)
ResolveMonth(month, year) ==
  LET today == LocalDay(now)
      m == IF month = 0 THEN Month(today)
           ELSE IF month < 1 THEN 1 ELSE IF month > 12 THEN 12 ELSE month
      y == IF year = 0 THEN Year(today) ELSE year
  IN 12 * y + m - 1
-----------------------------------------------------------------------------
(* Lists, summary, budgets and export: one query each on a range. *)

(* listTransactions *)
Listed(range) == {i \in In(row) : Within(row[i].date, range)}

(* getSummary: transfers are left out, an installment counts for its        *)
(* monthly amount (getAggregateCashFlowEffect).                             *)
SumOfType(type, range) ==
  Total(Amounts, {i \in Listed(range) : row[i].type = type})

(* getBudgetUsage, listActiveBudgetUsage *)
Spent(c, range) ==
  Total(Amounts, {i \in Listed(range) : row[i].type = "EXPENSE" /\ row[i].cat = c})

(* computeBudgetUsage: percentages are compared unrounded. *)
BudgetStatus(amount, spent, archived) ==
  IF archived THEN "ARCHIVED"
  ELSE IF spent > amount THEN "EXCEEDED"
  ELSE IF spent = amount THEN "REACHED"
  ELSE IF 100 * spent >= 75 * amount THEN "APPROACHING" ELSE "HEALTHY"

(* resolveExportRange: so many months, up to that of the anchor. *)
ExportRange(months, anchor) ==
  LET last == MonthIndex(LocalDay(anchor))
  IN [start |-> MonthRange(last - (months - 1)).start, end |-> MonthRange(last).end]

(* exportFilename: the day of the last instant of the range. *)
LastDayOf(range) == LocalDay(range.end - 1)

(* serializeInstallment: due on a day before today. *)
Overdue(due) == LocalDay(due) < LocalDay(now)
-----------------------------------------------------------------------------
(* Balances and net worth.  A balance is what the ledger makes it (module   *)
(* Ledger): here, of wallets that opened with nothing.                      *)

StoredBalance(w) == Total(RowEffects(row, w), In(row))
Abs(n) == IF n < 0 THEN -n ELSE n

(* calculateNetWorth, for the dashboard and after mutations of wallets *)
TotalAssets == Total([w \in Wallets |-> StoredBalance(w)], Wallets \ DebtWallets)
TotalDebt   == Total([w \in Wallets |-> Abs(StoredBalance(w))], DebtWallets)
NetWorth    == TotalAssets - TotalDebt

(* serializeWallet: what the list of wallets says is owed on one. *)
Outstanding(w) == IF StoredBalance(w) < 0 THEN -StoredBalance(w) ELSE 0
-----------------------------------------------------------------------------
(* getWalletSparkline reads the wallet, takes the time and reads the rows.  *)

(* getWalletReportingEffect *)
ReportedEffect(x, w) ==
  LET amount == IF x.type = "EXPENSE" /\ x.isInstallment THEN x.grandTotal ELSE x.amount
  IN IF x.wallet = w THEN (IF x.type = "INCOME" THEN amount ELSE -amount)
     ELSE IF x.type = "TRANSFER" /\ x.to = w THEN amount ELSE 0

(* had is the table as the wallet was read, of no effect; seen the table as *)
(* the rows were.                                                           *)
NewSpark == [pc |-> "idle", balance |-> 0, had |-> <<>>, seen |-> <<>>]

SparkWallet ==
  /\ spark.pc = "idle"
  /\ spark' = [spark EXCEPT !.pc = "wallet", !.balance = StoredBalance(Watched), !.had = row]
  /\ UNCHANGED <<row, now>>

SparkRows ==
  /\ spark.pc = "wallet"
  /\ spark' = [spark EXCEPT !.pc = "shown", !.seen = row]
  /\ UNCHANGED <<row, now>>

(* Mutant: rows at the very end of a day belong to it. *)
LaterThan(i) ==
  {k \in In(spark.seen) : LET x == spark.seen[k] IN
     /\ x.wallet = Watched \/ x.to = Watched
     /\ x.date >= DayRange(RollingDay(1)).start /\ x.date < DayRange(RollingDay(7)).end
     /\ x.date > IF i = 7 THEN now ELSE DayRange(RollingDay(i)).end}

(* The query of the rows and the walk through them, newest first: those     *)
(* taken off the balance before the close of day i.  The close of today is  *)
(* now.                                                                     *)
TakenOff(i) ==
  {k \in In(spark.seen) : LET x == spark.seen[k] IN
     /\ x.wallet = Watched \/ x.to = Watched
     /\ x.date >= DayRange(RollingDay(1)).start /\ x.date < DayRange(RollingDay(7)).end
     /\ IF i = 7 THEN x.date > now ELSE x.date >= DayRange(RollingDay(i)).end}

Reported == [k \in ReportIds |-> ReportedEffect(spark.seen[k], Watched)]
NoPoint == <<>>
Point(i) ==
  IF DayRange(RollingDay(i)).end <= Created THEN NoPoint
  ELSE <<spark.balance - Total(Reported, TakenOff(i))>>

(* Rows enter and leave the ledger, each with its effect; deleteTransaction *)
(* refuses a transfer without a destination.                                *)
EnterRow ==
  /\ \E i \in ReportIds \ In(row), x \in ReportRows : row' = [row EXCEPT ![i] = x]
  /\ UNCHANGED <<now, spark>>
RemoveRow ==
  /\ \E i \in In(row) : /\ row[i].type = "TRANSFER" => row[i].to # NoWallet
                        /\ row' = [row EXCEPT ![i] = NoRow]
  /\ UNCHANGED <<now, spark>>

ReportsInit == row = [i \in ReportIds |-> NoRow] /\ now \in Nows /\ spark = NewSpark
ReportsNext == spark.pc # "shown" /\ (EnterRow \/ RemoveRow \/ SparkWallet \/ SparkRows)
ReportsSpec == ReportsInit /\ [][ReportsNext]_reportVars
-----------------------------------------------------------------------------
Tables == [ReportIds -> ReportRows \cup {NoRow}]
ReportsTypeOK ==
  /\ row \in Tables /\ now \in Nows
  /\ spark.pc \in {"idle", "wallet", "shown"} /\ spark.balance \in Int
  /\ spark.pc # "idle" => spark.had \in Tables
  /\ spark.pc = "shown" => spark.seen \in Tables

(* The close of day i: the effects of all rows up to its end, or to now. *)
Close(i) ==
  Total(RowEffects(spark.had, Watched),
        {k \in In(spark.had) : LET date == spark.had[k].date IN
           IF i = 7 THEN date <= now ELSE date < DayRange(RollingDay(i)).end})
FromTomorrowOn ==
  Total(RowEffects(spark.had, Watched),
        {k \in In(spark.had) : spark.had[k].date >= DayRange(RollingDay(7)).end})

(* Transfers of the wallet to itself after the close of day i: they move    *)
(* nothing, and the walk takes them for money that went out.                *)
ToItself(i) ==
  Total([k \in ReportIds |-> spark.had[k].amount],
        {k \in In(spark.had) : LET x == spark.had[k] IN
           /\ x.type = "TRANSFER" /\ x.wallet = Watched /\ x.to = Watched
           /\ x.date >= DayRange(RollingDay(1)).start /\ x.date < DayRange(RollingDay(7)).end
           /\ IF i = 7 THEN x.date > now ELSE x.date >= DayRange(RollingDay(i)).end})

(* "That day's end-of-day close", for rows back-dated and dated ahead alike *)
(* and whatever the hour: each point is the close recomputed from the whole *)
(* ledger, unless the rows changed between the two reads.  Contrary to      *)
(* "effects dated in the future are reversed out", every point also carries *)
(* all the effects dated tomorrow or later, and it is no close either where *)
(* a payment went from the wallet to itself.                                *)
SparklineReplays ==
  spark.pc = "shown" /\ spark.had = spark.seen =>
    \A i \in 1..7 :
      \/ Point(i) = NoPoint /\ DayRange(RollingDay(i)).end <= Created
      \/ Point(i) = <<Close(i) + FromTomorrowOn + ToItself(i)>>

(* The months of the reporting zone, for reference: of the rows' own days.  *)
MonthOf(i) == MonthIndex(LocalDay(row[i].date))
InMonths(first, last) == {i \in In(row) : MonthOf(i) \in first..last}
Spending(S, c) ==
  Total(Amounts, {i \in S : row[i].type = "EXPENSE" /\ row[i].cat = c})

(* Views that must tell one story: each row counts in the month of its day  *)
(* in the reporting zone and in no other, for list, summary, budgets and    *)
(* export; budgets add up to the expenses of the summary; a budget is       *)
(* exceeded if the rows listed for it are; the file name ends with the last *)
(* day of the month; a bill due today is not overdue.                       *)
MonthsAgree ==
  LET m == ResolveMonth(0, 0)
      range == MonthRange(m)
  IN /\ \A k \in (m - 2 .. m + 1) \cup {ResolveMonth(month, 0) : month \in {-1, 1, 13}} :
          Listed(MonthRange(k)) = InMonths(k, k)
     /\ Listed(ExportRange(3, now)) = InMonths(m - 2, m)
     /\ NextDay(LastDayOf(ExportRange(3, now))) = InMonth(m + 1, 1)
     /\ LET groups == Categories \cup {"none"}
        IN SumOfType("EXPENSE", range) = Total([c \in groups |-> Spent(c, range)], groups)
     /\ \A c \in Categories :
          BudgetStatus(BudgetLimit, Spent(c, range), FALSE) = "EXCEEDED"
            <=> Spending(InMonths(m, m), c) > BudgetLimit
     /\ \A day \in {RollingDay(6), RollingDay(7)} :
          Overdue(LocalMidnight(day)) <=> day < RollingDay(7)

(* What income and expense add to the money there is; a transfer without a  *)
(* destination takes from it.                                               *)
CashFlow == [i \in ReportIds |-> IF HasDestination(row[i]) THEN 0 ELSE SourceDelta(row[i])]

(* Net worth moves with income and expense and never with a transfer from   *)
(* wallet to wallet, and its debt is what the list of wallets says is owed  *)
(* -- but for a debt wallet that has been overpaid, whose credit counts as  *)
(* a debt, although "outstanding debt = absolute value of the negative      *)
(* balance".                                                                *)
WorthAgrees ==
  LET credits  == {w \in DebtWallets : StoredBalance(w) > 0}
      overpaid == Total([w \in Wallets |-> StoredBalance(w)], credits)
  IN /\ TotalDebt = Total([w \in Wallets |-> Outstanding(w)], DebtWallets) + overpaid
     /\ NetWorth + 2 * overpaid = Total(CashFlow, In(row))

ViewsAgree == MonthsAgree /\ WorthAgrees
=============================================================================
