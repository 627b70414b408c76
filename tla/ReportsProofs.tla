---------------------------- MODULE ReportsProofs ----------------------------
(***************************************************************************)
(* What is computed from the rows of the ledger: the lists, summaries and  *)
(* sparklines of module Reports, for any zone, rows and instants, and what *)
(* an audit that runs beside the program (module Reconcile) may be trusted *)
(* to say, for any rows, wallets, drifts and order of its queries.         *)
(***************************************************************************)
EXTENDS Reports, Reconcile, CalendarProofs, SumProofs

-----------------------------------------------------------------------------
(* Instants and the days of the reporting zone. *)

LEMMA InstantParts ==
  ASSUME NEW t \in Int
  PROVE  t \div 100 \in Int /\ t % 100 \in 0..99 /\ t = 100 * (t \div 100) + (t % 100)
OBVIOUS

LEMMA InstantOf ==
  ASSUME NEW n \in Int, NEW h \in 0..99
  PROVE  100 * n + h \in Int /\ (100 * n + h) \div 100 = n /\ (100 * n + h) % 100 = h
OBVIOUS

(* The day after a date is later, and the day before it is the one before   *)
(* that.                                                                    *)
LEMMA NextIsLater ==
  ASSUME NEW d \in Int, IsDate(d)
  PROVE  d < NextDay(d)
<1>1. MonthIndex(d) \in Int /\ Day(d) \in Int
  BY DateIs
<1>2. PICK n : n = NextDay(d)
  OBVIOUS
<1>3. /\ n \in Int /\ IsDate(n)
      /\ \/ MonthIndex(n) = MonthIndex(d) /\ Day(n) = Day(d) + 1
         \/ MonthIndex(n) = MonthIndex(d) + 1
  BY <1>2, NextDayIs
<1>4. QED
  BY <1>1, <1>2, <1>3, DateOrder

LEMMA DayBefore ==
  ASSUME NEW d \in Int, IsDate(d)
  PROVE  /\ SubtractDays(d, 1) \in Int /\ IsDate(SubtractDays(d, 1))
         /\ NextDay(SubtractDays(d, 1)) = d
<1>1. PICK p : p = SubtractDays(d, 1)
  OBVIOUS
<1>2. 1 \in 0..28
  OBVIOUS
<1>3. /\ p \in Int /\ IsDate(p)
      /\ Day(d) > 1 => MonthIndex(p) = MonthIndex(d) /\ Day(p) = Day(d) - 1
      /\ ~(Day(d) > 1) => /\ MonthIndex(p) = MonthIndex(d) - 1
                          /\ Day(p) = DaysOf(MonthIndex(d) - 1) + Day(d) - 1
  BY <1>1, <1>2, SubtractIs
<1>4. /\ MonthIndex(d) \in Int /\ Day(d) \in Int /\ 1 <= Day(d) /\ Day(d) <= DaysOf(MonthIndex(d))
      /\ DaysOf(MonthIndex(d)) \in Int /\ DaysOf(MonthIndex(d) - 1) \in Int
  BY DateIs, DaysOfType
<1>5. PICK n : n = NextDay(p)
  OBVIOUS
<1>6. /\ n \in Int /\ IsDate(n)
      /\ Day(p) < DaysOf(MonthIndex(p)) => MonthIndex(n) = MonthIndex(p) /\ Day(n) = Day(p) + 1
      /\ ~(Day(p) < DaysOf(MonthIndex(p))) => MonthIndex(n) = MonthIndex(p) + 1 /\ Day(n) = 1
  BY <1>3, <1>5, NextDayIs
<1>7. MonthIndex(n) = MonthIndex(d) /\ Day(n) = Day(d)
  <2>1. CASE Day(d) > 1
    <3>1. Day(p) < DaysOf(MonthIndex(p))
      BY <1>3, <1>4, <2>1
    <3>2. QED
      BY <1>3, <1>4, <1>6, <2>1, <3>1
  <2>2. CASE ~(Day(d) > 1)
    <3>1. Day(d) = 1
      BY <1>4, <2>2
    <3>2. Day(p) = DaysOf(MonthIndex(p)) /\ MonthIndex(p) = MonthIndex(d) - 1
      BY <1>3, <1>4, <2>2, <3>1
    <3>3. ~(Day(p) < DaysOf(MonthIndex(p)))
      BY <1>3, <1>4, <2>2, <3>1, <3>2
    <3>4. QED
      BY <1>4, <1>6, <3>1, <3>2, <3>3
  <2>3. QED
    BY <2>1, <2>2
<1>8. n = d
  BY <1>6, <1>7, SameDate
<1>9. QED
  BY <1>1, <1>3, <1>5, <1>8

LEMMA NextDayOrder ==
  ASSUME NEW a \in Int, IsDate(a), NEW b \in Int, IsDate(b), a <= b
  PROVE  NextDay(a) <= NextDay(b)
<1>1. NextDay(a) \in Int /\ IsDate(NextDay(a)) /\ NextDay(b) \in Int /\ IsDate(NextDay(b))
  BY NextDayIs
<1>2. NextDay(b) < NextDay(a) => NextDay(b) <= a
  BY <1>1, NoDayBetween
<1>3. b < NextDay(b)
  BY NextIsLater
<1>4. QED
  BY <1>1, <1>2, <1>3

(* Going back further goes back to an earlier day. *)
LEMMA SubtractOrder ==
  ASSUME NEW d \in Int, IsDate(d), NEW j \in 0..28, NEW k \in 0..28, j <= k
  PROVE  SubtractDays(d, k) <= SubtractDays(d, j)
<1>1. PICK a : a = SubtractDays(d, k)
  OBVIOUS
<1>2. PICK b : b = SubtractDays(d, j)
  OBVIOUS
<1>3. PICK i \in Int : i = MonthIndex(d)
  BY DateIs
<1>4. PICK x \in Int : x = Day(d) /\ 1 <= x
  BY DateIs
<1>5. PICK l \in Int : l = DaysOf(i - 1)
  BY DaysOfType
<1>6. /\ a \in Int /\ IsDate(a)
      /\ x > k => MonthIndex(a) = i /\ Day(a) = x - k
      /\ ~(x > k) => MonthIndex(a) = i - 1 /\ Day(a) = l + x - k
  BY <1>1, <1>3, <1>4, <1>5, SubtractIs
<1>7. /\ b \in Int /\ IsDate(b)
      /\ x > j => MonthIndex(b) = i /\ Day(b) = x - j
      /\ ~(x > j) => MonthIndex(b) = i - 1 /\ Day(b) = l + x - j
  BY <1>2, <1>3, <1>4, <1>5, SubtractIs
<1>8. ~(b < a)
  <2>1. CASE x > k
    BY <1>6, <1>7, <2>1, DateOrder
  <2>2. CASE ~(x > k) /\ x > j
    BY <1>6, <1>7, <2>2, DateOrder
  <2>3. CASE ~(x > k) /\ ~(x > j)
    BY <1>6, <1>7, <2>3, DateOrder
  <2>4. QED
    BY <2>1, <2>2, <2>3
<1>9. QED
  BY <1>1, <1>2, <1>6, <1>7, <1>8

LEMMA MidnightIs ==
  ASSUME NEW d \in Int, IsDate(d)
  PROVE  /\ LocalMidnight(d) \in Int /\ IsInstant(LocalMidnight(d))
         /\ LocalDay(LocalMidnight(d)) = d
         /\ LocalDay(LocalMidnight(d) - 1) = SubtractDays(d, 1)
<1>1. PICK p \in Int : p = SubtractDays(d, 1) /\ IsDate(p) /\ NextDay(p) = d
  BY DayBefore
<1>2. PICK h \in 1..23 : h = 24 - ZoneHours /\ h + ZoneHours = 24 /\ ZoneHours \in 1..23
  <2>1. ZoneHours \in 1..23
    BY ZoneAssumption
  <2>2. 24 - ZoneHours \in 1..23
    BY <2>1
  <2>3. QED
    BY <2>1, <2>2
<1>3. LocalMidnight(d) = 100 * p + h
  BY <1>1, <1>2 DEF LocalMidnight
<1>4. LocalMidnight(d) - 1 = 100 * p + (h - 1)
  BY <1>3
<1>5. ASSUME NEW k \in 0..99, NEW t, t = 100 * p + k
      PROVE  t \in Int /\ t \div 100 = p /\ t % 100 = k
  BY <1>5, InstantOf
<1>6. /\ LocalMidnight(d) \in Int /\ LocalMidnight(d) \div 100 = p /\ LocalMidnight(d) % 100 = h
      /\ (LocalMidnight(d) - 1) \div 100 = p /\ (LocalMidnight(d) - 1) % 100 = h - 1
  <2>1. h \in 0..99 /\ h - 1 \in 0..99
    BY h \in 1..23
  <2>2. /\ LocalMidnight(d) \in Int /\ LocalMidnight(d) \div 100 = p /\ LocalMidnight(d) % 100 = h
    BY <1>3, <1>5, <2>1
  <2>3. (LocalMidnight(d) - 1) \div 100 = p /\ (LocalMidnight(d) - 1) % 100 = h - 1
    BY <1>4, <1>5, <2>1
  <2>4. QED
    BY <2>2, <2>3
<1>7. LocalDay(LocalMidnight(d)) = d
  BY <1>1, <1>2, <1>6 DEF LocalDay
<1>8. LocalDay(LocalMidnight(d) - 1) = p
  <2>1. ~((h - 1) + ZoneHours >= 24)
    BY <1>2
  <2>2. QED
    BY <1>6, <2>1 DEF LocalDay
<1>9. QED
  BY <1>1, <1>6, <1>7, <1>8 DEF IsInstant

LEMMA LocalDayIs ==
  ASSUME NEW t \in Int, IsInstant(t)
  PROVE  LocalDay(t) \in Int /\ IsDate(LocalDay(t))
<1>1. t \div 100 \in Int /\ IsDate(t \div 100)
  BY InstantParts DEF IsInstant
<1>2. QED
  BY <1>1, NextDayIs DEF LocalDay

(* What the ranges are made of: an instant is at or after the midnight that *)
(* begins a day exactly if its own day is that day or a later one.          *)
LEMMA MidnightBorder ==
  ASSUME NEW t \in Int, IsInstant(t), NEW d \in Int, IsDate(d)
  PROVE  t >= LocalMidnight(d) <=> LocalDay(t) >= d
<1>1. PICK n \in Int : n = t \div 100 /\ IsDate(n)
  BY InstantParts DEF IsInstant
<1>2. PICK h \in 0..23 : h = t % 100 /\ t = 100 * n + h
  BY <1>1, InstantParts DEF IsInstant
<1>3. PICK p \in Int : p = SubtractDays(d, 1) /\ IsDate(p) /\ NextDay(p) = d
  BY DayBefore
<1>4. PICK z \in 1..23 : z = ZoneHours
  BY ZoneAssumption
<1>5. t >= LocalMidnight(d) <=> n > p \/ (n = p /\ h + z >= 24)
  BY <1>2, <1>3, <1>4 DEF LocalMidnight
<1>6. NextDay(n) \in Int /\ IsDate(NextDay(n)) /\ n < NextDay(n) /\ p < d
  BY <1>1, <1>3, NextDayIs, NextIsLater
<1>7. n > p <=> n >= d
  <2>1. n < d => n <= p
    BY <1>1, <1>3, NoDayBetween
  <2>2. QED
    BY <1>6, <2>1
<1>8. NextDay(n) >= d <=> n >= p
  <2>1. n >= p => NextDay(n) >= d
    BY <1>1, <1>3, <1>6, NextDayOrder
  <2>2. NextDay(n) >= d => n >= p
    <3>1. SUFFICES ASSUME n < p PROVE NextDay(n) < d
      BY <1>6
    <3>2. NextDay(n) <= p
      <4>1. p < NextDay(n) => p <= n
        BY <1>1, <1>3, NoDayBetween
      <4>2. QED
        BY <1>6, <3>1, <4>1
    <3>3. QED
      BY <1>6, <3>2
  <2>3. QED
    BY <2>1, <2>2
<1>9. LocalDay(t) = IF h + z >= 24 THEN NextDay(n) ELSE n
  BY <1>1, <1>2, <1>4 DEF LocalDay
<1>10. CASE h + z >= 24
  BY <1>5, <1>8, <1>9, <1>10
<1>11. CASE ~(h + z >= 24)
  BY <1>5, <1>7, <1>9, <1>11
<1>12. QED
  BY <1>10, <1>11

(* The first of a month, and the days of the month. *)
LEMMA FirstOfMonth ==
  ASSUME NEW m \in Int
  PROVE  InMonth(m, 1) \in Int /\ IsDate(InMonth(m, 1))
         /\ \A d \in Int : IsDate(d) => (d >= InMonth(m, 1) <=> MonthIndex(d) >= m)
<1>1. PICK f : f = InMonth(m, 1)
  OBVIOUS
<1>2. f \in Int /\ IsDate(f) /\ MonthIndex(f) = m /\ Day(f) = 1
  <2>1. 1 \in 1..31 /\ 1 <= DaysOf(m)
    BY DaysOfType
  <2>2. QED
    BY <1>1, <2>1, InMonthIs
<1>3. ASSUME NEW d \in Int, IsDate(d) PROVE d >= f <=> MonthIndex(d) >= m
  <2>1. d < f <=> MonthIndex(d) < m
    BY <1>2, <1>3, DateIs, DateOrder
  <2>2. MonthIndex(d) \in Int
    BY <1>3, DateIs
  <2>3. QED
    BY <1>2, <2>1, <2>2
<1>4. QED
  BY <1>1, <1>2, <1>3

LEMMA MonthBorders ==
  ASSUME NEW t \in Int, IsInstant(t), NEW a \in Int, NEW b \in Int
  PROVE  Within(t, [start |-> MonthRange(a).start, end |-> MonthRange(b).end])
           <=> MonthIndex(LocalDay(t)) \in a..b
<1>1. PICK m \in Int : m = MonthIndex(LocalDay(t))
  BY LocalDayIs, DateIs
<1>2. ASSUME NEW k \in Int
      PROVE  /\ LocalMidnight(InMonth(k, 1)) \in Int
             /\ t >= LocalMidnight(InMonth(k, 1)) <=> m >= k
  <2>1. InMonth(k, 1) \in Int /\ IsDate(InMonth(k, 1))
    BY FirstOfMonth
  <2>2. t >= LocalMidnight(InMonth(k, 1)) <=> LocalDay(t) >= InMonth(k, 1)
    BY <2>1, MidnightBorder
  <2>3. LocalDay(t) >= InMonth(k, 1) <=> m >= k
    BY <1>1, LocalDayIs, FirstOfMonth
  <2>4. QED
    BY <2>1, <2>2, <2>3, MidnightIs
<1>3. b + 1 \in Int
  OBVIOUS
<1>4. /\ t >= LocalMidnight(InMonth(a, 1)) <=> m >= a
      /\ t >= LocalMidnight(InMonth(b + 1, 1)) <=> m >= b + 1
      /\ LocalMidnight(InMonth(b + 1, 1)) \in Int
  BY <1>2, <1>3
<1>5. t < LocalMidnight(InMonth(b + 1, 1)) <=> m <= b
  BY <1>4
<1>6. QED
  BY <1>1, <1>4, <1>5 DEF Within, MonthRange

LEMMA MidnightOrder ==
  ASSUME NEW a \in Int, IsDate(a), NEW b \in Int, IsDate(b), a <= b
  PROVE  LocalMidnight(a) <= LocalMidnight(b)
<1>1. PICK t \in Int : t = LocalMidnight(b) /\ IsInstant(t) /\ LocalDay(t) = b
  BY MidnightIs
<1>2. t >= LocalMidnight(a)
  BY <1>1, MidnightBorder
<1>3. QED
  BY <1>1, <1>2, MidnightIs

(* The seven days: they begin before now and end after it.                  *)
LEMMA SevenDays ==
  ASSUME now \in Nows, NEW i \in 1..7
  PROVE  /\ now \in Int /\ IsInstant(now) /\ RollingDay(7) = LocalDay(now)
         /\ DayRange(RollingDay(i)).end \in Int /\ DayRange(RollingDay(7)).end \in Int
         /\ DayRange(RollingDay(1)).start \in Int
         /\ DayRange(RollingDay(1)).start <= DayRange(RollingDay(i)).end
         /\ DayRange(RollingDay(i)).end <= DayRange(RollingDay(7)).end
         /\ DayRange(RollingDay(1)).start <= now /\ now < DayRange(RollingDay(7)).end
<1>1. now \in Int /\ IsInstant(now)
  BY ZoneAssumption
<1>2. PICK d \in Int : d = LocalDay(now) /\ IsDate(d)
  BY <1>1, LocalDayIs
<1>3. PICK a \in Int : a = RollingDay(1) /\ IsDate(a) /\ a = SubtractDays(d, 6)
  <2>1. 6 \in 0..28 /\ RollingDay(1) = SubtractDays(d, 6)
    BY <1>2 DEF RollingDay
  <2>2. QED
    BY <1>2, <2>1, SubtractIs
<1>4. PICK b \in Int : b = RollingDay(i) /\ IsDate(b) /\ a <= b /\ b <= d
  <2>1. PICK k \in 0..28 : k = 7 - i /\ 0 <= k /\ k <= 6
    OBVIOUS
  <2>2. RollingDay(i) = SubtractDays(d, k)
    BY <1>2, <2>1 DEF RollingDay
  <2>3. 0 \in 0..28 /\ 6 \in 0..28
    OBVIOUS
  <2>4. SubtractDays(d, k) <= SubtractDays(d, 0) /\ SubtractDays(d, 6) <= SubtractDays(d, k)
    BY <1>2, <2>1, <2>3, SubtractOrder
  <2>5. SubtractDays(d, 0) = d
    BY <1>2, DateIs DEF SubtractDays
  <2>6. QED
    BY <1>2, <1>3, <2>1, <2>2, <2>4, <2>5, SubtractIs
<1>5. RollingDay(7) = d
  <2>1. RollingDay(7) = SubtractDays(d, 0)
    BY <1>2 DEF RollingDay
  <2>2. QED
    BY <1>2, <2>1, DateIs DEF SubtractDays
<1>6. /\ NextDay(b) \in Int /\ IsDate(NextDay(b)) /\ NextDay(d) \in Int /\ IsDate(NextDay(d))
      /\ NextDay(b) <= NextDay(d) /\ b < NextDay(b) /\ d < NextDay(d)
  BY <1>2, <1>4, NextDayIs, NextDayOrder, NextIsLater
<1>7. /\ LocalMidnight(a) <= LocalMidnight(NextDay(b))
      /\ LocalMidnight(NextDay(b)) <= LocalMidnight(NextDay(d))
  <2>1. a <= NextDay(b)
    BY <1>4, <1>6
  <2>2. QED
    BY <1>3, <1>6, <2>1, MidnightOrder
<1>8. /\ LocalMidnight(a) \in Int /\ LocalMidnight(NextDay(b)) \in Int /\ LocalMidnight(NextDay(d)) \in Int
  BY <1>3, <1>6, MidnightIs
<1>9. LocalMidnight(a) <= now /\ now < LocalMidnight(NextDay(d))
  <2>1. now >= LocalMidnight(a) <=> d >= a
    BY <1>1, <1>2, <1>3, MidnightBorder
  <2>2. now >= LocalMidnight(NextDay(d)) <=> d >= NextDay(d)
    BY <1>1, <1>2, <1>6, MidnightBorder
  <2>3. QED
    BY <1>1, <1>4, <1>6, <1>8, <2>1, <2>2
<1>10. QED
  BY <1>1, <1>2, <1>3, <1>4, <1>5, <1>7, <1>8, <1>9 DEF DayRange

-----------------------------------------------------------------------------
(* Rows and sums over them. *)

LEMMA RowIs ==
  ASSUME NEW x \in ReportRows
  PROVE  /\ x.type \in TxTypes /\ x.amount \in Int /\ x.wallet \in Wallets /\ x.grandTotal \in Int
         /\ x.isInstallment \in BOOLEAN /\ x.cat \in Categories \cup {"none"}
         /\ x.date \in Int /\ IsInstant(x.date)
         /\ x.isInstallment => x.type = "EXPENSE"
         /\ x.to \in Wallets \cup {NoWallet}
         /\ SourceDelta(x) \in Int /\ \A w : EffectOn(x, w) \in Int
<1>1. x \in [type : TxTypes, amount : Int, wallet : Wallets, to : Wallets \cup {NoWallet},
             isInstallment : BOOLEAN, grandTotal : Int, cat : Categories \cup {"none"}, date : Int]
  BY ReportRowsAssumption
<1>2. /\ x.type \in TxTypes /\ x.amount \in Int /\ x.wallet \in Wallets /\ x.grandTotal \in Int
      /\ x.isInstallment \in BOOLEAN /\ x.cat \in Categories \cup {"none"} /\ x.date \in Int
      /\ x.to \in Wallets \cup {NoWallet}
  BY <1>1
<1>3. SourceDelta(x) \in Int
  BY <1>2 DEF SourceDelta
<1>4. QED
  BY <1>2, <1>3, ReportRowsAssumption DEF EffectOn

LEMMA TableRows ==
  ASSUME NEW h \in Tables
  PROVE  IsFiniteSet(In(h)) /\ In(h) \subseteq ReportIds /\ \A i \in In(h) : h[i] \in ReportRows
<1>1. In(h) \subseteq ReportIds /\ \A i \in In(h) : h[i] \in ReportRows
  BY DEF In, Tables
<1>2. QED
  BY <1>1, ReportRowsAssumption, FS_Subset

LEMMA EffectsAre ==
  ASSUME NEW h \in Tables, NEW w
  PROVE  /\ \A i \in In(h) : RowEffects(h, w)[i] = EffectOn(h[i], w) /\ RowEffects(h, w)[i] \in Int
         /\ Total(RowEffects(h, w), In(h)) \in Int
<1>1. \A i \in In(h) : RowEffects(h, w)[i] = EffectOn(h[i], w) /\ EffectOn(h[i], w) \in Int
  BY TableRows, RowIs DEF RowEffects
<1>2. QED
  BY <1>1, TableRows, TotalType

-----------------------------------------------------------------------------
(* The sparkline.  Its balance is that of the rows as the wallet was read.  *)

BalanceOf(h) == Total(RowEffects(h, Watched), In(h))

SparkInv ==
  /\ row \in Tables /\ now \in Nows
  /\ \/ spark = NewSpark
     \/ \E h \in Tables :
          spark = [pc |-> "wallet", balance |-> BalanceOf(h), had |-> h, seen |-> <<>>]
     \/ \E h, s \in Tables :
          spark = [pc |-> "shown", balance |-> BalanceOf(h), had |-> h, seen |-> s]

LEMMA SparkInit == ReportsInit => SparkInv
BY DEF ReportsInit, SparkInv, Tables

LEMMA SparkStep == SparkInv /\ [ReportsNext]_reportVars => SparkInv'
<1> SUFFICES ASSUME SparkInv, [ReportsNext]_reportVars PROVE SparkInv'
  OBVIOUS
<1>1. CASE EnterRow
  BY <1>1 DEF EnterRow, SparkInv, Tables, BalanceOf, RowEffects, In
<1>2. CASE RemoveRow
  BY <1>2 DEF RemoveRow, SparkInv, Tables, BalanceOf, RowEffects, In
<1>3. CASE SparkWallet
  <2>1. spark = NewSpark
    BY <1>3 DEF SparkWallet, SparkInv
  <2>2. spark' = [pc |-> "wallet", balance |-> BalanceOf(row), had |-> row, seen |-> <<>>]
    BY <1>3, <2>1 DEF SparkWallet, NewSpark, StoredBalance, BalanceOf
  <2>3. QED
    BY <1>3, <2>2 DEF SparkWallet, SparkInv
<1>4. CASE SparkRows
  <2>1. PICK h \in Tables :
          spark = [pc |-> "wallet", balance |-> BalanceOf(h), had |-> h, seen |-> <<>>]
    BY <1>4 DEF SparkRows, SparkInv, NewSpark
  <2>2. spark' = [pc |-> "shown", balance |-> BalanceOf(h), had |-> h, seen |-> row]
    BY <1>4, <2>1 DEF SparkRows
  <2>3. QED
    BY <1>4, <2>2 DEF SparkRows, SparkInv
<1>5. CASE UNCHANGED reportVars
  BY <1>5 DEF reportVars, SparkInv
<1>6. QED
  BY <1>1, <1>2, <1>3, <1>4, <1>5 DEF ReportsNext

(* What is taken off is all there is between the close and tomorrow, but    *)
(* for s: a row that the query leaves out of that span does nothing to the  *)
(* wallet.                                                                  *)
LEMMA TakenOffTotals ==
  ASSUME NEW S, IsFiniteSet(S), NEW e, \A k \in S : e[k] \in Int,
         NEW C \in SUBSET S, NEW F \in SUBSET S, C \cap F = {}, NEW r, NEW s,
         NEW T \in SUBSET ((S \ C) \ F), \A k \in ((S \ C) \ F) \ T : e[k] = 0,
         \A k \in T : r[k] \in Int /\ s[k] \in Int /\ e[k] = r[k] + s[k]
  PROVE  Total(e, S) - Total(r, T) = Total(e, C) + Total(e, F) + Total(s, T)
<1>1. /\ Total(e, S) = Total(e, C) + Total(e, S \ C)
      /\ Total(e, C) \in Int /\ Total(e, S \ C) \in Int
  BY TotalSplit
<1>2. PICK R : R = S \ C
  OBVIOUS
<1>3. IsFiniteSet(R) /\ F \in SUBSET R /\ \A k \in R : e[k] \in Int
  BY <1>2, FS_Subset
<1>4. Total(e, R) = Total(e, F) + Total(e, R \ F) /\ Total(e, F) \in Int /\ Total(e, R \ F) \in Int
  BY <1>3, TotalSplit
<1>5. PICK M : M = R \ F
  OBVIOUS
<1>6. /\ IsFiniteSet(M) /\ T \in SUBSET M /\ IsFiniteSet(T)
      /\ \A k \in M : e[k] \in Int
      /\ \A k \in M \ T : e[k] = 0
  BY <1>2, <1>3, <1>5, FS_Subset
<1>7. Total(e, T) = Total(e, M)
  BY <1>6, TotalExtend
<1>8. Total(e, T) = Total(r, T) + Total(s, T)
  BY <1>6, TotalPlus
<1>9. Total(r, T) \in Int /\ Total(s, T) \in Int
  BY <1>6, TotalType
<1>10. QED
  BY <1>1, <1>2, <1>4, <1>5, <1>7, <1>8, <1>9

LEMMA PointIs ==
  ASSUME now \in Nows, NEW h \in Tables, NEW i \in 1..7,
         spark = [pc |-> "shown", balance |-> BalanceOf(h), had |-> h, seen |-> h]
  PROVE  spark.balance - Total(Reported, TakenOff(i)) = Close(i) + FromTomorrowOn + ToItself(i)
<1>1. spark.balance = BalanceOf(h) /\ spark.had = h /\ spark.seen = h
  OBVIOUS
<1>2. PICK e : e = RowEffects(h, Watched)
  OBVIOUS
<1>3. PICK S : S = In(h)
  OBVIOUS
<1>4. /\ IsFiniteSet(S) /\ S \subseteq ReportIds /\ \A k \in S : h[k] \in ReportRows
      /\ \A k \in S : e[k] = EffectOn(h[k], Watched) /\ e[k] \in Int
  BY <1>2, <1>3, TableRows, EffectsAre
<1>5. PICK from \in Int, until \in Int, end \in Int, t \in Int :
        /\ from = DayRange(RollingDay(1)).start /\ until = DayRange(RollingDay(i)).end
        /\ end = DayRange(RollingDay(7)).end /\ t = now
        /\ from <= until /\ until <= end /\ from <= t /\ t < end
  BY SevenDays
<1> DEFINE C == {k \in S : IF i = 7 THEN h[k].date <= t ELSE h[k].date < until}
           F == {k \in S : h[k].date >= end}
           T == {k \in S : /\ h[k].wallet = Watched \/ h[k].to = Watched
                           /\ h[k].date >= from /\ h[k].date < end
                           /\ IF i = 7 THEN h[k].date > t ELSE h[k].date >= until}
           U == {k \in S : /\ h[k].type = "TRANSFER" /\ h[k].wallet = Watched /\ h[k].to = Watched
                           /\ h[k].date >= from /\ h[k].date < end
                           /\ IF i = 7 THEN h[k].date > t ELSE h[k].date >= until}
           a == [k \in ReportIds |-> h[k].amount]
           s == [k \in ReportIds |-> IF k \in U THEN h[k].amount ELSE 0]
<1>6. /\ TakenOff(i) = T /\ Close(i) = Total(e, C) /\ FromTomorrowOn = Total(e, F)
      /\ ToItself(i) = Total(a, U)
  BY <1>1, <1>2, <1>3, <1>5 DEF TakenOff, Close, FromTomorrowOn, ToItself
<1>7. \A k \in S : h[k].date \in Int
  BY <1>4, RowIs
<1>8. C \in SUBSET S /\ F \in SUBSET S /\ C \cap F = {} /\ T \in SUBSET ((S \ C) \ F)
  BY <1>5, <1>7
<1>9. ASSUME NEW k \in ((S \ C) \ F) \ T PROVE e[k] = 0
  <2>1. h[k].wallet # Watched /\ h[k].to # Watched
    BY <1>5, <1>7
  <2>2. QED
    BY <1>4, <2>1 DEF EffectOn
<1>10. ASSUME NEW k \in T
       PROVE  Reported[k] \in Int /\ s[k] \in Int /\ e[k] = Reported[k] + s[k]
  <2>1. Reported[k] = ReportedEffect(h[k], Watched) /\ e[k] = EffectOn(h[k], Watched)
    BY <1>1, <1>4 DEF Reported
  <2>2. PICK x \in ReportRows : x = h[k]
    BY <1>4
  <2>3. x.wallet = Watched \/ x.to = Watched
    BY <2>2
  <2>4. /\ x.type \in TxTypes /\ x.amount \in Int /\ x.grandTotal \in Int /\ x.isInstallment \in BOOLEAN
        /\ x.isInstallment => x.type = "EXPENSE"
        /\ x.wallet \in Wallets /\ x.to \in Wallets \cup {NoWallet}
    BY RowIs
  <2>5. s[k] = IF x.type = "TRANSFER" /\ x.wallet = Watched /\ x.to = Watched THEN x.amount ELSE 0
    BY <1>4, <2>2
  <2>6. ReportedEffect(x, Watched) \in Int
    BY <2>4 DEF ReportedEffect
  <2>7. Watched \in Wallets /\ Watched # NoWallet
    BY NoWalletAssumption, ReportRowsAssumption
  <2>8. CASE x.type = "TRANSFER" /\ x.wallet = Watched /\ x.to = Watched
    <3>1. HasDestination(x) /\ SourceDelta(x) = -x.amount
      BY <2>4, <2>7, <2>8 DEF HasDestination, SourceDelta
    <3>2. EffectOn(x, Watched) = -x.amount + x.amount
      BY <2>8, <3>1 DEF EffectOn
    <3>3. ReportedEffect(x, Watched) = -x.amount
      BY <2>8 DEF ReportedEffect
    <3>4. QED
      BY <2>1, <2>2, <2>4, <2>5, <2>8, <3>2, <3>3
  <2>9. CASE ~(x.type = "TRANSFER" /\ x.wallet = Watched /\ x.to = Watched)
    <3>1. s[k] = 0
      BY <2>5, <2>9
    <3>2. ReportedEffect(x, Watched) = EffectOn(x, Watched)
      BY <2>3, <2>4, <2>7, <2>9 DEF ReportedEffect, EffectOn, SourceDelta, HasDestination, TxTypes
    <3>3. QED
      BY <2>1, <2>2, <2>6, <3>1, <3>2
  <2>10. QED
    BY <2>8, <2>9
<1>11. ToItself(i) = Total(s, T)
  <2>1. U \in SUBSET T /\ IsFiniteSet(T) /\ IsFiniteSet(U)
    BY <1>4, FS_Subset
  <2>2. \A k \in T : s[k] \in Int
    BY <1>10
  <2>3. \A k \in T \ U : s[k] = 0
    BY <1>4
  <2>4. \A k \in U : s[k] = a[k]
    BY <1>4
  <2> HIDE DEF s, a, T, U
  <2>5. Total(s, U) = Total(s, T)
    BY <2>1, <2>2, <2>3, TotalExtend
  <2>6. Total(s, U) = Total(a, U)
    BY <2>1, <2>4, TotalEqual
  <2>7. QED
    BY <1>6, <2>5, <2>6
<1> HIDE DEF C, F, T, U, a, s
<1>12. Total(e, S) - Total(Reported, T) = Total(e, C) + Total(e, F) + Total(s, T)
  BY <1>4, <1>8, <1>9, <1>10, TakenOffTotals
<1>13. QED
  BY <1>1, <1>2, <1>3, <1>6, <1>11, <1>12 DEF BalanceOf

LEMMA SparkTrue == SparkInv => SparklineReplays
<1> SUFFICES ASSUME SparkInv, spark.pc = "shown", spark.had = spark.seen, NEW i \in 1..7
             PROVE  \/ Point(i) = NoPoint /\ DayRange(RollingDay(i)).end <= Created
                    \/ Point(i) = <<Close(i) + FromTomorrowOn + ToItself(i)>>
  BY DEF SparklineReplays
<1>1. PICK h \in Tables :
        spark = [pc |-> "shown", balance |-> BalanceOf(h), had |-> h, seen |-> h]
  BY DEF SparkInv, NewSpark
<1>2. now \in Nows
  BY DEF SparkInv
<1>3. spark.balance - Total(Reported, TakenOff(i)) = Close(i) + FromTomorrowOn + ToItself(i)
  BY <1>1, <1>2, PointIs
<1>4. QED
  BY <1>3 DEF Point

LEMMA ReportsTyped == SparkInv => ReportsTypeOK
<1> SUFFICES ASSUME SparkInv PROVE ReportsTypeOK
  OBVIOUS
<1>1. \A h \in Tables : BalanceOf(h) \in Int
  BY EffectsAre DEF BalanceOf
<1>2. CASE spark = NewSpark
  BY <1>2 DEF SparkInv, NewSpark, ReportsTypeOK
<1>3. CASE \E h \in Tables : spark = [pc |-> "wallet", balance |-> BalanceOf(h), had |-> h, seen |-> <<>>]
  BY <1>1, <1>3 DEF SparkInv, ReportsTypeOK
<1>4. CASE \E h, s \in Tables : spark = [pc |-> "shown", balance |-> BalanceOf(h), had |-> h, seen |-> s]
  BY <1>1, <1>4 DEF SparkInv, ReportsTypeOK
<1>5. QED
  BY <1>2, <1>3, <1>4 DEF SparkInv

(* The types of the table and of the answers. *)
THEOREM ReportsAreTyped == ReportsSpec => []ReportsTypeOK
BY SparkInit, SparkStep, ReportsTyped, PTL DEF ReportsSpec

(* getWalletSparkline: for any rows, transfers of a wallet to itself and    *)
(* such without a destination among them, and any instants, each point is   *)
(* the close recomputed from the whole ledger, with what is dated tomorrow  *)
(* or later and what the wallet sent to itself after that close.            *)
THEOREM SparklineIsReplay == ReportsSpec => []SparklineReplays
BY SparkInit, SparkStep, SparkTrue, PTL DEF ReportsSpec

-----------------------------------------------------------------------------
(* The views.  A list of months is made of the rows of the days of these    *)
(* months.                                                                  *)

LEMMA MonthsListed ==
  ASSUME row \in Tables, NEW a \in Int, NEW b \in Int
  PROVE  Listed([start |-> MonthRange(a).start, end |-> MonthRange(b).end]) = InMonths(a, b)
<1>1. ASSUME NEW i \in In(row)
      PROVE  Within(row[i].date, [start |-> MonthRange(a).start, end |-> MonthRange(b).end])
               <=> MonthOf(i) \in a..b
  <2>1. row[i].date \in Int /\ IsInstant(row[i].date)
    BY TableRows, RowIs
  <2>2. QED
    BY <2>1, MonthBorders DEF MonthOf
<1>2. QED
  BY <1>1 DEF Listed, InMonths

LEMMA MonthListed ==
  ASSUME row \in Tables, NEW m \in Int
  PROVE  Listed(MonthRange(m)) = InMonths(m, m)
<1>1. MonthRange(m) = [start |-> MonthRange(m).start, end |-> MonthRange(m).end]
  BY DEF MonthRange
<1>2. QED
  BY <1>1, MonthsListed

LEMMA MonthResolved ==
  ASSUME now \in Nows, NEW month \in Int, NEW year \in Int
  PROVE  /\ ResolveMonth(month, year) \in Int
         /\ ResolveMonth(0, 0) = MonthIndex(LocalDay(now))
<1>1. LocalDay(now) \in Int
  BY ZoneAssumption, LocalDayIs
<1>2. PICK y \in Int, m \in Int : y = Year(LocalDay(now)) /\ m = Month(LocalDay(now))
  BY <1>1, DateParts
<1>3. ResolveMonth(month, year) \in Int
  BY <1>2 DEF ResolveMonth
<1>4. ResolveMonth(0, 0) = MonthIndex(LocalDay(now))
  BY DEF ResolveMonth, MonthIndex
<1>5. QED
  BY <1>3, <1>4

(* Budgets, with that of what has no category, are the expenses by class.   *)
LEMMA ExpensesByCategory ==
  ASSUME row \in Tables, NEW range
  PROVE  LET groups == Categories \cup {"none"}
         IN SumOfType("EXPENSE", range) = Total([c \in groups |-> Spent(c, range)], groups)
<1> DEFINE groups == Categories \cup {"none"}
           S == {i \in Listed(range) : row[i].type = "EXPENSE"}
           class == [i \in ReportIds |-> row[i].cat]
           r == [c \in groups |-> Spent(c, range)]
<1>1. S \subseteq In(row) /\ S \subseteq ReportIds
  BY TableRows DEF Listed
<1>2. IsFiniteSet(S)
  BY <1>1, ReportRowsAssumption, FS_Subset
<1>3. \A i \in S : Amounts[i] \in Int /\ class[i] \in groups
  BY <1>1, TableRows, RowIs DEF Amounts
<1>4. IsFiniteSet(groups)
  BY ReportRowsAssumption, FS_AddElement
<1>5. ASSUME NEW c \in groups PROVE r[c] = Total(Amounts, {i \in S : class[i] = c})
  <2>1. {i \in S : class[i] = c} = {i \in Listed(range) : row[i].type = "EXPENSE" /\ row[i].cat = c}
    BY <1>1
  <2>2. QED
    BY <2>1 DEF Spent
<1>6. SumOfType("EXPENSE", range) = Total(Amounts, S)
  BY DEF SumOfType
<1> HIDE DEF groups, S, class, r
<1>7. Total(r, groups) = Total(Amounts, S)
  <2>1. ClassTotals(r, Amounts, class, groups, S)
    BY <1>5 DEF ClassTotals
  <2>2. QED
    BY <1>2, <1>3, <1>4, <2>1, TotalByClass
<1>8. QED
  BY <1>6, <1>7 DEF groups, r

LEMMA SpentType ==
  ASSUME row \in Tables, NEW c, NEW range
  PROVE  Spent(c, range) \in Int
<1> DEFINE S == {i \in Listed(range) : row[i].type = "EXPENSE" /\ row[i].cat = c}
<1>1. S \subseteq In(row) /\ S \subseteq ReportIds
  BY TableRows DEF Listed
<1>2. IsFiniteSet(S)
  BY <1>1, ReportRowsAssumption, FS_Subset
<1>3. \A i \in S : Amounts[i] \in Int
  BY <1>1, TableRows, RowIs DEF Amounts
<1> HIDE DEF S
<1>4. Total(Amounts, S) \in Int
  BY <1>2, <1>3, TotalType
<1>5. QED
  BY <1>4 DEF S, Spent

LEMMA MonthsTrue ==
  ASSUME row \in Tables, now \in Nows
  PROVE  MonthsAgree
<1>1. PICK d \in Int : d = LocalDay(now) /\ IsDate(d)
  BY ZoneAssumption, LocalDayIs
<1>2. PICK m \in Int : m = ResolveMonth(0, 0) /\ m = MonthIndex(d)
  <2>1. 0 \in Int
    OBVIOUS
  <2>2. QED
    BY <1>1, <2>1, MonthResolved
<1>3. \A k \in (m - 2 .. m + 1) \cup {ResolveMonth(month, 0) : month \in {-1, 1, 13}} :
        Listed(MonthRange(k)) = InMonths(k, k)
  <2>1. \A month \in {-1, 1, 13} : ResolveMonth(month, 0) \in Int
    BY MonthResolved
  <2>2. QED
    BY <2>1, MonthListed
<1>4. ExportRange(3, now) = [start |-> MonthRange(m - 2).start, end |-> MonthRange(m).end]
  <2>1. m - (3 - 1) = m - 2
    OBVIOUS
  <2>2. QED
    BY <1>1, <1>2, <2>1 DEF ExportRange
<1>5. Listed(ExportRange(3, now)) = InMonths(m - 2, m)
  <2>1. m - 2 \in Int
    OBVIOUS
  <2>2. QED
    BY <1>4, <2>1, MonthsListed
<1>6. NextDay(LastDayOf(ExportRange(3, now))) = InMonth(m + 1, 1)
  <2>1. PICK f \in Int : f = InMonth(m + 1, 1) /\ IsDate(f)
    <3>1. m + 1 \in Int
      OBVIOUS
    <3>2. QED
      BY <3>1, FirstOfMonth
  <2>2. ExportRange(3, now).end = LocalMidnight(f)
    BY <1>4, <2>1 DEF MonthRange
  <2>3. LastDayOf(ExportRange(3, now)) = SubtractDays(f, 1)
    BY <2>1, <2>2, MidnightIs DEF LastDayOf
  <2>4. QED
    BY <2>1, <2>3, DayBefore
<1>7. LET groups == Categories \cup {"none"}
      IN SumOfType("EXPENSE", MonthRange(m)) = Total([c \in groups |-> Spent(c, MonthRange(m))], groups)
  BY ExpensesByCategory
<1>8. ASSUME NEW c \in Categories
      PROVE  BudgetStatus(BudgetLimit, Spent(c, MonthRange(m)), FALSE) = "EXCEEDED"
               <=> Spending(InMonths(m, m), c) > BudgetLimit
  <2>1. Spent(c, MonthRange(m)) = Spending(InMonths(m, m), c)
    BY MonthListed DEF Spent, Spending
  <2>2. BudgetStatus(BudgetLimit, Spent(c, MonthRange(m)), FALSE) = "EXCEEDED"
          <=> Spent(c, MonthRange(m)) > BudgetLimit
    BY DEF BudgetStatus
  <2>3. QED
    BY <2>1, <2>2
<1>9. ASSUME NEW day \in {RollingDay(6), RollingDay(7)}
      PROVE  Overdue(LocalMidnight(day)) <=> day < RollingDay(7)
  <2>1. RollingDay(7) = d
    BY <1>1, SevenDays
  <2>2. RollingDay(6) = SubtractDays(d, 1)
    BY <1>1 DEF RollingDay
  <2>3. day \in Int /\ IsDate(day)
    BY <1>1, <2>1, <2>2, DayBefore
  <2>4. LocalDay(LocalMidnight(day)) = day
    BY <2>3, MidnightIs
  <2>5. QED
    BY <1>1, <2>1, <2>4 DEF Overdue
<1>10. QED
  BY <1>2, <1>3, <1>5, <1>6, <1>7, <1>8, <1>9 DEF MonthsAgree

-----------------------------------------------------------------------------
(* Net worth. *)

LEMMA BalanceType ==
  ASSUME row \in Tables, NEW w
  PROVE  StoredBalance(w) \in Int
BY EffectsAre DEF StoredBalance

(* Over all the wallets a row adds what it adds to the money there is.      *)
LEMMA RowOverWallets ==
  ASSUME NEW x \in ReportRows, NEW e, \A w \in Wallets : e[w] = EffectOn(x, w)
  PROVE  Total(e, Wallets) = IF HasDestination(x) THEN 0 ELSE SourceDelta(x)
<1>1. /\ x.type \in TxTypes /\ x.amount \in Int /\ x.wallet \in Wallets
      /\ x.isInstallment \in BOOLEAN /\ SourceDelta(x) \in Int
      /\ x.isInstallment => x.type = "EXPENSE"
      /\ x.to \in Wallets \cup {NoWallet}
  BY RowIs
<1>2. IsFiniteSet(Wallets)
  BY ReportRowsAssumption
<1> DEFINE a == [w \in Wallets |-> IF w = x.wallet THEN SourceDelta(x) ELSE 0]
           b == [w \in Wallets |-> IF HasDestination(x) /\ w = x.to THEN x.amount ELSE 0]
<1>3. \A w \in Wallets : a[w] \in Int /\ b[w] \in Int /\ e[w] = a[w] + b[w]
  <2> SUFFICES ASSUME NEW w \in Wallets
               PROVE  a[w] \in Int /\ b[w] \in Int /\ e[w] = a[w] + b[w]
    OBVIOUS
  <2>1. /\ a[w] = IF w = x.wallet THEN SourceDelta(x) ELSE 0
        /\ b[w] = IF HasDestination(x) /\ w = x.to THEN x.amount ELSE 0
        /\ e[w] = EffectOn(x, w)
    OBVIOUS
  <2> HIDE DEF a, b
  <2>2. QED
    BY <1>1, <2>1 DEF EffectOn, HasDestination
<1>4. a[x.wallet] = SourceDelta(x) /\ \A w \in Wallets \ {x.wallet} : a[w] = 0
  BY <1>1
<1>5. CASE HasDestination(x)
  <2>1. HasDestination(x) /\ SourceDelta(x) = -x.amount /\ x.to \in Wallets
    BY <1>1, <1>5 DEF HasDestination, SourceDelta
  <2>2. b[x.to] = x.amount /\ \A w \in Wallets \ {x.to} : b[w] = 0
    BY <2>1
  <2> HIDE DEF a, b
  <2>3. Total(e, Wallets) = Total(a, Wallets) + Total(b, Wallets)
    BY <1>2, <1>3, TotalPlus
  <2>4. Total(a, Wallets) = SourceDelta(x) /\ Total(b, Wallets) = x.amount
    BY <1>1, <1>2, <1>4, <2>1, <2>2, TotalSingle
  <2>5. QED
    BY <1>1, <1>5, <2>1, <2>3, <2>4
<1>6. CASE ~HasDestination(x)
  <2>1. \A w \in Wallets : b[w] = 0
    BY <1>6
  <2> HIDE DEF a, b
  <2>2. Total(e, Wallets) = Total(a, Wallets) + Total(b, Wallets)
    BY <1>2, <1>3, TotalPlus
  <2>3. Total(a, Wallets) = SourceDelta(x) /\ Total(b, Wallets) = 0
    BY <1>1, <1>2, <1>4, <2>1, TotalSingle, TotalZero
  <2>4. QED
    BY <1>1, <1>6, <2>2, <2>3
<1>7. QED
  BY <1>5, <1>6

LEMMA MoneyThereIs ==
  ASSUME row \in Tables
  PROVE  Total([w \in Wallets |-> StoredBalance(w)], Wallets) = Total(CashFlow, In(row))
<1> DEFINE e == [w \in Wallets |-> RowEffects(row, w)]
           f == [i \in ReportIds |-> [w \in Wallets |-> EffectOn(row[i], w)]]
           r == [w \in Wallets |-> StoredBalance(w)]
           S == In(row)
<1>1. /\ IsFiniteSet(Wallets) /\ IsFiniteSet(S) /\ S \subseteq ReportIds
      /\ \A i \in S : row[i] \in ReportRows
  BY ReportRowsAssumption, TableRows
<1>2. \A w \in Wallets : \A i \in S : e[w][i] \in Int /\ f[i][w] = e[w][i]
  BY <1>1, EffectsAre
<1>3. \A w \in Wallets : r[w] = Total(e[w], S)
  BY DEF StoredBalance
<1>4. ASSUME NEW i \in S PROVE CashFlow[i] = Total(f[i], Wallets)
  <2>1. \A w \in Wallets : f[i][w] = EffectOn(row[i], w)
    BY <1>1
  <2>2. row[i] \in ReportRows /\ i \in ReportIds
    BY <1>1
  <2> HIDE DEF f, S
  <2>3. QED
    BY <2>1, <2>2, RowOverWallets DEF CashFlow
<1> HIDE DEF e, f, r, S
<1>5. Total(r, Wallets) = Total(CashFlow, S)
  <2>1. IsFiniteSet(Wallets) /\ IsFiniteSet(S)
    BY <1>1
  <2>2. \A i \in S : CashFlow[i] = Total(f[i], Wallets)
    BY <1>4
  <2>3. Transposed(f, e, Wallets, S) /\ RowTotals(r, e, Wallets, S) /\ RowTotals(CashFlow, f, S, Wallets)
    BY <1>2, <1>3, <2>2 DEF Transposed, RowTotals
  <2>4. QED
    BY <2>1, <2>3, TotalExchange
<1>6. QED
  BY <1>5 DEF r, S

LEMMA WorthTrue ==
  ASSUME row \in Tables
  PROVE  WorthAgrees
<1> DEFINE b == [w \in Wallets |-> StoredBalance(w)]
           abs == [w \in Wallets |-> Abs(StoredBalance(w))]
           owed == [w \in Wallets |-> Outstanding(w)]
           credits == {w \in DebtWallets : StoredBalance(w) > 0}
           credit == [w \in Wallets |-> IF w \in credits THEN b[w] ELSE 0]
<1>1. /\ IsFiniteSet(Wallets) /\ DebtWallets \in SUBSET Wallets /\ IsFiniteSet(DebtWallets)
      /\ credits \in SUBSET DebtWallets /\ IsFiniteSet(credits)
  BY ReportRowsAssumption, FS_Subset
<1>2. \A w \in Wallets :
        /\ b[w] \in Int /\ abs[w] \in Int /\ owed[w] \in Int /\ credit[w] \in Int
        /\ w \in DebtWallets => abs[w] = owed[w] + credit[w] /\ credit[w] = b[w] + owed[w]
        /\ w \in credits => credit[w] = b[w]
        /\ w \in DebtWallets \ credits => credit[w] = 0
  BY BalanceType DEF Abs, Outstanding
<1>3. TotalAssets = Total(b, Wallets \ DebtWallets) /\ TotalDebt = Total(abs, DebtWallets)
  BY DEF TotalAssets, TotalDebt
<1>4. Total(b, Wallets) = Total(CashFlow, In(row))
  BY MoneyThereIs
<1> HIDE DEF b, abs, owed, credits, credit
<1>5. Total(b, credits) = Total(credit, DebtWallets)
  <2>1. Total(credit, credits) = Total(credit, DebtWallets)
    BY <1>1, <1>2, TotalExtend
  <2>2. Total(b, credits) = Total(credit, credits)
    BY <1>1, <1>2, TotalEqual
  <2>3. QED
    BY <2>1, <2>2
<1>6. Total(abs, DebtWallets) = Total(owed, DebtWallets) + Total(credit, DebtWallets)
  BY <1>1, <1>2, TotalPlus
<1>7. Total(credit, DebtWallets) = Total(b, DebtWallets) + Total(owed, DebtWallets)
  BY <1>1, <1>2, TotalPlus
<1>8. /\ Total(b, Wallets) = Total(b, DebtWallets) + Total(b, Wallets \ DebtWallets)
      /\ Total(b, DebtWallets) \in Int /\ Total(b, Wallets \ DebtWallets) \in Int
  BY <1>1, <1>2, TotalSplit
<1>9. Total(owed, DebtWallets) \in Int /\ Total(credit, DebtWallets) \in Int
  BY <1>1, <1>2, TotalType
<1>10. NetWorth + 2 * Total(b, credits) = Total(CashFlow, In(row))
  BY <1>3, <1>4, <1>5, <1>6, <1>7, <1>8, <1>9 DEF NetWorth
<1>11. TotalDebt = Total(owed, DebtWallets) + Total(b, credits)
  BY <1>3, <1>5, <1>6
<1>12. QED
  BY <1>10, <1>11 DEF WorthAgrees, b, owed, credits

(* Lists, summary, budgets, export and overdue bills agree on the month and *)
(* the day of every row, whatever its instant and the zone; net worth moves *)
(* with income and expense alone, but for what debt wallets are overpaid.   *)
THEOREM ViewsTellOneStory == ReportsSpec => []ViewsAgree
<1>1. SparkInv => ViewsAgree
  BY MonthsTrue, WorthTrue DEF SparkInv, ViewsAgree
<1>2. QED
  BY SparkInit, SparkStep, <1>1, PTL DEF ReportsSpec

-----------------------------------------------------------------------------
(* The audit.  Its sums over rows are integers. *)

LEMMA InputEffect ==
  ASSUME NEW e \in EffectInputs \cup {NoEffect}, NEW w \in Wallets
  PROVE  EffectOn(e, w) \in Int
BY NoWalletAssumption DEF EffectInputs, NoEffect, EffectOn, SourceDelta, HasDestination

LEMMA EntryIs ==
  ASSUME NEW p \in Entries
  PROVE  /\ EntryOf[p].before \in EffectInputs \cup {NoEffect}
         /\ EntryOf[p].after \in EffectInputs \cup {NoEffect}
         /\ \A w \in Wallets : ChangeOn(EntryOf[p], w) \in Int
<1>1. EntryOf[p] \in RowChanges
  BY BooksAssumption
<1>2. EntryOf[p].before \in EffectInputs \cup {NoEffect} /\ EntryOf[p].after \in EffectInputs \cup {NoEffect}
  BY <1>1 DEF RowChanges
<1>3. QED
  BY <1>2, InputEffect DEF ChangeOn, ReverseOn

LEMMA EntrySum ==
  ASSUME NEW w \in Wallets, NEW P \in SUBSET Entries
  PROVE  /\ IsFiniteSet(P) /\ Total(EntryChanges(w), P) \in Int
         /\ \A p \in P : EntryChanges(w)[p] = ChangeOn(EntryOf[p], w) /\ EntryChanges(w)[p] \in Int
<1>1. IsFiniteSet(P)
  BY BooksAssumption, FS_Subset
<1>2. \A p \in P : EntryChanges(w)[p] = ChangeOn(EntryOf[p], w) /\ EntryChanges(w)[p] \in Int
  BY EntryIs DEF EntryChanges
<1>3. QED
  BY <1>1, <1>2, TotalType

LEMMA BeforeSum ==
  ASSUME NEW w \in Wallets
  PROVE  Total(BeforeEffects(w), Entries) \in Int
<1>1. \A p \in Entries : BeforeEffects(w)[p] \in Int
  BY EntryIs, InputEffect DEF BeforeEffects
<1>2. QED
  BY <1>1, BooksAssumption, TotalType

LEMMA OldSum ==
  ASSUME NEW w \in Wallets, NEW S \in SUBSET OldRows
  PROVE  Total(OldEffects(w), S) \in Int
<1>1. IsFiniteSet(S)
  BY BooksAssumption, FS_Subset
<1>2. \A e \in S : OldEffects(w)[e] \in Int
  BY BooksAssumption, InputEffect DEF OldEffects
<1>3. QED
  BY <1>1, <1>2, TotalType

-----------------------------------------------------------------------------
(* The inductive invariant.  Balances are the books and the commits, those  *)
(* the audit has read are the books and the commits it has seen, and a      *)
(* report is made of three finished queries.                                *)
BooksAt(w) ==
  books.initial[w] + books.damage[w] + Total(OldEffects(w), books.old)
    + Total(BeforeEffects(w), Entries)

ReconcileInv ==
  /\ ReconcileTypeOK
  /\ \A w \in Wallets : shown[w] = BooksAt(w) + Total(EntryChanges(w), Committed)
  /\ "wallets" \in audit.got =>
       \A w \in Wallets : audit.balances[w] = BooksAt(w) + Total(EntryChanges(w), audit.at)
  /\ audit.exit \in {0, 2} => audit.got = Sources
  /\ audit.exit = 0 => ~HasDrift

LEMMA BooksType ==
  ASSUME ReconcileTypeOK, NEW w \in Wallets
  PROVE  /\ books.initial[w] \in Int /\ books.damage[w] \in Int
         /\ Total(OldEffects(w), books.old) \in Int /\ Total(BeforeEffects(w), Entries) \in Int
         /\ BooksAt(w) \in Int
<1>1. books.initial[w] \in Int /\ books.damage[w] \in Int /\ books.old \in SUBSET OldRows
  BY BooksAssumption DEF ReconcileTypeOK
<1>2. QED
  BY <1>1, OldSum, BeforeSum DEF BooksAt

LEMMA ReconcileInvInit == ReconcileInit => ReconcileInv
<1> SUFFICES ASSUME ReconcileInit PROVE ReconcileInv
  OBVIOUS
<1>1. books \in [initial : Openings, old : SUBSET OldRows, damage : Damages]
  BY DEF ReconcileInit
<1>2. ASSUME NEW w \in Wallets PROVE shown[w] = BooksAt(w) /\ BooksAt(w) \in Int
  <2>1. shown[w] = BooksAt(w)
    BY DEF ReconcileInit, BooksAt
  <2>2. books.initial[w] \in Int /\ books.damage[w] \in Int
    BY <1>1, BooksAssumption
  <2>3. books.old \in SUBSET OldRows
    BY <1>1
  <2>4. Total(OldEffects(w), books.old) \in Int
    BY <2>3, OldSum
  <2>5. Total(BeforeEffects(w), Entries) \in Int
    BY BeforeSum
  <2>6. QED
    BY <2>1, <2>2, <2>4, <2>5 DEF BooksAt
<1>3. shown \in [Wallets -> Int]
  <2>1. DOMAIN shown = Wallets /\ shown = [w \in Wallets |-> shown[w]]
    BY DEF ReconcileInit
  <2>2. QED
    BY <1>2, <2>1
<1>4. audit = NewAudit /\ audit.got = {} /\ audit.exit = -1
  BY DEF ReconcileInit, NewAudit
<1>5. ReconcileTypeOK
  BY <1>1, <1>3, <1>4 DEF ReconcileInit, ReconcileTypeOK, NewAudit
<1>6. Committed = {}
  BY DEF ReconcileInit, Committed
<1>7. ASSUME NEW w \in Wallets
      PROVE  shown[w] = BooksAt(w) + Total(EntryChanges(w), Committed)
  <2>1. Total(EntryChanges(w), Committed) = 0
    BY <1>6, TotalEmpty
  <2>2. QED
    BY <1>2, <2>1
<1>8. QED
  BY <1>4, <1>5, <1>7 DEF ReconcileInv

(* The report depends on what the audit has read and on the books alone.    *)
LEMMA SameReport ==
  ASSUME audit'.rows = audit.rows, audit'.plans = audit.plans, audit'.balances = audit.balances,
         books' = books
  PROVE  HasDrift' <=> HasDrift
<1>1. \A w : AuditedEffects(w)' = AuditedEffects(w) /\ OldEffects(w)' = OldEffects(w)
  BY DEF AuditedEffects, AuditedRow, Version, OldEffects
<1>2. \A w : ExpectedOf(w)' = ExpectedOf(w) /\ LegacyCount(w)' = LegacyCount(w)
  BY <1>1 DEF ExpectedOf, LegacyCount
<1>3. \A w : DriftSeen(w)' = DriftSeen(w)
  BY <1>2 DEF DriftSeen
<1>4. \A w : Classify(w)' = Classify(w)
  BY <1>2, <1>3 DEF Classify
<1>5. QED
  BY <1>4 DEF HasDrift

LEMMA SameBooks ==
  ASSUME books' = books, NEW w
  PROVE  BooksAt(w)' = BooksAt(w) /\ EntryChanges(w)' = EntryChanges(w)
BY DEF BooksAt, OldEffects, BeforeEffects, EntryChanges

(* A commit is in the balances when it is in the ledger. *)
LEMMA CommitBooks ==
  ASSUME ReconcileInv, NEW p \in Entries, Program!Commit(p), UNCHANGED <<books, audit>>
  PROVE  ReconcileInv'
<1>1. ReconcileTypeOK /\ \A w \in Wallets : shown[w] = BooksAt(w) + Total(EntryChanges(w), Committed)
  BY DEF ReconcileInv
<1>2. /\ entry[p] = "pending" /\ entry' = [entry EXCEPT ![p] = "committed"]
      /\ shown' = [w \in Wallets |-> shown[w] + ChangeOn(EntryOf[p], w)]
  <2>1. shown' = [w \in Wallets |->
          shown[w] + [q \in Entries |-> [v \in Wallets |-> ChangeOn(EntryOf[q], v)]][p][w]]
    BY DEF Program!Commit
  <2>2. \A w \in Wallets :
          [q \in Entries |-> [v \in Wallets |-> ChangeOn(EntryOf[q], v)]][p][w] = ChangeOn(EntryOf[p], w)
    OBVIOUS
  <2>3. QED
    BY <2>1, <2>2 DEF Program!Commit
<1>3. Committed' = Committed \cup {p} /\ p \notin Committed /\ Committed \subseteq Entries
  BY <1>1, <1>2 DEF Committed, ReconcileTypeOK
<1>4. ASSUME NEW w \in Wallets
      PROVE  /\ shown'[w] = BooksAt(w) + Total(EntryChanges(w), Committed')
             /\ shown'[w] \in Int
  <2> DEFINE S == Committed \cup {p}
  <2>1. S \in SUBSET Entries /\ p \in S /\ S \ {p} = Committed
    BY <1>3
  <2> HIDE DEF S
  <2>2. /\ IsFiniteSet(S) /\ \A q \in S : EntryChanges(w)[q] \in Int
        /\ EntryChanges(w)[p] = ChangeOn(EntryOf[p], w) /\ Total(EntryChanges(w), S) \in Int
    BY <2>1, EntrySum
  <2>3. Total(EntryChanges(w), S) = EntryChanges(w)[p] + Total(EntryChanges(w), S \ {p})
    BY <2>1, <2>2, TotalRemove
  <2>4. Total(EntryChanges(w), Committed) \in Int
    BY <1>3, EntrySum
  <2>5. Committed' = S
    BY <1>3 DEF S
  <2>6. shown'[w] = shown[w] + EntryChanges(w)[p]
    BY <1>2, <2>2
  <2>7. BooksAt(w) \in Int /\ shown[w] = BooksAt(w) + Total(EntryChanges(w), Committed)
    BY <1>1, BooksType
  <2>8. EntryChanges(w)[p] \in Int
    BY <2>1, <2>2
  <2>9. /\ Total(EntryChanges(w), Committed') = Total(EntryChanges(w), S)
        /\ Total(EntryChanges(w), S \ {p}) = Total(EntryChanges(w), Committed)
    BY <2>1, <2>5
  <2>10. QED
    BY <2>3, <2>4, <2>6, <2>7, <2>8, <2>9
<1>5. shown' \in [Wallets -> Int]
  BY <1>2, <1>4
<1>6. entry' \in [Entries -> {"pending", "committed", "abandoned"}]
  BY <1>1, <1>2 DEF ReconcileTypeOK
<1>7. ReconcileTypeOK'
  BY <1>1, <1>5, <1>6 DEF ReconcileTypeOK
<1>8. HasDrift' <=> HasDrift
  BY SameReport
<1>9. QED
  BY <1>4, <1>7, <1>8, SameBooks DEF ReconcileInv

(* Whatever leaves the balances and the commits alone. *)
LEMMA QuietBooks ==
  ASSUME ReconcileInv, ReconcileTypeOK', UNCHANGED <<shown, books>>, Committed' = Committed,
         "wallets" \in audit'.got =>
           \A w \in Wallets : audit'.balances[w] = BooksAt(w) + Total(EntryChanges(w), audit'.at),
         audit'.exit \in {0, 2} => audit'.got = Sources,
         audit'.exit = 0 => ~HasDrift'
  PROVE  ReconcileInv'
BY SameBooks DEF ReconcileInv

LEMMA ReconcileStep == ReconcileInv /\ ReconcileNext => ReconcileInv'
<1> SUFFICES ASSUME ReconcileInv, ReconcileNext PROVE ReconcileInv'
  OBVIOUS
<1>1. /\ ReconcileTypeOK
      /\ shown \in [Wallets -> Int] /\ entry \in [Entries -> {"pending", "committed", "abandoned"}]
      /\ audit \in [got : SUBSET Sources, balances : [Wallets -> Int], at : SUBSET Entries,
                    rows : SUBSET Entries, plans : SUBSET Entries, exit : -1..2]
  BY DEF ReconcileInv, ReconcileTypeOK
<1>2. Committed \subseteq Entries
  BY DEF Committed
<1>3. CASE Program!Next /\ UNCHANGED <<books, audit>>
  <2>1. CASE \E p \in Entries : Program!Commit(p)
    BY <1>3, <2>1, CommitBooks
  <2>2. CASE \E P \in SUBSET Entries : Program!Abandon(P)
    <3>1. PICK P \in SUBSET Entries :
            /\ \A p \in P : entry[p] = "pending"
            /\ entry' = [p \in Entries |-> IF p \in P THEN "abandoned" ELSE entry[p]]
            /\ shown' = shown
      BY <2>2 DEF Program!Abandon
    <3>2. Committed' = Committed
      BY <1>1, <3>1 DEF Committed
    <3>3. ReconcileTypeOK'
      BY <1>1, <1>3, <3>1 DEF ReconcileTypeOK
    <3>4. HasDrift' <=> HasDrift
      BY <1>3, SameReport
    <3>5. QED
      BY <1>3, <3>1, <3>2, <3>3, <3>4, QuietBooks DEF ReconcileInv
  <2>3. QED
    BY <1>3, <2>1, <2>2 DEF Program!Next
<1>4. CASE ReadWallets
  <2>1. /\ audit' = [[audit EXCEPT !.balances = shown, !.at = Committed] EXCEPT !.got = audit.got \cup {"wallets"}]
        /\ audit.exit = -1 /\ UNCHANGED <<shown, entry, books>>
    BY <1>1, <1>4 DEF ReadWallets, AuditReads, AuditIdle
  <2>2. /\ audit'.balances = shown /\ audit'.at = Committed /\ audit'.exit = -1
        /\ audit'.got = audit.got \cup {"wallets"}
        /\ audit'.rows = audit.rows /\ audit'.plans = audit.plans
    BY <1>1, <2>1
  <2>3. audit' \in [got : SUBSET Sources, balances : [Wallets -> Int], at : SUBSET Entries,
                    rows : SUBSET Entries, plans : SUBSET Entries, exit : -1..2]
    BY <1>1, <1>2, <2>1 DEF Sources
  <2>4. ReconcileTypeOK' /\ Committed' = Committed
    BY <1>1, <2>1, <2>3 DEF ReconcileTypeOK, Committed
  <2>5. QED
    BY <2>1, <2>2, <2>4, QuietBooks DEF ReconcileInv
<1>5. CASE ReadRows \/ ReadInstallments
  <2>1. PICK s \in {"rows", "installments"}, R \in SUBSET Entries, I \in SUBSET Entries :
          /\ audit' = [audit EXCEPT !.rows = R, !.plans = I, !.got = audit.got \cup {s}]
          /\ audit.exit = -1 /\ UNCHANGED <<shown, entry, books>>
    <3>1. CASE ReadRows
      <4>1. audit' = [audit EXCEPT !.rows = Committed, !.plans = audit.plans, !.got = audit.got \cup {"rows"}]
        BY <1>1, <3>1 DEF ReadRows, AuditReads
      <4>2. QED
        BY <1>1, <1>2, <3>1, <4>1 DEF ReadRows, AuditReads, AuditIdle
    <3>2. CASE ReadInstallments
      <4> DEFINE I == Committed
      <4>1. I \in SUBSET Entries
        BY <1>2
      <4>2. audit' = [[audit EXCEPT !.plans = I] EXCEPT !.got = audit.got \cup {"installments"}]
        BY <1>1, <3>2 DEF ReadInstallments, AuditReads
      <4> HIDE DEF I
      <4>3. audit' = [audit EXCEPT !.rows = audit.rows, !.plans = I, !.got = audit.got \cup {"installments"}]
        BY <1>1, <4>2
      <4>4. QED
        BY <1>1, <3>2, <4>1, <4>3 DEF ReadInstallments, AuditReads, AuditIdle
    <3>3. QED
      BY <1>5, <3>1, <3>2
  <2>2. /\ audit'.balances = audit.balances /\ audit'.at = audit.at /\ audit'.exit = -1
        /\ audit'.got = audit.got \cup {s}
    BY <1>1, <2>1
  <2>3. audit' \in [got : SUBSET Sources, balances : [Wallets -> Int], at : SUBSET Entries,
                    rows : SUBSET Entries, plans : SUBSET Entries, exit : -1..2]
    BY <1>1, <2>1 DEF Sources
  <2>4. ReconcileTypeOK' /\ Committed' = Committed
    BY <1>1, <2>1, <2>3 DEF ReconcileTypeOK, Committed
  <2>5. QED
    BY <2>1, <2>2, <2>4, QuietBooks DEF ReconcileInv
<1>6. CASE AuditEnds \/ AuditFails
  <2>1. PICK x \in 0..2 :
          /\ audit' = [audit EXCEPT !.exit = x] /\ UNCHANGED <<shown, entry, books>>
          /\ x \in {0, 2} => audit.got = Sources
          /\ x = 0 => ~HasDrift
    <3>1. CASE AuditEnds
      <4>1. CASE HasDrift
        BY <3>1, <4>1 DEF AuditEnds
      <4>2. CASE ~HasDrift
        BY <3>1, <4>2 DEF AuditEnds
      <4>3. QED
        BY <4>1, <4>2
    <3>2. CASE AuditFails
      BY <3>2 DEF AuditFails
    <3>3. QED
      BY <1>6, <3>1, <3>2
  <2>2. /\ audit'.balances = audit.balances /\ audit'.at = audit.at /\ audit'.exit = x
        /\ audit'.got = audit.got /\ audit'.rows = audit.rows /\ audit'.plans = audit.plans
    BY <1>1, <2>1
  <2>3. audit' \in [got : SUBSET Sources, balances : [Wallets -> Int], at : SUBSET Entries,
                    rows : SUBSET Entries, plans : SUBSET Entries, exit : -1..2]
    BY <1>1, <2>1
  <2>4. ReconcileTypeOK' /\ Committed' = Committed
    BY <1>1, <2>1, <2>3 DEF ReconcileTypeOK, Committed
  <2>5. HasDrift' <=> HasDrift
    BY <2>1, <2>2, SameReport
  <2>6. QED
    BY <2>1, <2>2, <2>4, <2>5, QuietBooks DEF ReconcileInv
<1>7. QED
  BY <1>3, <1>4, <1>5, <1>6 DEF ReconcileNext

LEMMA ReconcileStutter == ReconcileInv /\ UNCHANGED auditVars => ReconcileInv'
<1> SUFFICES ASSUME ReconcileInv, UNCHANGED auditVars PROVE ReconcileInv'
  OBVIOUS
<1>1. UNCHANGED <<shown, books>> /\ entry' = entry /\ audit' = audit
  BY DEF auditVars
<1>2. ReconcileTypeOK' /\ Committed' = Committed
  BY <1>1 DEF ReconcileInv, ReconcileTypeOK, Committed
<1>3. HasDrift' <=> HasDrift
  BY <1>1, SameReport
<1>4. QED
  BY <1>1, <1>2, <1>3, QuietBooks DEF ReconcileInv

-----------------------------------------------------------------------------
(* What the report says. *)

(* A row that was not torn counts for what its version does to the wallet:  *)
(* an installment that the third query missed is one that was bought or     *)
(* deleted meanwhile; with an effect it would be torn, and one without has  *)
(* neither a debt nor a monthly amount.                                     *)
LEMMA CountsForEffect ==
  ASSUME ReconcileTypeOK, NEW w \in Wallets, TornBy(w) = {}, NEW p \in Entries
  PROVE  EffectOn(AuditedRow(p), w) = EffectOn(Version(p, audit.rows), w)
<1> DEFINE e == Version(p, audit.rows)
           seen == Version(p, audit.plans).isInstallment
           total == IF seen THEN e.grandTotal ELSE e.amount
           a == [e EXCEPT !.grandTotal = total]
<1>1. e \in EffectInputs \cup {NoEffect}
  BY EntryIs DEF Version
<1>2. /\ e.type \in TxTypes /\ e.amount \in Int /\ e.grandTotal \in Int /\ e.isInstallment \in BOOLEAN
      /\ e = [type |-> e.type, amount |-> e.amount, wallet |-> e.wallet, to |-> e.to,
              isInstallment |-> e.isInstallment, grandTotal |-> e.grandTotal]
  <2> HIDE DEF e
  <2>1. CASE e \in EffectInputs
    BY <2>1 DEF EffectInputs
  <2>2. CASE e = NoEffect
    BY <2>2 DEF NoEffect, TxTypes
  <2>3. QED
    BY <1>1, <2>1, <2>2
<1>3. AuditedRow(p) = a
  BY <1>2 DEF AuditedRow
<1>4. /\ a.type = e.type /\ a.amount = e.amount /\ a.wallet = e.wallet /\ a.to = e.to
      /\ a.isInstallment = e.isInstallment /\ a.grandTotal = total
  <2>1. PICK f : f = e
    OBVIOUS
  <2>2. PICK g : g = total
    OBVIOUS
  <2>3. a = [f EXCEPT !.grandTotal = g]
    BY <2>1, <2>2
  <2> HIDE DEF a, total, e, seen
  <2>4. QED
    BY <1>2, <2>1, <2>2, <2>3
<1>5. CASE ~e.isInstallment
  <2> HIDE DEF a, total, e, seen
  <2>1. EffectOn(a, w) = EffectOn(e, w)
    BY <1>4, <1>5 DEF EffectOn, SourceDelta, HasDestination
  <2>2. QED
    BY <1>3, <2>1 DEF e
<1>6. CASE e.isInstallment /\ seen
  <2>1. total = e.grandTotal
    BY <1>6
  <2> HIDE DEF a, total, e, seen
  <2>2. EffectOn(a, w) = EffectOn(e, w)
    BY <1>4, <2>1 DEF EffectOn, SourceDelta, HasDestination
  <2>3. QED
    BY <1>3, <2>2 DEF e
<1>7. CASE e.isInstallment /\ ~seen
  <2>1. ChangeOn(EntryOf[p], w) = 0
    BY <1>7 DEF TornBy
  <2>2. /\ e \in {EntryOf[p].before, EntryOf[p].after}
        /\ NoEffect \in {EntryOf[p].before, EntryOf[p].after}
        /\ e.grandTotal = 0 => e.amount = 0
    <3>1. e \in {EntryOf[p].before, EntryOf[p].after}
      BY DEF Version
    <3>2. QED
      BY <1>7, <3>1, BooksAssumption
  <2>3. e # NoEffect
    BY <1>7 DEF NoEffect
  <2> HIDE DEF a, total, e, seen
  <2>4. EffectOn(NoEffect, w) = 0
    BY NoWalletAssumption DEF NoEffect, EffectOn, SourceDelta, HasDestination
  <2>5. EffectOn(e, w) \in Int
    BY <1>1, InputEffect
  <2>6. EffectOn(e, w) = 0
    <3> DEFINE b == EntryOf[p].before
               c == EntryOf[p].after
    <3>1. -EffectOn(b, w) + EffectOn(c, w) = 0
      BY <2>1 DEF ChangeOn, ReverseOn
    <3>2. (e = b /\ c = NoEffect) \/ (e = c /\ b = NoEffect)
      BY <2>2, <2>3
    <3> HIDE DEF b, c
    <3>3. CASE e = b /\ c = NoEffect
      BY <2>4, <2>5, <3>1, <3>3
    <3>4. CASE e = c /\ b = NoEffect
      BY <2>4, <2>5, <3>1, <3>4
    <3>5. QED
      BY <3>2, <3>3, <3>4
  <2>7. w = e.wallet => e.grandTotal = 0
    <3> SUFFICES ASSUME w = e.wallet PROVE e.grandTotal = 0
      OBVIOUS
    <3>1. PICK n \in Int : n = e.grandTotal
      BY <1>2
    <3>2. EffectOn(e, w) = -n + 0
      BY <1>7, <3>1 DEF EffectOn, SourceDelta, HasDestination
    <3>3. n = 0
      BY <2>6, <3>2
    <3>4. QED
      BY <3>1, <3>3
  <2>8. w = e.wallet => total = 0
    BY <1>7, <2>2, <2>7 DEF total
  <2>9. EffectOn(a, w) = 0
    BY <1>4, <1>7, <2>8 DEF EffectOn, SourceDelta, HasDestination
  <2>10. QED
    BY <1>3, <2>6, <2>9 DEF e
<1>8. QED
  BY <1>2, <1>5, <1>6, <1>7

(* The balances that were read and the rows that were read tell of the same *)
(* effects on a wallet.                                                     *)
LEMMA UntornSums ==
  ASSUME ReconcileTypeOK, NEW w \in Wallets, TornBy(w) = {}
  PROVE  Total(AuditedEffects(w), Entries)
           = Total(BeforeEffects(w), Entries) + Total(EntryChanges(w), audit.at)
<1> DEFINE E == EntryChanges(w)
           B == BeforeEffects(w)
           A == AuditedEffects(w)
           at == audit.at
           rows == audit.rows
           both == at \cap rows
           Z == [p \in Entries |-> IF p \in rows THEN E[p] ELSE 0]
<1>1. at \in SUBSET Entries /\ rows \in SUBSET Entries /\ both \in SUBSET at /\ both \in SUBSET rows
  BY DEF ReconcileTypeOK
<1>2. \A p \in (at \ both) \cup (rows \ both) : ChangeOn(EntryOf[p], w) = 0
  BY DEF TornBy
<1>3. ASSUME NEW p \in Entries
      PROVE  /\ B[p] \in Int /\ E[p] \in Int /\ E[p] = ChangeOn(EntryOf[p], w)
             /\ A[p] = B[p] + Z[p]
  <2>1. A[p] = EffectOn(Version(p, rows), w)
    BY CountsForEffect DEF AuditedEffects
  <2>2. B[p] = EffectOn(EntryOf[p].before, w) /\ E[p] = ChangeOn(EntryOf[p], w)
    BY DEF BeforeEffects, EntryChanges
  <2>3. EffectOn(EntryOf[p].before, w) \in Int /\ EffectOn(EntryOf[p].after, w) \in Int
    BY EntryIs, InputEffect
  <2>4. Z[p] = IF p \in rows THEN E[p] ELSE 0
    OBVIOUS
  <2> HIDE DEF A, B, E, Z, rows
  <2>5. ChangeOn(EntryOf[p], w) = EffectOn(EntryOf[p].after, w) - EffectOn(EntryOf[p].before, w)
    BY <2>3 DEF ChangeOn, ReverseOn
  <2>6. QED
    BY <2>1, <2>2, <2>3, <2>4, <2>5 DEF Version
<1>4. IsFiniteSet(Entries) /\ IsFiniteSet(at) /\ IsFiniteSet(rows)
  BY <1>1, BooksAssumption, FS_Subset
<1>5. /\ \A p \in Entries : Z[p] \in Int
      /\ \A p \in Entries \ rows : Z[p] = 0
      /\ \A p \in rows : Z[p] = E[p]
  BY <1>1, <1>3
<1> HIDE DEF A, B, E, Z, at, rows, both
<1>6. Total(A, Entries) = Total(B, Entries) + Total(Z, Entries)
  BY <1>3, <1>4, <1>5, TotalPlus
<1>7. Total(Z, rows) = Total(Z, Entries)
  BY <1>1, <1>4, <1>5, TotalExtend
<1>8. Total(Z, rows) = Total(E, rows)
  BY <1>4, <1>5, TotalEqual
<1>9. /\ \A p \in at : E[p] \in Int
      /\ \A p \in rows : E[p] \in Int
      /\ \A p \in at \ both : E[p] = 0
      /\ \A p \in rows \ both : E[p] = 0
  BY <1>1, <1>2, <1>3
<1>10. Total(E, both) = Total(E, rows)
  BY <1>1, <1>4, <1>9, TotalExtend
<1>11. Total(E, both) = Total(E, at)
  BY <1>1, <1>4, <1>9, TotalExtend
<1>12. QED
  BY <1>6, <1>7, <1>8, <1>10, <1>11 DEF A, B, E, at

LEMMA ReportTrue ==
  ASSUME ReconcileInv, audit.exit \in {0, 2}, NEW w \in Wallets, TornBy(w) = {}
  PROVE  DriftSeen(w) = books.damage[w]
<1>1. ReconcileTypeOK /\ audit.balances[w] = BooksAt(w) + Total(EntryChanges(w), audit.at)
  BY DEF ReconcileInv, Sources
<1>2. Total(AuditedEffects(w), Entries)
        = Total(BeforeEffects(w), Entries) + Total(EntryChanges(w), audit.at)
  BY <1>1, UntornSums
<1>3. audit.at \in SUBSET Entries
  BY <1>1 DEF ReconcileTypeOK
<1>4. Total(EntryChanges(w), audit.at) \in Int
  BY <1>3, EntrySum
<1>5. QED
  BY <1>1, <1>2, <1>4, BooksType DEF DriftSeen, ExpectedOf, BooksAt

LEMMA NothingAutomatic ==
  ASSUME NEW x \in RepairPlan({})
  PROVE  ~x.autoApply /\ (LegacyCount(x.wallet) > 0 => x.manual)
<1>1. PICK w \in Wallets :
        /\ Classify(w)[1] # "CLEAN"
        /\ x = [wallet |-> w, difference |-> -DriftSeen(w),
                manual |-> RepairConfidence(w, {}) = "LOW",
                autoApply |-> RepairConfidence(w, {}) = "HIGH"]
  BY DEF RepairPlan
<1>2. RepairConfidence(w, {}) = Classify(w)[2]
  BY DEF RepairConfidence
<1>3. Classify(w)[2] # "HIGH" /\ (LegacyCount(w) > 0 => Classify(w)[2] = "LOW")
  <2>1. CASE DriftSeen(w) = 0
    BY <1>1, <2>1 DEF Classify
  <2>2. CASE DriftSeen(w) # 0 /\ LegacyCount(w) > 0
    BY <2>2 DEF Classify
  <2>3. CASE DriftSeen(w) # 0 /\ ~(LegacyCount(w) > 0) /\ books.initial[w] = 0
    BY <2>3 DEF Classify
  <2>4. CASE DriftSeen(w) # 0 /\ ~(LegacyCount(w) > 0) /\ books.initial[w] # 0
    BY <2>4 DEF Classify
  <2>5. QED
    BY <2>1, <2>2, <2>3, <2>4
<1>4. QED
  BY <1>1, <1>2, <1>3

LEMMA InvSound == ReconcileInv => AuditSound
<1> SUFFICES ASSUME ReconcileInv, audit.exit \in {0, 2}
             PROVE  /\ \A w \in Wallets : TornBy(w) = {} => DriftSeen(w) = books.damage[w]
                    /\ audit.exit = 0 => \A w \in Wallets : TornBy(w) = {} => books.damage[w] = 0
                    /\ \A x \in RepairPlan({}) : ~x.autoApply /\ (LegacyCount(x.wallet) > 0 => x.manual)
  BY DEF AuditSound
<1>1. \A w \in Wallets : TornBy(w) = {} => DriftSeen(w) = books.damage[w]
  BY ReportTrue
<1>2. audit.exit = 0 => \A w \in Wallets : TornBy(w) = {} => books.damage[w] = 0
  <2>1. ASSUME ~HasDrift, NEW w \in Wallets PROVE DriftSeen(w) = 0
    BY <2>1 DEF HasDrift, Classify
  <2>2. QED
    BY <1>1, <2>1 DEF ReconcileInv
<1>3. QED
  BY <1>1, <1>2, NothingAutomatic

(* Types, and the books behind every balance, whatever the program commits  *)
(* between the queries.                                                     *)
THEOREM BooksKept == ReconcileSpec => []ReconcileInv
<1>1. ReconcileInv /\ [ReconcileNext]_auditVars => ReconcileInv'
  BY ReconcileStep, ReconcileStutter
<1>2. QED
  BY ReconcileInvInit, <1>1, PTL DEF ReconcileSpec

(* auditWalletBalances, classify, buildRepairPlan: a wallet on which no     *)
(* commit fell between the queries is reported with the drift it has, exit  *)
(* code 0 says there is none, and no repair is proposed for automatic use.  *)
THEOREM AuditsAreSound == ReconcileSpec => []AuditSound
BY BooksKept, InvSound, PTL
=============================================================================
