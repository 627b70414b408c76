---------------------------- MODULE CalendarProofs ----------------------------
(***************************************************************************)
(* The calendar of domain/billingCycle.ts, for every date: what clamping,  *)
(* adding months and subtracting days return.  With it the reminder engine *)
(* day by day, for any recurrence, and a bill term by term, for any        *)
(* principal, rate, term and day of purchase.                              *)
(***************************************************************************)
EXTENDS Plans, DailyReminders, TLAPS

-----------------------------------------------------------------------------
(* The number of a date, by year, month and day, and by its month counted   *)
(* from year 0 and day; the days of a month.                                *)
Number(y, m, d) == 10000 * y + 100 * m + d
DateIn(i, d) == Number(i \div 12, (i % 12) + 1, d)
DaysOf(i) == DaysIn(i \div 12, (i % 12) + 1)

LEMMA DaysOfType == ASSUME NEW i PROVE DaysOf(i) \in Int /\ 28 <= DaysOf(i) /\ DaysOf(i) <= 31
BY DEF DaysOf, DaysIn

(* The parts of a number of eight digits, and the number of its parts.      *)
LEMMA Coordinates ==
  ASSUME NEW y \in Int, NEW m \in 1..12, NEW d \in 1..31
  PROVE  /\ Number(y, m, d) \in Int /\ Year(Number(y, m, d)) = y
         /\ Month(Number(y, m, d)) = m /\ Day(Number(y, m, d)) = d
<1> DEFINE n == 10000 * y + 100 * m + d
<1>1. n \in Int /\ n % 100 = d /\ n \div 100 = 100 * y + m
  OBVIOUS
<1>2. n \div 10000 = y
  OBVIOUS
<1>3. (100 * y + m) % 100 = m
  OBVIOUS
<1>4. QED
  BY <1>1, <1>2, <1>3 DEF Year, Month, Day, Number

LEMMA DateParts ==
  ASSUME NEW d \in Int
  PROVE  /\ d = Number(Year(d), Month(d), Day(d))
         /\ Year(d) \in Int /\ Month(d) \in 0..99 /\ Day(d) \in 0..99
<1> DEFINE c == d \div 100
<1>1. d = 100 * c + (d % 100) /\ d % 100 \in 0..99
  OBVIOUS
<1>2. c \in Int /\ c = 100 * (c \div 100) + (c % 100) /\ c % 100 \in 0..99
  OBVIOUS
<1>3. c \div 100 = d \div 10000
  OBVIOUS
<1>4. QED
  BY <1>1, <1>2, <1>3 DEF Year, Month, Day, Number

(* Months by their index. *)
LEMMA MonthParts ==
  ASSUME NEW i \in Int
  PROVE  i \div 12 \in Int /\ (i % 12) + 1 \in 1..12 /\ 12 * (i \div 12) + ((i % 12) + 1) - 1 = i
OBVIOUS

LEMMA IndexParts ==
  ASSUME NEW y \in Int, NEW m \in 1..12
  PROVE  (12 * y + m - 1) \div 12 = y /\ ((12 * y + m - 1) % 12) + 1 = m
OBVIOUS

(* A date is a month and one of its days. *)
LEMMA DateIs ==
  ASSUME NEW d \in Int, IsDate(d)
  PROVE  /\ MonthIndex(d) \in Int /\ Day(d) \in Int /\ 1 <= Day(d) /\ Day(d) <= DaysOf(MonthIndex(d))
         /\ Day(d) \in 1..31 /\ DaysIn(Year(d), Month(d)) = DaysOf(MonthIndex(d))
         /\ d = DateIn(MonthIndex(d), Day(d))
<1>1. Year(d) \in Int /\ Month(d) \in 1..12 /\ Day(d) \in 1..DaysIn(Year(d), Month(d))
  BY DateParts DEF IsDate
<1>2. MonthIndex(d) \div 12 = Year(d) /\ (MonthIndex(d) % 12) + 1 = Month(d)
  BY <1>1, IndexParts DEF MonthIndex
<1>3. DaysIn(Year(d), Month(d)) = DaysOf(MonthIndex(d)) /\ d = DateIn(MonthIndex(d), Day(d))
  BY <1>2, DateParts DEF DaysOf, DateIn
<1>4. MonthIndex(d) \in Int
  BY <1>1 DEF MonthIndex
<1>5. DaysOf(MonthIndex(d)) \in Int /\ DaysOf(MonthIndex(d)) <= 31
  BY DaysOfType
<1>6. QED
  BY <1>1, <1>3, <1>4, <1>5

LEMMA DateOf ==
  ASSUME NEW i \in Int, NEW day \in Int, 1 <= day, day <= DaysOf(i)
  PROVE  /\ DateIn(i, day) \in Int /\ IsDate(DateIn(i, day))
         /\ MonthIndex(DateIn(i, day)) = i /\ Day(DateIn(i, day)) = day
<1>1. PICK y \in Int, m \in 1..12 : y = i \div 12 /\ m = (i % 12) + 1 /\ 12 * y + m - 1 = i
  <2>1. i \div 12 \in Int /\ (i % 12) + 1 \in 1..12 /\ 12 * (i \div 12) + ((i % 12) + 1) - 1 = i
    BY MonthParts
  <2>2. QED
    BY <2>1
<1>2. day \in 1..31
  BY DaysOfType
<1>3. day <= DaysIn(y, m)
  BY <1>1 DEF DaysOf
<1>4. PICK n : n = Number(y, m, day)
  OBVIOUS
<1>5. n = DateIn(i, day)
  BY <1>1, <1>4 DEF DateIn
<1>6. n \in Int /\ Year(n) = y /\ Month(n) = m /\ Day(n) = day
  BY <1>2, <1>4, Coordinates
<1>7. IsDate(n) /\ MonthIndex(n) = i
  BY <1>1, <1>2, <1>3, <1>6 DEF IsDate, MonthIndex
<1>8. QED
  BY <1>5, <1>6, <1>7

LEMMA SameDate ==
  ASSUME NEW a \in Int, NEW b \in Int, IsDate(a), IsDate(b), MonthIndex(a) = MonthIndex(b), Day(a) = Day(b)
  PROVE  a = b
BY DateIs

LEMMA NotNoDate == ASSUME NEW d, IsDate(d) PROVE d # NoDate
BY DEF IsDate, NoDate, Month

(* The numbers compare like the dates. *)
LEMMA DateOrder ==
  ASSUME NEW a \in Int, NEW b \in Int, IsDate(a), IsDate(b)
  PROVE  a < b <=> \/ MonthIndex(a) < MonthIndex(b)
                   \/ MonthIndex(a) = MonthIndex(b) /\ Day(a) < Day(b)
<1>1. ASSUME NEW d \in Int, IsDate(d)
      PROVE  /\ Year(d) \in Int /\ Month(d) \in 1..12 /\ Day(d) \in 1..31
             /\ d = 10000 * Year(d) + 100 * Month(d) + Day(d)
             /\ MonthIndex(d) = 12 * Year(d) + Month(d) - 1
  <2>1. Month(d) \in 1..12 /\ MonthIndex(d) = 12 * Year(d) + Month(d) - 1
    BY <1>1 DEF IsDate, MonthIndex
  <2>2. QED
    BY <1>1, <2>1, DateParts, DateIs DEF Number
<1>2. PICK ya \in Int, ma \in 1..12, da \in 1..31 :
        a = 10000 * ya + 100 * ma + da /\ MonthIndex(a) = 12 * ya + ma - 1 /\ Day(a) = da
  BY <1>1
<1>3. PICK yb \in Int, mb \in 1..12, db \in 1..31 :
        b = 10000 * yb + 100 * mb + db /\ MonthIndex(b) = 12 * yb + mb - 1 /\ Day(b) = db
  BY <1>1
<1>4. QED
  BY <1>2, <1>3

(* clampDay, and what is built on it. *)
LEMMA InMonthIs ==
  ASSUME NEW i \in Int, NEW day \in 1..31
  PROVE  /\ InMonth(i, day) \in Int /\ IsDate(InMonth(i, day)) /\ MonthIndex(InMonth(i, day)) = i
         /\ Day(InMonth(i, day)) = IF day <= DaysOf(i) THEN day ELSE DaysOf(i)
<1>1. PICK k : k = IF day <= DaysOf(i) THEN day ELSE DaysOf(i)
  OBVIOUS
<1>2. k \in Int /\ 1 <= k /\ k <= DaysOf(i)
  BY <1>1, DaysOfType
<1>3. InMonth(i, day) = DateIn(i, k)
  BY <1>1 DEF InMonth, ClampDay, DaysOf, DateIn, Number
<1>4. QED
  BY <1>1, <1>2, <1>3, DateOf

LEMMA AddMonthIs ==
  ASSUME NEW d \in Int, IsDate(d), NEW n \in Int
  PROVE  /\ AddBillingMonth(d, n) \in Int /\ IsDate(AddBillingMonth(d, n))
         /\ MonthIndex(AddBillingMonth(d, n)) = MonthIndex(d) + n
         /\ Day(AddBillingMonth(d, n)) = IF Day(d) <= DaysOf(MonthIndex(d) + n) THEN Day(d)
                                         ELSE DaysOf(MonthIndex(d) + n)
<1>1. MonthIndex(d) + n \in Int /\ Day(d) \in 1..31
  BY DateIs
<1>2. QED
  BY <1>1, InMonthIs DEF AddBillingMonth

LEMMA NextDayIs ==
  ASSUME NEW d \in Int, IsDate(d)
  PROVE  /\ NextDay(d) \in Int /\ IsDate(NextDay(d))
         /\ Day(d) < DaysOf(MonthIndex(d)) =>
              MonthIndex(NextDay(d)) = MonthIndex(d) /\ Day(NextDay(d)) = Day(d) + 1
         /\ ~(Day(d) < DaysOf(MonthIndex(d))) =>
              MonthIndex(NextDay(d)) = MonthIndex(d) + 1 /\ Day(NextDay(d)) = 1
<1>1. /\ MonthIndex(d) \in Int /\ Day(d) \in Int /\ 1 <= Day(d) /\ Day(d) <= DaysOf(MonthIndex(d))
      /\ DaysIn(Year(d), Month(d)) = DaysOf(MonthIndex(d)) /\ d = DateIn(MonthIndex(d), Day(d))
  BY DateIs
<1>2. DaysOf(MonthIndex(d)) \in Int
  BY DaysOfType
<1>3. CASE Day(d) < DaysOf(MonthIndex(d))
  <2>1. Day(d) + 1 \in Int /\ 1 <= Day(d) + 1 /\ Day(d) + 1 <= DaysOf(MonthIndex(d))
    BY <1>1, <1>2, <1>3
  <2>2. NextDay(d) = d + 1
    BY <1>1, <1>3 DEF NextDay
  <2>3. NextDay(d) = DateIn(MonthIndex(d), Day(d) + 1)
    BY <1>1, <2>2, MonthParts DEF DateIn, Number
  <2>4. QED
    BY <1>1, <1>3, <2>1, <2>3, DateOf
<1>4. CASE ~(Day(d) < DaysOf(MonthIndex(d)))
  <2>1. NextDay(d) = InMonth(MonthIndex(d) + 1, 1)
    BY <1>1, <1>4 DEF NextDay
  <2>2. MonthIndex(d) + 1 \in Int /\ 1 \in 1..31 /\ 1 <= DaysOf(MonthIndex(d) + 1)
    BY <1>1, DaysOfType
  <2>3. QED
    BY <1>4, <2>1, <2>2, InMonthIs
<1>5. QED
  BY <1>3, <1>4

LEMMA SubtractIs ==
  ASSUME NEW d \in Int, IsDate(d), NEW k \in 0..28
  PROVE  /\ SubtractDays(d, k) \in Int /\ IsDate(SubtractDays(d, k))
         /\ Day(d) > k =>
              MonthIndex(SubtractDays(d, k)) = MonthIndex(d) /\ Day(SubtractDays(d, k)) = Day(d) - k
         /\ ~(Day(d) > k) =>
              /\ MonthIndex(SubtractDays(d, k)) = MonthIndex(d) - 1
              /\ Day(SubtractDays(d, k)) = DaysOf(MonthIndex(d) - 1) + Day(d) - k
<1>1. /\ MonthIndex(d) \in Int /\ Day(d) \in Int /\ 1 <= Day(d) /\ Day(d) <= DaysOf(MonthIndex(d))
      /\ d = DateIn(MonthIndex(d), Day(d)) /\ Day(d) \in 1..31
  BY DateIs
<1>2. CASE Day(d) > k
  <2>1. PICK j \in Int : j = Day(d) - k
    BY <1>1
  <2>2. 1 <= j /\ j <= DaysOf(MonthIndex(d))
    BY <1>1, <1>2, <2>1, DaysOfType
  <2>3. SubtractDays(d, k) = d - k
    BY <1>2 DEF SubtractDays
  <2>4. SubtractDays(d, k) = DateIn(MonthIndex(d), j)
    BY <1>1, <2>1, <2>3, MonthParts DEF DateIn, Number
  <2>5. QED
    BY <1>1, <1>2, <2>1, <2>2, <2>4, DateOf
<1>3. CASE ~(Day(d) > k)
  <2>1. PICK i \in Int : i = MonthIndex(d) - 1
    BY <1>1
  <2>2. DaysOf(i) \in Int /\ 28 <= DaysOf(i) /\ DaysOf(i) <= 31
    BY DaysOfType
  <2>3. PICK last : last = InMonth(i, 31)
    OBVIOUS
  <2>4. last \in Int /\ IsDate(last) /\ MonthIndex(last) = i /\ Day(last) = DaysOf(i)
    <3>1. 31 \in 1..31 /\ (31 <= DaysOf(i) => DaysOf(i) = 31)
      BY <2>2
    <3>2. QED
      BY <2>3, <3>1, InMonthIs
  <2>5. PICK j \in Int : j = DaysOf(i) + Day(d) - k
    BY <1>1, <2>2
  <2>6. 1 <= j /\ j <= DaysOf(i)
    BY <1>1, <1>3, <2>2, <2>5
  <2>7. SubtractDays(d, k) = last + Day(d) - k
    BY <1>3, <2>1, <2>3 DEF SubtractDays
  <2>8. last = DateIn(i, DaysOf(i))
    BY <2>4, DateIs
  <2>9. SubtractDays(d, k) = DateIn(i, j)
    BY <1>1, <2>2, <2>5, <2>7, <2>8, MonthParts DEF DateIn, Number
  <2>10. QED
    BY <1>3, <2>1, <2>5, <2>6, <2>9, DateOf
<1>4. QED
  BY <1>2, <1>3

(* The cut-off of a month, clamped or not, comes at or after a day of it    *)
(* exactly if the number of the day is not greater.                         *)
LEMMA DueIs ==
  ASSUME NEW d \in Int, IsDate(d), NEW cutoff \in 1..31, NEW dueDay \in 1..31
  PROVE  LET due == CalculateFirstDueDate(d, cutoff, dueDay)
         IN /\ due \in Int /\ IsDate(due)
            /\ MonthIndex(due) = MonthIndex(d) + (IF Day(d) <= cutoff THEN 1 ELSE 2)
<1>1. /\ MonthIndex(d) \in Int /\ Day(d) \in Int /\ Day(d) <= DaysOf(MonthIndex(d))
      /\ DaysOf(MonthIndex(d)) \in Int
  BY DateIs, DaysOfType
<1>2. ClampDay(Year(d), Month(d), cutoff) = InMonth(MonthIndex(d), cutoff)
  <2>1. Year(d) \in Int /\ Month(d) \in 1..12
    BY DateParts DEF IsDate
  <2>2. QED
    BY <2>1, IndexParts DEF InMonth, MonthIndex
<1>3. PICK closing : closing = Day(InMonth(MonthIndex(d), cutoff))
  OBVIOUS
<1>4. closing = IF cutoff <= DaysOf(MonthIndex(d)) THEN cutoff ELSE DaysOf(MonthIndex(d))
  BY <1>1, <1>3, InMonthIs
<1>5. Day(d) <= closing <=> Day(d) <= cutoff
  BY <1>1, <1>4
<1>6. PICK i \in Int : i = MonthIndex(d) + (IF Day(d) <= cutoff THEN 1 ELSE 2)
  BY <1>1
<1>7. CalculateFirstDueDate(d, cutoff, dueDay) = InMonth(i, dueDay)
  BY <1>2, <1>3, <1>5, <1>6 DEF CalculateFirstDueDate
<1>8. QED
  BY <1>6, <1>7, InMonthIs

-----------------------------------------------------------------------------
(* The reminder engine, day by day.  The first occurrence of a recurrence   *)
(* is its start.                                                            *)
LEMMA FirstOccurrence ==
  ASSUME NEW start \in Int, IsDate(start)
  PROVE  AddBillingMonth(start, 0) = start
<1>1. PICK a : a = AddBillingMonth(start, 0)
  OBVIOUS
<1>2. /\ MonthIndex(start) \in Int /\ MonthIndex(start) + 0 = MonthIndex(start)
      /\ Day(start) <= DaysOf(MonthIndex(start))
  BY DateIs
<1>3. 0 \in Int
  OBVIOUS
<1>4. a \in Int /\ IsDate(a) /\ MonthIndex(a) = MonthIndex(start) /\ Day(a) = Day(start)
  BY <1>1, <1>2, <1>3, AddMonthIs
<1>5. QED
  BY <1>1, <1>4, SameDate

(* The next occurrence is one of the recurrence and not past its end.       *)
LEMMA NextIsAnOccurrence ==
  ASSUME NEW start \in Int, IsDate(start), NEW end \in Int, NEW t \in Int, IsDate(t),
         NextMonthlyOccurrence(start, end, t) # NoDate
  PROVE  \E n \in Nat : /\ NextMonthlyOccurrence(start, end, t) = AddBillingMonth(start, n)
                        /\ end # NoDate => AddBillingMonth(start, n) <= end
<1>1. PICK m : m = MonthIndex(t) - MonthIndex(start)
  OBVIOUS
<1>2. MonthIndex(t) \in Int /\ MonthIndex(start) \in Int /\ m \in Int
  BY <1>1, DateIs
<1>3. start > t \/ m \in Nat
  BY <1>1, <1>2, DateOrder
<1>4. PICK n \in Nat : AddBillingMonth(start, n) =
        IF start > t THEN start
        ELSE IF AddBillingMonth(start, m) < t THEN AddBillingMonth(start, m + 1) ELSE AddBillingMonth(start, m)
  <2>1. CASE start > t
    BY <2>1, FirstOccurrence
  <2>2. CASE ~(start > t)
    <3>1. m \in Nat /\ m + 1 \in Nat
      BY <1>3, <2>2
    <3>2. QED
      BY <2>2, <3>1
  <2>3. QED
    BY <2>1, <2>2
<1>5. NextMonthlyOccurrence(start, end, t) =
        IF end # NoDate /\ AddBillingMonth(start, n) > end THEN NoDate ELSE AddBillingMonth(start, n)
  BY <1>1, <1>4 DEF NextMonthlyOccurrence
<1>6. AddBillingMonth(start, n) \in Int
  BY AddMonthIs
<1>7. QED
  BY <1>5, <1>6

(* On the reminder day of an occurrence, that occurrence is the next one:   *)
(* an offset of a week at most does not reach back to the one before it.    *)
LEMMA OnItsDay ==
  ASSUME NEW start \in Int, IsDate(start), NEW end \in Int, NEW k \in 0..7, NEW n \in Nat,
         end # NoDate => AddBillingMonth(start, n) <= end
  PROVE  NextMonthlyOccurrence(start, end, SubtractDays(AddBillingMonth(start, n), k)) =
           AddBillingMonth(start, n)
<1>1. PICK o : o = AddBillingMonth(start, n)
  OBVIOUS
<1>2. PICK t : t = SubtractDays(o, k)
  OBVIOUS
<1>3. PICK s \in Int : s = MonthIndex(start)
  BY DateIs
<1>4. PICK i \in Int : i = s + n
  BY <1>3
<1>5. /\ o \in Int /\ IsDate(o) /\ MonthIndex(o) = i
      /\ Day(o) = IF Day(start) <= DaysOf(i) THEN Day(start) ELSE DaysOf(i)
  <2>1. n \in Int /\ MonthIndex(start) + n = i
    BY <1>3, <1>4
  <2>2. QED
    BY <1>1, <2>1, AddMonthIs
<1>6. /\ t \in Int /\ IsDate(t)
      /\ Day(o) > k => MonthIndex(t) = i /\ Day(t) = Day(o) - k
      /\ ~(Day(o) > k) => MonthIndex(t) = i - 1 /\ Day(t) = DaysOf(i - 1) + Day(o) - k
  <2>1. k \in 0..28
    OBVIOUS
  <2>2. QED
    BY <1>2, <1>5, <2>1, SubtractIs
<1>7. /\ Day(o) \in Int /\ 1 <= Day(o) /\ Day(start) \in Int /\ 1 <= Day(start)
      /\ DaysOf(i) \in Int /\ 28 <= DaysOf(i) /\ DaysOf(i - 1) \in Int /\ 28 <= DaysOf(i - 1)
  BY <1>5, DateIs, DaysOfType
<1>8. PICK next : next =
        IF start > t THEN start
        ELSE IF AddBillingMonth(start, MonthIndex(t) - s) < t
             THEN AddBillingMonth(start, MonthIndex(t) - s + 1) ELSE AddBillingMonth(start, MonthIndex(t) - s)
  OBVIOUS
<1>9. n = 0 => o = start
  BY <1>1, FirstOccurrence
<1>10. next = o
  <2>1. CASE Day(o) > k
    <3>1. MonthIndex(t) = i /\ MonthIndex(t) - s = n
      BY <1>4, <1>6, <2>1
    <3>2. start > t => n = 0
      BY <1>3, <1>4, <1>6, <3>1, DateOrder
    <3>3. ~(o < t)
      BY <1>5, <1>6, <1>7, <2>1, DateOrder
    <3>4. QED
      BY <1>1, <1>8, <1>9, <3>1, <3>2, <3>3
  <2>2. CASE ~(Day(o) > k)
    <3>1. MonthIndex(t) = i - 1 /\ MonthIndex(t) - s = n - 1 /\ Day(t) \in Int /\ Day(t) >= 22
      BY <1>4, <1>6, <1>7, <2>2
    <3>2. Day(start) = Day(o) /\ Day(start) <= 7
      BY <1>5, <1>7, <2>2
    <3>3. CASE n = 0
      <4>1. start > t
        BY <1>3, <1>4, <1>6, <3>1, <3>3, DateOrder
      <4>2. QED
        BY <1>8, <1>9, <3>3, <4>1
    <3>4. CASE n # 0
      <4>1. ~(start > t)
        BY <1>3, <1>4, <1>6, <1>7, <3>1, <3>2, <3>4, DateOrder
      <4>2. PICK h : h = AddBillingMonth(start, n - 1)
        OBVIOUS
      <4>3. n - 1 \in Int /\ s + (n - 1) = i - 1
        BY <1>4
      <4>4. h \in Int /\ IsDate(h) /\ MonthIndex(h) = i - 1 /\ Day(h) = Day(start)
        BY <1>3, <1>7, <3>2, <4>2, <4>3, AddMonthIs
      <4>5. h < t
        BY <1>6, <1>7, <3>1, <3>2, <4>4, DateOrder
      <4>6. MonthIndex(t) - s + 1 = n
        BY <3>1
      <4>7. QED
        BY <1>1, <1>8, <3>1, <4>1, <4>2, <4>5, <4>6
    <3>5. QED
      BY <3>3, <3>4
  <2>3. QED
    BY <2>1, <2>2
<1>11. NextMonthlyOccurrence(start, end, t) = IF end # NoDate /\ next > end THEN NoDate ELSE next
  BY <1>3, <1>8 DEF NextMonthlyOccurrence
<1>12. ~(end # NoDate /\ o > end)
  BY <1>1, <1>5
<1>13. QED
  BY <1>1, <1>2, <1>10, <1>11, <1>12

LEMMA NextDayLater ==
  ASSUME NEW b \in Int, IsDate(b)
  PROVE  NextDay(b) \in Int /\ IsDate(NextDay(b)) /\ b < NextDay(b)
<1>1. MonthIndex(b) \in Int /\ Day(b) \in Int
  BY DateIs
<1>2. NextDay(b) \in Int /\ IsDate(NextDay(b))
  BY NextDayIs
<1>3. \/ MonthIndex(b) < MonthIndex(NextDay(b))
      \/ MonthIndex(b) = MonthIndex(NextDay(b)) /\ Day(b) < Day(NextDay(b))
  BY <1>1, NextDayIs
<1>4. QED
  BY <1>2, <1>3, DateOrder

(* There is no date between a day and the next. *)
LEMMA NoDayBetween ==
  ASSUME NEW a \in Int, IsDate(a), NEW b \in Int, IsDate(b), a < NextDay(b)
  PROVE  a <= b
<1>1. PICK d : d = NextDay(b)
  OBVIOUS
<1>2. /\ MonthIndex(a) \in Int /\ MonthIndex(b) \in Int /\ Day(a) \in Int /\ Day(b) \in Int
      /\ 1 <= Day(a) /\ Day(a) <= DaysOf(MonthIndex(a)) /\ Day(b) <= DaysOf(MonthIndex(b))
      /\ DaysOf(MonthIndex(a)) \in Int /\ DaysOf(MonthIndex(b)) \in Int
  BY DateIs, DaysOfType
<1>3. /\ d \in Int /\ IsDate(d)
      /\ \/ MonthIndex(d) = MonthIndex(b) /\ Day(d) = Day(b) + 1
         \/ MonthIndex(d) = MonthIndex(b) + 1 /\ Day(d) = 1 /\ Day(b) = DaysOf(MonthIndex(b))
  BY <1>1, <1>2, NextDayIs
<1>4. \/ MonthIndex(a) < MonthIndex(d)
      \/ MonthIndex(a) = MonthIndex(d) /\ Day(a) < Day(d)
  BY <1>1, <1>3, DateOrder
<1>5. ~(b < a)
  <2>1. SUFFICES ASSUME \/ MonthIndex(b) < MonthIndex(a)
                        \/ MonthIndex(b) = MonthIndex(a) /\ Day(b) < Day(a)
                 PROVE  FALSE
    BY DateOrder
  <2>2. CASE MonthIndex(d) = MonthIndex(b) /\ Day(d) = Day(b) + 1
    BY <1>2, <1>4, <2>1, <2>2
  <2>3. CASE MonthIndex(d) = MonthIndex(b) + 1 /\ Day(d) = 1 /\ Day(b) = DaysOf(MonthIndex(b))
    BY <1>2, <1>4, <2>1, <2>3
  <2>4. QED
    BY <1>3, <2>2, <2>3
<1>6. QED
  BY <1>5

-----------------------------------------------------------------------------
Announced(n, a) ==
  /\ a = [occ |-> Occurrence(n), on |-> SubtractDays(Occurrence(n), setting.offset)]
  /\ Wanted(n)

(* Each event is of an occurrence and was told on its reminder day, a day   *)
(* with a refresh, and each reminder day that has passed with one has told  *)
(* its occurrence.                                                          *)
DailyInv ==
  /\ setting \in Settings /\ today \in Int /\ IsDate(today) /\ refreshed \in BOOLEAN
  /\ setting.from <= today /\ away \subseteq AwayDays /\ \A d \in away : d \in Int /\ d < today
  /\ \A a \in told : SawRefresh(a.on) /\ \E n \in Nat : Announced(n, a)
  /\ \A n \in Nat :
       LET on == SubtractDays(Occurrence(n), setting.offset)
       IN Wanted(n) /\ SawRefresh(on) => [occ |-> Occurrence(n), on |-> on] \in told

LEMMA SettingIs ==
  ASSUME setting \in Settings
  PROVE  /\ setting.start \in Int /\ IsDate(setting.start) /\ setting.from \in Int /\ IsDate(setting.from)
         /\ setting.end \in Int /\ setting.offset \in 0..7
         /\ setting.cutoff \in 1..31 /\ setting.dueDay \in 1..31
BY SettingsAssumption DEF SettingRows

LEMMA OccurrenceIs ==
  ASSUME setting \in Settings, NEW n \in Nat
  PROVE  /\ Occurrence(n) \in Int /\ IsDate(Occurrence(n))
         /\ MonthIndex(Occurrence(n)) = MonthIndex(setting.start) + n
         /\ SubtractDays(Occurrence(n), setting.offset) \in Int
         /\ IsDate(SubtractDays(Occurrence(n), setting.offset))
<1>1. n \in Int /\ setting.offset \in 0..28
  BY SettingIs
<1>2. /\ Occurrence(n) \in Int /\ IsDate(Occurrence(n))
      /\ MonthIndex(Occurrence(n)) = MonthIndex(setting.start) + n
  BY <1>1, SettingIs, AddMonthIs DEF Occurrence
<1>3. QED
  BY <1>1, <1>2, SubtractIs

LEMMA DailyInit == Init => DailyInv
<1> SUFFICES ASSUME Init PROVE DailyInv
  OBVIOUS
<1>1. setting \in Settings /\ today = setting.from /\ refreshed = FALSE /\ told = {} /\ away = {}
  BY DEF Init
<1>2. today \in Int /\ IsDate(today) /\ setting.from <= today
  BY <1>1, SettingIs
<1>3. ASSUME NEW n \in Nat PROVE ~SawRefresh(SubtractDays(Occurrence(n), setting.offset))
  BY <1>1, <1>2, OccurrenceIs DEF SawRefresh
<1>4. QED
  BY <1>1, <1>2, <1>3 DEF DailyInv

LEMMA RefreshKeeps ==
  ASSUME DailyInv, Refresh
  PROVE  DailyInv'
<1>1. /\ setting \in Settings /\ today \in Int /\ IsDate(today)
      /\ setting' = setting /\ today' = today /\ refreshed' = TRUE /\ told' = told \cup Reminded
      /\ away' = away /\ setting.from <= today /\ setting.from \in Int
      /\ \A d \in away : d \in Int /\ d < today
  BY SettingIs DEF DailyInv, Refresh
<1>2. ASSUME NEW n
      PROVE  Occurrence(n)' = Occurrence(n) /\ Wanted(n)' = Wanted(n)
  BY <1>1 DEF Occurrence, Wanted
<1>3. \A a \in Reminded : a.on = today /\ \E n \in Nat : Announced(n, a)
  <2> SUFFICES ASSUME NEW a \in Reminded PROVE a.on = today /\ \E n \in Nat : Announced(n, a)
    OBVIOUS
  <2>1. PICK occ : occ = NextMonthlyOccurrence(setting.start, setting.end, today)
    OBVIOUS
  <2>2. occ # NoDate /\ SubtractDays(occ, setting.offset) = today /\ a = [occ |-> occ, on |-> today]
    BY <2>1 DEF Reminded
  <2>3. PICK n \in Nat : /\ occ = AddBillingMonth(setting.start, n)
                         /\ setting.end # NoDate => AddBillingMonth(setting.start, n) <= setting.end
    BY <1>1, <2>1, <2>2, SettingIs, NextIsAnOccurrence
  <2>4. QED
    BY <2>2, <2>3 DEF Announced, Occurrence, Wanted
<1>4. ASSUME NEW n \in Nat, Wanted(n), SawRefresh(SubtractDays(Occurrence(n), setting.offset))'
      PROVE  [occ |-> Occurrence(n), on |-> SubtractDays(Occurrence(n), setting.offset)] \in told'
  <2>1. PICK on : on = SubtractDays(Occurrence(n), setting.offset)
    OBVIOUS
  <2>2. on \in Int /\ setting.from <= on /\ on \notin away /\ (on < today \/ on = today)
    BY <1>1, <1>2, <1>4, <2>1, OccurrenceIs DEF SawRefresh
  <2>3. CASE on < today
    <3>1. SawRefresh(on)
      BY <2>2, <2>3 DEF SawRefresh
    <3>2. QED
      BY <1>1, <1>4, <2>1, <3>1 DEF DailyInv
  <2>4. CASE on = today
    <3>1. NextMonthlyOccurrence(setting.start, setting.end, today) = Occurrence(n)
      <4>1. setting.end # NoDate => AddBillingMonth(setting.start, n) <= setting.end
        BY <1>4 DEF Occurrence, Wanted
      <4>2. today = SubtractDays(AddBillingMonth(setting.start, n), setting.offset)
        BY <2>1, <2>4 DEF Occurrence
      <4>3. QED
        BY <1>1, <4>1, <4>2, SettingIs, OnItsDay DEF Occurrence
    <3>2. Occurrence(n) # NoDate
      BY <1>1, OccurrenceIs, NotNoDate
    <3>3. [occ |-> Occurrence(n), on |-> on] \in Reminded
      BY <2>1, <2>4, <3>1, <3>2 DEF Reminded
    <3>4. QED
      BY <1>1, <2>1, <3>3
  <2>5. QED
    BY <2>2, <2>3, <2>4
<1>5. \A a \in told' : \E n \in Nat : Announced(n, a)'
  BY <1>1, <1>2, <1>3 DEF DailyInv, Announced
<1>6. ASSUME NEW a \in told' PROVE SawRefresh(a.on)'
  <2>1. CASE a \in told
    <3>1. SawRefresh(a.on)
      BY <2>1 DEF DailyInv
    <3>2. QED
      BY <1>1, <3>1 DEF SawRefresh
  <2>2. CASE a \in Reminded
    BY <1>1, <1>3, <2>2 DEF SawRefresh
  <2>3. QED
    BY <1>1, <2>1, <2>2
<1>7. QED
  BY <1>1, <1>2, <1>4, <1>5, <1>6 DEF DailyInv

LEMMA MorningKeeps ==
  ASSUME DailyInv, NextMorning
  PROVE  DailyInv'
<1>1. /\ setting \in Settings /\ today \in Int /\ IsDate(today) /\ refreshed \in BOOLEAN
      /\ setting' = setting /\ today' = NextDay(today) /\ refreshed' = FALSE /\ told' = told
      /\ away' = IF refreshed THEN away ELSE away \cup {today}
      /\ away' \subseteq AwayDays
      /\ setting.from <= today /\ setting.from \in Int
      /\ \A d \in away : d \in Int /\ d < today
  BY SettingIs DEF DailyInv, NextMorning
<1>2. today' \in Int /\ IsDate(today') /\ today < today'
  BY <1>1, NextDayLater
<1>3. setting.from <= today' /\ \A d \in away' : d \in Int /\ d < today'
  BY <1>1, <1>2
<1>4. ASSUME NEW n
      PROVE  Occurrence(n)' = Occurrence(n) /\ Wanted(n)' = Wanted(n)
  BY <1>1 DEF Occurrence, Wanted
<1>5. ASSUME NEW on \in Int, IsDate(on), SawRefresh(on)' PROVE SawRefresh(on)
  <2>1. setting.from <= on /\ on < NextDay(today)
    BY <1>1, <1>5 DEF SawRefresh
  <2>2. on <= today
    BY <1>1, <1>5, <2>1, NoDayBetween
  <2>3. on \notin away' /\ on \notin away
    BY <1>1, <1>5 DEF SawRefresh
  <2>4. on < today \/ (on = today /\ refreshed)
    BY <1>1, <2>2, <2>3
  <2>5. QED
    BY <2>1, <2>3, <2>4 DEF SawRefresh
<1>6. ASSUME NEW n \in Nat, Wanted(n), SawRefresh(SubtractDays(Occurrence(n), setting.offset))'
      PROVE  [occ |-> Occurrence(n), on |-> SubtractDays(Occurrence(n), setting.offset)] \in told
  <2>1. PICK on : on = SubtractDays(Occurrence(n), setting.offset)
    OBVIOUS
  <2>2. on \in Int /\ IsDate(on)
    BY <1>1, <2>1, OccurrenceIs
  <2>3. SawRefresh(on)'
    BY <1>1, <1>4, <1>6, <2>1
  <2>4. SawRefresh(on)
    BY <1>5, <2>2, <2>3
  <2>5. QED
    BY <1>6, <2>1, <2>4 DEF DailyInv
<1>7. \A a \in told' : \E n \in Nat : Announced(n, a)'
  BY <1>1, <1>4 DEF DailyInv, Announced
<1>8. ASSUME NEW a \in told' PROVE SawRefresh(a.on)'
  <2>1. SawRefresh(a.on) /\ a.on \in Int
    BY <1>1, SettingIs, OccurrenceIs DEF DailyInv, Announced
  <2>2. a.on < today \/ (a.on = today /\ refreshed)
    BY <2>1 DEF SawRefresh
  <2>3. a.on \notin away'
    BY <1>1, <2>1, <2>2 DEF SawRefresh
  <2>4. QED
    BY <1>1, <1>2, <2>1, <2>2, <2>3 DEF SawRefresh
<1>9. QED
  BY <1>1, <1>2, <1>3, <1>4, <1>6, <1>7, <1>8 DEF DailyInv

LEMMA DailyStep == DailyInv /\ [Next]_vars => DailyInv'
<1>1. ASSUME DailyInv, UNCHANGED vars PROVE DailyInv'
  BY <1>1 DEF DailyInv, vars, Announced, Occurrence, Wanted, SawRefresh
<1>2. QED
  BY <1>1, RefreshKeeps, MorningKeeps DEF Next

(* Every date that is shown or stored is one of the calendar. *)
THEOREM DatesExist == Spec => []TypeOK
<1>1. DailyInv => TypeOK
  <2> SUFFICES ASSUME DailyInv, NEW a \in told PROVE IsDate(a.occ) /\ IsDate(a.on)
    BY DEF DailyInv, TypeOK
  <2>1. PICK n \in Nat : Announced(n, a)
    BY DEF DailyInv
  <2>2. QED
    BY <2>1, OccurrenceIs DEF DailyInv, Announced
<1>2. QED
  BY DailyInit, DailyStep, <1>1, PTL DEF Spec

(* evaluateReminders, nextMonthlyOccurrence, subtractDays: on whatever days *)
(* it is refreshed, the engine announces every occurrence whose reminder    *)
(* day is among them.                                                       *)
THEOREM EveryOccurrenceTold == Spec => []NothingMissed
<1>1. DailyInv => NothingMissed
  BY SettingsAssumption DEF DailyInv, NothingMissed
<1>2. QED
  BY DailyInit, DailyStep, <1>1, PTL DEF Spec

(* However often it is refreshed, one event for each month, on its reminder *)
(* day or never, and none after the end.                                    *)
THEOREM OneReminderAMonth == Spec => []NothingTwice
<1>1. DailyInv => NothingTwice
  <2> SUFFICES ASSUME DailyInv, NEW a \in told
               PROVE  /\ \A b \in told : MonthIndex(a.occ) = MonthIndex(b.occ) => a = b
                      /\ LET n == MonthIndex(a.occ) - MonthIndex(setting.start)
                         IN n >= 0 /\ a.occ = Occurrence(n) /\ Wanted(n)
                      /\ a.on = SubtractDays(a.occ, setting.offset) /\ SawRefresh(a.on)
    BY DEF NothingTwice
  <2>1. setting \in Settings /\ MonthIndex(setting.start) \in Int
    BY SettingIs, DateIs DEF DailyInv
  <2>2. PICK n \in Nat : Announced(n, a)
    BY DEF DailyInv
  <2>3. MonthIndex(a.occ) = MonthIndex(setting.start) + n /\ a.occ = Occurrence(n) /\ Wanted(n)
    BY <2>1, <2>2, OccurrenceIs DEF Announced
  <2>4. ASSUME NEW b \in told, MonthIndex(a.occ) = MonthIndex(b.occ) PROVE a = b
    <3>1. PICK m \in Nat : Announced(m, b)
      BY DEF DailyInv
    <3>2. MonthIndex(b.occ) = MonthIndex(setting.start) + m
      BY <2>1, <3>1, OccurrenceIs DEF Announced
    <3>3. m = n
      BY <2>1, <2>3, <2>4, <3>2
    <3>4. QED
      BY <2>2, <3>1, <3>3 DEF Announced
  <2>5. MonthIndex(a.occ) - MonthIndex(setting.start) = n
    BY <2>1, <2>3
  <2>6. a.on = SubtractDays(a.occ, setting.offset) /\ SawRefresh(a.on)
    BY <2>2 DEF DailyInv, Announced
  <2>7. QED
    BY <2>3, <2>4, <2>5, <2>6
<1>2. QED
  BY DailyInit, DailyStep, <1>1, PTL DEF Spec

(* calculateFirstDueDate: a purchase is never due in its own month, and the *)
(* due month moves by one exactly when the day of the cut-off has passed.   *)
THEOREM DueMovesAtCutoff == Spec => BillsMoveAtCutoff
<1> DEFINE Moves ==
      LET moved == IF today' # today /\ LastOfPeriod(today) THEN 1 ELSE 0
      IN /\ MonthIndex(DueOf(today)') = MonthIndex(DueOf(today)) + moved
         /\ MonthIndex(DueOf(today)) > MonthIndex(today)
<1>1. ASSUME DailyInv, Next PROVE Moves
  <2>1. /\ setting \in Settings /\ today \in Int /\ IsDate(today)
        /\ setting.cutoff \in 1..31 /\ setting.dueDay \in 1..31
        /\ today' \in Int /\ IsDate(today') /\ setting' = setting
    BY <1>1, DailyStep, SettingIs DEF DailyInv, Next, Refresh, NextMorning
  <2>2. PICK c : c = setting.cutoff
    OBVIOUS
  <2>3. /\ MonthIndex(DueOf(today)) = MonthIndex(today) + (IF Day(today) <= c THEN 1 ELSE 2)
        /\ MonthIndex(DueOf(today)') = MonthIndex(today') + (IF Day(today') <= c THEN 1 ELSE 2)
    BY <2>1, <2>2, DueIs DEF DueOf
  <2>4. /\ MonthIndex(today) \in Int /\ Day(today) \in Int /\ Day(today) <= DaysOf(MonthIndex(today))
        /\ DaysOf(MonthIndex(today)) \in Int
    BY <2>1, DateIs, DaysOfType
  <2>5. MonthIndex(DueOf(today)) > MonthIndex(today)
    BY <2>3, <2>4
  <2>6. CASE Refresh
    BY <2>1, <2>3, <2>4, <2>5, <2>6 DEF Refresh
  <2>7. CASE NextMorning
    <3>1. today' = NextDay(today)
      BY <2>7 DEF NextMorning
    <3>2. LastOfPeriod(today) <=> Day(today) = c \/ (c > Day(today) /\ Day(today') = 1)
      BY <2>2, <3>1 DEF LastOfPeriod
    <3>3. CASE Day(today) < DaysOf(MonthIndex(today))
      <4>1. MonthIndex(today') = MonthIndex(today) /\ Day(today') = Day(today) + 1 /\ Day(today) >= 1
        BY <2>1, <3>1, <3>3, NextDayIs, DateIs
      <4>2. today' # today
        BY <2>4, <4>1
      <4>3. QED
        BY <2>1, <2>2, <2>3, <2>4, <2>5, <3>2, <4>1, <4>2
    <3>4. CASE ~(Day(today) < DaysOf(MonthIndex(today)))
      <4>1. MonthIndex(today') = MonthIndex(today) + 1 /\ Day(today') = 1
        BY <2>1, <3>1, <3>4, NextDayIs
      <4>2. today' # today
        BY <2>4, <4>1
      <4>3. QED
        BY <2>1, <2>2, <2>3, <2>4, <2>5, <3>2, <4>1, <4>2
    <3>5. QED
      BY <3>3, <3>4
  <2>8. QED
    BY <1>1, <2>6, <2>7 DEF Next
<1>2. DailyInv /\ [Next]_vars => [Moves]_vars
  BY <1>1
<1>3. QED
  BY DailyInit, DailyStep, <1>2, PTL DEF Spec, BillsMoveAtCutoff

-----------------------------------------------------------------------------
(* A bill, term by term.  The rounded quotient is at most half too much,    *)
(* and none only if the dividend is less than half the divisor.             *)
LEMMA QuotientType ==
  ASSUME NEW n \in Nat, NEW d \in Nat \ {0}
  PROVE  /\ RoundedQuotient(n, d) \in Nat
         /\ 2 * d * RoundedQuotient(n, d) <= 2 * n + d
         /\ RoundedQuotient(n, d) = 0 => 2 * n < d
<1>1. PICK a : a = 2 * n + d
  OBVIOUS
<1>2. PICK b : b = 2 * d
  OBVIOUS
<1>3. a \in Nat /\ b \in Nat /\ b > 0
  BY <1>1, <1>2
<1>4. a \div b \in Nat /\ b * (a \div b) <= a /\ (a \div b = 0 => a < b)
  BY <1>3
<1>5. QED
  BY <1>1, <1>2, <1>4 DEF RoundedQuotient

LEMMA GrandTotalType ==
  ASSUME NEW x \in Purchases
  PROVE  GrandTotal(x.principal, x.rate, x.months) \in Nat /\ x.months \in Nat \ {0}
<1>1. x.principal \in Nat /\ x.rate \in Nat /\ x.months \in Nat \ {0}
  BY PurchasesAssumption
<1>2. PICK n : n = x.principal * x.rate * x.months
  OBVIOUS
<1>3. n \in Nat
  BY <1>1, <1>2
<1>4. RoundedQuotient(n, 100) \in Nat
  BY <1>3, QuotientType
<1>5. QED
  BY <1>1, <1>2, <1>4 DEF GrandTotal, TotalInterest

(* If the last term would cost nothing or less, the bill is tiny: the       *)
(* monthly amount is rounded up by half a cent at most.                     *)
LEMMA LastTerm ==
  ASSUME NEW g \in Nat, NEW m \in Nat \ {0}, FinalMonthlyAmount(g, MonthlyAmount(g, m), m) <= 0
  PROVE  2 * g <= m * (m - 1)
<1>1. PICK q : q = MonthlyAmount(g, m)
  OBVIOUS
<1>2. q \in Nat /\ 2 * m * q <= 2 * g + m
  BY <1>1, QuotientType DEF MonthlyAmount
<1>3. PICK k : k = m - 1
  OBVIOUS
<1>4. k \in Nat /\ m = k + 1
  BY <1>3
<1>5. g <= q * k
  BY <1>1, <1>2, <1>3, <1>4 DEF FinalMonthlyAmount
<1>6. m * g <= m * (q * k)
  BY <1>2, <1>4, <1>5
<1>7. k * (2 * m * q) <= k * (2 * g + m)
  BY <1>2, <1>4
<1>8. k * (2 * m * q) = 2 * (m * (q * k))
  BY <1>2, <1>4
<1>9. k * (2 * g + m) = 2 * (g * k) + m * k /\ m * g = g * k + g
  BY <1>4
<1>10. g * k \in Int /\ m * k \in Int /\ m * g \in Int /\ m * (q * k) \in Int
  BY <1>2, <1>4
<1>11. 2 * g <= m * k
  <2>1. 2 * (m * g) <= 2 * (g * k) + m * k
    BY <1>6, <1>7, <1>8, <1>9, <1>10
  <2>2. QED
    BY <1>9, <1>10, <2>1
<1>12. QED
  BY <1>3, <1>11

-----------------------------------------------------------------------------
PlanRecords ==
  [status : {"NONE", "ACTIVE", "SETTLED"}, grandTotal : Nat, monthly : Nat, months : Nat \ {0},
   paid : Nat, total : Int, first : Int, due : Int]

(* The due date moves by a month with each term but the last, and its day   *)
(* only ever by the shortness of a month it has come through.               *)
DatesKept ==
  /\ IsDate(plan.first) /\ IsDate(plan.due)
  /\ MonthIndex(plan.due) =
       MonthIndex(plan.first) + (IF plan.status = "ACTIVE" THEN plan.paid ELSE plan.months - 1)
  /\ Day(plan.due) <= Day(plan.first)
  /\ \A m \in MonthIndex(plan.first) .. MonthIndex(plan.due) : Day(plan.due) <= DaysOf(m)
  /\ \/ Day(plan.due) = Day(plan.first)
     \/ \E m \in MonthIndex(plan.first) .. MonthIndex(plan.due) : Day(plan.due) = DaysOf(m)

(* All terms but the last cost the monthly amount, and that is the one      *)
(* computed from the grand total.                                           *)
PlanInv ==
  /\ plan \in PlanRecords
  /\ plan.status = "NONE" => plan = NoPlan
  /\ plan.status = "ACTIVE" =>
       /\ plan.paid < plan.months /\ plan.total = plan.monthly * plan.paid
       /\ plan.monthly = MonthlyAmount(plan.grandTotal, plan.months)
  /\ plan.status = "SETTLED" => plan.total = plan.grandTotal /\ plan.paid = plan.months
  /\ plan.status # "NONE" => DatesKept

LEMMA InitPlans == PlansInit => PlanInv
<1> SUFFICES ASSUME PlansInit PROVE PlanInv
  OBVIOUS
<1>1. NoPlan \in PlanRecords /\ NoPlan.status = "NONE"
  BY DEF NoPlan, PlanRecords, NoDate
<1>2. QED
  BY <1>1 DEF PlansInit, PlanInv

LEMMA PurchaseKeeps ==
  ASSUME PlanInv, NEW x \in Purchases, Purchase(x)
  PROVE  PlanInv'
<1>1. PICK g : g = GrandTotal(x.principal, x.rate, x.months)
  OBVIOUS
<1>2. PICK m : m = MonthlyAmount(g, x.months)
  OBVIOUS
<1>3. PICK f : f = CalculateFirstDueDate(x.day, x.cutoff, x.dueDay)
  OBVIOUS
<1>4. g \in Nat /\ x.months \in Nat \ {0}
  BY <1>1, GrandTotalType
<1>5. m \in Nat
  BY <1>2, <1>4, QuotientType DEF MonthlyAmount
<1>6. f \in Int /\ IsDate(f)
  <2>1. x.day \in Int /\ IsDate(x.day) /\ x.cutoff \in 1..31 /\ x.dueDay \in 1..31
    BY PurchasesAssumption
  <2>2. QED
    BY <1>3, <2>1, DueIs
<1>7. plan' = [status |-> "ACTIVE", grandTotal |-> g, monthly |-> m, months |-> x.months,
               paid |-> 0, total |-> 0, first |-> f, due |-> f]
  BY <1>1, <1>2, <1>3 DEF Purchase
<1>8. plan' \in PlanRecords
  BY <1>4, <1>5, <1>6, <1>7 DEF PlanRecords
<1>9. /\ plan'.status = "ACTIVE" /\ plan'.paid = 0 /\ plan'.total = 0 /\ plan'.months = x.months
      /\ plan'.monthly = m /\ plan'.grandTotal = g /\ plan'.first = f /\ plan'.due = f
  BY <1>7
<1>10. MonthIndex(f) \in Int /\ Day(f) \in Int /\ Day(f) <= DaysOf(MonthIndex(f))
  BY <1>6, DateIs
<1>11. DatesKept'
  <2>1. \A k \in MonthIndex(f) .. MonthIndex(f) : k = MonthIndex(f)
    BY <1>10
  <2>2. QED
    BY <1>6, <1>9, <1>10, <2>1 DEF DatesKept
<1>12. QED
  BY <1>2, <1>4, <1>5, <1>8, <1>9, <1>11 DEF PlanInv

LEMMA PayKeepsDates ==
  ASSUME PlanInv, PayTerm
  PROVE  DatesKept'
<1>1. PICK p : p = plan
  OBVIOUS
<1>2. p \in PlanRecords /\ p.status = "ACTIVE" /\ p.paid < p.months /\ DatesKept
  BY <1>1 DEF PayTerm, PlanInv
<1>3. p.paid \in Int /\ p.months \in Int /\ p.due \in Int /\ p.first \in Int
  BY <1>2 DEF PlanRecords
<1>4. PICK f \in Int : f = MonthIndex(p.first)
  BY <1>1, <1>2, <1>3, DateIs DEF DatesKept
<1>5. PICK i \in Int : i = MonthIndex(p.due)
  BY <1>1, <1>2, <1>3, DateIs DEF DatesKept
<1>6. PICK a \in Int : a = Day(p.first)
  BY <1>1, <1>2, <1>3, DateIs DEF DatesKept
<1>7. PICK b \in 1..31 : b = Day(p.due)
  BY <1>1, <1>2, <1>3, DateIs DEF DatesKept
<1>8. /\ IsDate(p.first) /\ IsDate(p.due) /\ i = f + p.paid /\ b <= a
      /\ \A m \in f..i : b <= DaysOf(m)
      /\ b = a \/ \E m \in f..i : b = DaysOf(m)
  BY <1>1, <1>2, <1>4, <1>5, <1>6, <1>7 DEF DatesKept
<1>9. PICK s : s = IF p.paid + 1 >= p.months THEN "SETTLED" ELSE "ACTIVE"
  OBVIOUS
<1>10. PICK d : d = IF p.paid + 1 >= p.months THEN p.due ELSE AddBillingMonth(p.due, 1)
  OBVIOUS
<1>11. PICK k : k = p.paid + 1
  OBVIOUS
<1>12. /\ plan'.status = s /\ plan'.paid = k /\ plan'.months = p.months
       /\ plan'.first = p.first /\ plan'.due = d
  <2>1. PICK t : t = p.total + NextAmount
    OBVIOUS
  <2>2. plan' = [p EXCEPT !.paid = k, !.total = t, !.status = s, !.due = d]
    BY <1>1, <1>9, <1>10, <1>11, <2>1 DEF PayTerm
  <2>3. QED
    BY <1>2, <2>2 DEF PlanRecords
<1>13. CASE p.paid + 1 >= p.months
  <2>1. s = "SETTLED" /\ d = p.due /\ i = f + (p.months - 1)
    BY <1>2, <1>3, <1>8, <1>9, <1>10, <1>13
  <2>2. QED
    BY <1>4, <1>5, <1>6, <1>7, <1>8, <1>12, <2>1 DEF DatesKept
<1>14. CASE ~(p.paid + 1 >= p.months)
  <2>1. s = "ACTIVE" /\ d = AddBillingMonth(p.due, 1)
    BY <1>9, <1>10, <1>14
  <2>2. PICK j \in Int : j = i + 1
    OBVIOUS
  <2>3. 28 <= DaysOf(j) /\ DaysOf(j) \in Int
    BY DaysOfType
  <2>4. /\ IsDate(d) /\ MonthIndex(d) = j
        /\ Day(d) = IF b <= DaysOf(j) THEN b ELSE DaysOf(j)
    <3>1. 1 \in Int
      OBVIOUS
    <3>2. QED
      BY <1>3, <1>5, <1>7, <1>8, <2>1, <2>2, <3>1, AddMonthIs
  <2>5. \A m \in f..j : m \in f..i \/ m = j
    BY <2>2
  <2>6. j \in f..j /\ \A m \in f..i : m \in f..j
    <3>1. p.paid >= 0
      BY <1>2 DEF PlanRecords
    <3>2. QED
      BY <1>3, <1>8, <2>2, <3>1
  <2>7. j = f + k
    BY <1>3, <1>8, <1>11, <2>2
  <2>8. Day(d) \in Int /\ Day(d) <= b /\ Day(d) <= DaysOf(j)
    BY <2>3, <2>4
  <2>9. \A m \in f..j : Day(d) <= DaysOf(m)
    <3> SUFFICES ASSUME NEW m \in f..j PROVE Day(d) <= DaysOf(m)
      OBVIOUS
    <3>1. DaysOf(m) \in Int
      BY DaysOfType
    <3>2. QED
      BY <1>8, <2>5, <2>8, <3>1
  <2>10. Day(d) = a \/ \E m \in f..j : Day(d) = DaysOf(m)
    BY <1>8, <2>4, <2>6
  <2>11. Day(d) <= a
    BY <1>8, <2>8
  <2>12. QED
    BY <1>4, <1>6, <1>8, <1>12, <2>1, <2>4, <2>7, <2>9, <2>10, <2>11 DEF DatesKept
<1>15. QED
  BY <1>13, <1>14

LEMMA PayKeeps ==
  ASSUME PlanInv, PayTerm
  PROVE  PlanInv'
<1>1. PICK p : p = plan
  OBVIOUS
<1>2. PICK n : n = NextAmount
  OBVIOUS
<1>3. /\ p \in PlanRecords /\ p.status = "ACTIVE"
      /\ p.paid < p.months /\ p.total = p.monthly * p.paid
      /\ p.monthly = MonthlyAmount(p.grandTotal, p.months)
  BY <1>1 DEF PayTerm, PlanInv
<1>4. /\ p.paid \in Nat /\ p.months \in Nat \ {0} /\ p.monthly \in Nat /\ p.grandTotal \in Nat
      /\ p.total \in Int /\ p.due \in Int
  BY <1>3 DEF PlanRecords
<1>5. n = IF p.paid + 1 >= p.months THEN p.grandTotal - p.monthly * (p.months - 1) ELSE p.monthly
  BY <1>1, <1>2 DEF NextAmount, ExpectedAmount, FinalMonthlyAmount
<1>6. n \in Int /\ p.total + n \in Int
  BY <1>4, <1>5
<1>7. PICK s : s = IF p.paid + 1 >= p.months THEN "SETTLED" ELSE "ACTIVE"
  OBVIOUS
<1>8. PICK d : d = IF p.paid + 1 >= p.months THEN p.due ELSE AddBillingMonth(p.due, 1)
  OBVIOUS
<1>9. PICK t : t = p.total + n
  OBVIOUS
<1>10. PICK k : k = p.paid + 1
  OBVIOUS
<1>11. /\ s \in {"NONE", "ACTIVE", "SETTLED"} /\ t \in Int /\ k \in Nat
       /\ d \in Int
  <2>1. AddBillingMonth(p.due, 1) \in Int
    <3>1. IsDate(p.due) /\ 1 \in Int
      BY <1>1, <1>3 DEF PlanInv, DatesKept
    <3>2. QED
      BY <1>4, <3>1, AddMonthIs
  <2>2. QED
    BY <1>4, <1>6, <1>7, <1>8, <1>9, <1>10, <2>1
<1>12. plan' = [p EXCEPT !.paid = k, !.total = t, !.status = s, !.due = d]
  BY <1>1, <1>2, <1>7, <1>8, <1>9, <1>10 DEF PayTerm
<1>13. /\ plan' \in PlanRecords /\ plan'.status = s /\ plan'.paid = k /\ plan'.total = t
       /\ plan'.monthly = p.monthly /\ plan'.months = p.months /\ plan'.grandTotal = p.grandTotal
  BY <1>3, <1>11, <1>12 DEF PlanRecords
<1>14. CASE p.paid + 1 >= p.months
  <2>1. p.months - 1 = p.paid
    BY <1>3, <1>4, <1>14
  <2>2. t = p.monthly * p.paid + (p.grandTotal - p.monthly * p.paid)
    BY <1>3, <1>5, <1>9, <1>14, <2>1
  <2>3. t = p.grandTotal /\ s = "SETTLED"
    BY <1>4, <1>7, <1>14, <2>2
  <2>4. k = p.months
    BY <1>4, <1>10, <2>1
  <2>5. QED
    BY <1>13, <2>3, <2>4, PayKeepsDates DEF PlanInv
<1>15. CASE ~(p.paid + 1 >= p.months)
  <2>1. s = "ACTIVE" /\ k < p.months
    BY <1>4, <1>7, <1>10, <1>15
  <2>2. t = p.monthly * k
    BY <1>3, <1>4, <1>5, <1>9, <1>10, <1>15
  <2>3. QED
    BY <1>3, <1>13, <2>1, <2>2, PayKeepsDates DEF PlanInv
<1>16. QED
  BY <1>14, <1>15

LEMMA StepPlans == PlanInv /\ [PlansNext]_plan => PlanInv'
<1>1. PlanInv /\ plan' = plan => PlanInv'
  BY DEF PlanInv, DatesKept
<1>2. QED
  BY <1>1, PurchaseKeeps, PayKeeps DEF PlansNext

LEMMA PlanMoney == PlanInv => PaidExactly /\ StuckOnlyIfTiny
<1> SUFFICES ASSUME PlanInv PROVE PaidExactly /\ StuckOnlyIfTiny
  OBVIOUS
<1>1. PaidExactly
  BY DEF PlanInv, PaidExactly
<1>2. StuckOnlyIfTiny
  <2> SUFFICES ASSUME plan.status = "ACTIVE", NextAmount <= 0
               PROVE  2 * plan.grandTotal <= plan.months * (plan.months - 1)
    BY DEF StuckOnlyIfTiny
  <2>1. PICK g : g = plan.grandTotal
    OBVIOUS
  <2>2. PICK m : m = plan.months
    OBVIOUS
  <2>3. PICK q : q = plan.monthly
    OBVIOUS
  <2>4. g \in Nat /\ m \in Nat \ {0} /\ q = MonthlyAmount(g, m) /\ plan.paid \in Nat /\ plan.paid < m /\ q \in Nat
    BY <2>1, <2>2, <2>3 DEF PlanInv, PlanRecords
  <2>5. CASE plan.paid + 1 >= m
    <3>1. NextAmount = FinalMonthlyAmount(g, MonthlyAmount(g, m), m)
      BY <2>1, <2>2, <2>3, <2>4, <2>5 DEF NextAmount, ExpectedAmount
    <3>2. 2 * g <= m * (m - 1)
      BY <2>4, <3>1, LastTerm
    <3>3. QED
      BY <2>1, <2>2, <3>2
  <2>6. CASE ~(plan.paid + 1 >= m)
    <3>1. NextAmount = q
      BY <2>2, <2>3, <2>6 DEF NextAmount, ExpectedAmount
    <3>2. q = 0
      BY <2>4, <3>1
    <3>3. 2 * g < m
      BY <2>4, <3>2, QuotientType DEF MonthlyAmount
    <3>4. m - 1 \in Nat /\ m - 1 >= 1
      BY <2>4, <2>6
    <3>5. m <= m * (m - 1)
      BY <2>4, <3>4
    <3>6. 2 * g <= m * (m - 1)
      BY <2>4, <3>3, <3>4, <3>5
    <3>7. QED
      BY <2>1, <2>2, <3>6
  <2>7. QED
    BY <2>5, <2>6
<1>3. QED
  BY <1>1, <1>2

(* The days of the months a bill has come through. *)
LEMMA LengthsAre ==
  ASSUME NEW f \in Int, NEW i \in Int, MonthIndex(plan.first) = f, MonthIndex(plan.due) = i
  PROVE  LengthsPassed = {DaysOf(m) : m \in f..i}
<1>1. ASSUME NEW m \in Int PROVE Day(InMonth(m, 31)) = DaysOf(m)
  <2>1. 31 \in 1..31 /\ DaysOf(m) \in Int /\ DaysOf(m) <= 31
    BY DaysOfType
  <2>2. QED
    BY <2>1, InMonthIs
<1>2. QED
  BY <1>1 DEF LengthsPassed

LEMMA PlanMonths == PlanInv /\ plan.status # "NONE" => DueMonthly
<1> SUFFICES ASSUME PlanInv, plan.status # "NONE" PROVE DueMonthly
  OBVIOUS
<1>1. DatesKept /\ plan.first \in Int /\ plan.due \in Int
  BY DEF PlanInv, PlanRecords
<1>2. MonthIndex(plan.first) \in Int /\ MonthIndex(plan.due) \in Int
  BY <1>1, DateIs DEF DatesKept
<1>3. LengthsPassed = {DaysOf(m) : m \in MonthIndex(plan.first) .. MonthIndex(plan.due)}
  BY <1>2, LengthsAre
<1>4. QED
  BY <1>1, <1>3 DEF DatesKept, DueMonthly

(* The types of a bill: no term is paid beyond the last, no payment makes   *)
(* the sum negative, and both due dates are dates of the calendar.          *)
THEOREM PlansTyped == PlansSpec => []PlansTypeOK
<1>1. PlanInv => PlansTypeOK
  <2> SUFFICES ASSUME PlanInv PROVE PlansTypeOK
    OBVIOUS
  <2>1. /\ plan.status \in {"NONE", "ACTIVE", "SETTLED"} /\ plan.grandTotal \in Nat
        /\ plan.monthly \in Nat /\ plan.months \in Nat \ {0} /\ plan.paid \in Nat /\ plan.total \in Int
    BY DEF PlanInv, PlanRecords
  <2>2. CASE plan.status = "NONE"
    BY <2>1, <2>2 DEF PlanInv, NoPlan, PlansTypeOK
  <2>3. CASE plan.status = "ACTIVE"
    <3>1. plan.total \in Nat
      <4>1. PICK a \in Nat, b \in Nat : a = plan.monthly /\ b = plan.paid
        BY <2>1
      <4>2. a * b \in Nat /\ plan.total = a * b
        BY <2>3, <4>1 DEF PlanInv
      <4>3. QED
        BY <4>2
    <3>2. QED
      BY <2>1, <2>3, <3>1 DEF PlanInv, DatesKept, PlansTypeOK
  <2>4. CASE plan.status = "SETTLED"
    BY <2>1, <2>4 DEF PlanInv, DatesKept, PlansTypeOK
  <2>5. QED
    BY <2>1, <2>2, <2>3, <2>4
<1>2. QED
  BY InitPlans, StepPlans, <1>1, PTL DEF PlansSpec

(* Whatever a bill costs, however its terms are rounded and whenever it is  *)
(* bought: one that has been settled has been paid to the cent, one that    *)
(* can never be paid to the end is of a few cents, and no month is skipped  *)
(* or paid twice.                                                           *)
THEOREM PaidInFull == PlansSpec => []RunsOut
<1>1. PlanInv => RunsOut
  <2> SUFFICES ASSUME PlanInv, plan # NoPlan PROVE PaidExactly /\ StuckOnlyIfTiny /\ DueMonthly
    BY DEF RunsOut
  <2>1. plan.status # "NONE"
    BY DEF PlanInv
  <2>2. QED
    BY <2>1, PlanMoney, PlanMonths
<1>2. QED
  BY InitPlans, StepPlans, <1>1, PTL DEF PlansSpec
=============================================================================
