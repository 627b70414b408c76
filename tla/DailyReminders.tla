--------------------------- MODULE DailyReminders ---------------------------
(***************************************************************************)
(* One template, one credit wallet and a user who refreshes the            *)
(* notifications every day but a few (src/services/recurringReminderEngine *)
(* .service.ts): what the calendar arithmetic adds up to over the months.  *)
(***************************************************************************)
EXTENDS BillingCalendar, FiniteSets

CONSTANTS
  Settings,    \* the settings to try
  AwayDays,    \* the days the user may let pass without a refresh
  MonthsShown  \* bound: months walked through

(* Of the template: its first and last day (NoDate if open), its reminder   *)
(* offset; of the wallet: its cut-off and due day; and the first refresh.   *)
SettingRows == [start : Nat, end : Nat, offset : 0..7, cutoff : 1..31, dueDay : 1..31, from : Nat]
ASSUME SettingsAssumption ==
  /\ Settings \subseteq SettingRows /\ MonthsShown \in Nat
  /\ \A s \in Settings : IsDate(s.start) /\ IsDate(s.from)

VARIABLES
  setting,    \* one of Settings
  today,
  refreshed,  \* today's refresh has been made
  told,       \* the template's reminder events
  away        \* the days that have passed without a refresh
vars == <<setting, today, refreshed, told, away>>

(* The part of evaluateReminders that looks at one template. *)
Reminded ==
  LET occ == NextMonthlyOccurrence(setting.start, setting.end, today)
  IN IF occ # NoDate /\ SubtractDays(occ, setting.offset) = today
     THEN {[occ |-> occ, on |-> today]} ELSE {}

Refresh ==
  /\ told' = told \cup Reminded
  /\ refreshed' = TRUE
  /\ UNCHANGED <<setting, today, away>>

NextMorning ==
  /\ refreshed \/ today \in AwayDays
  /\ away' = IF refreshed THEN away ELSE away \cup {today}
  /\ MonthIndex(today) < MonthIndex(setting.from) + MonthsShown
  /\ today' = NextDay(today)
  /\ refreshed' = FALSE
  /\ UNCHANGED <<setting, told>>

Init == setting \in Settings /\ today = setting.from /\ refreshed = FALSE /\ told = {} /\ away = {}
Next == Refresh \/ NextMorning
Spec == Init /\ [][Next]_vars
-----------------------------------------------------------------------------
(* Every date shown or stored exists in the calendar. *)
TypeOK ==
  /\ setting \in Settings /\ IsDate(today) /\ refreshed \in BOOLEAN
  /\ away \subseteq AwayDays
  /\ \A a \in told : IsDate(a.occ) /\ IsDate(a.on)

(* The occurrence of the n-th month: the template's first day carried over, *)
(* or the last day of a shorter month.                                      *)
Occurrence(n) == AddBillingMonth(setting.start, n)
Wanted(n) == setting.end # NoDate => Occurrence(n) <= setting.end
SawRefresh(day) ==
  /\ setting.from <= day /\ day \notin away
  /\ day < today \/ (day = today /\ refreshed)

(* No occurrence goes unannounced if its reminder day has seen a refresh,   *)
(* whatever the length of the months and whatever other days saw none: the  *)
(* day of month never drifts (31 January, 28 February, 31 March).           *)
NothingMissed ==
  \A n \in 0..MonthsShown :
    LET on == SubtractDays(Occurrence(n), setting.offset)
    IN Wanted(n) /\ SawRefresh(on) => [occ |-> Occurrence(n), on |-> on] \in told

(* Nor is anything else told: one reminder in each month of the recurrence, *)
(* none after its end, on whatever number of refreshes; and a day without a *)
(* refresh is not made up for, each reminder is told on its day or never.   *)
NothingTwice ==
  \A a \in told :
    /\ \A b \in told : MonthIndex(a.occ) = MonthIndex(b.occ) => a = b
    /\ LET n == MonthIndex(a.occ) - MonthIndex(setting.start)
       IN n >= 0 /\ a.occ = Occurrence(n) /\ Wanted(n)
    /\ a.on = SubtractDays(a.occ, setting.offset) /\ SawRefresh(a.on)

(* What a purchase made today has to be paid by. *)
DueOf(date) == CalculateFirstDueDate(date, setting.cutoff, setting.dueDay)
LastOfPeriod(date) ==
  Day(date) = setting.cutoff \/ (setting.cutoff > Day(date) /\ Day(NextDay(date)) = 1)

(* Statement periods: the due date of a purchase is never in the month of   *)
(* the purchase, and moves, by one month, exactly when the cut-off day (the *)
(* last day of a month that has no such day) has passed.                    *)
BillsMoveAtCutoff ==
  [][LET moved == IF today' # today /\ LastOfPeriod(today) THEN 1 ELSE 0
     IN /\ MonthIndex(DueOf(today)') = MonthIndex(DueOf(today)) + moved
        /\ MonthIndex(DueOf(today)) > MonthIndex(today)]_vars
=============================================================================
