-------------------------- MODULE MCDailyReminders --------------------------
(***************************************************************************)
(* Settings that meet leap days, short months and the turn of a year.      *)
(***************************************************************************)
EXTENDS DailyReminders

Setting(start, end, offset, cutoff, dueDay, from) ==
  [start |-> start, end |-> end, offset |-> offset, cutoff |-> cutoff,
   dueDay |-> dueDay, from |-> from]

MonthEnds ==
  {Setting(start, NoDate, offset, cutoff, 31, 20271215) :
     start \in {20271231, 20280130, 20280229}, offset \in {0, 3, 7}, cutoff \in {29, 31}}
Bounded ==
  {Setting(20280131, 20280630, 1, 20, 5, 20280120), Setting(20261201, NoDate, 7, 1, 1, 20261224),
   Setting(20261228, 20270228, 3, 30, 15, 20261201)}
AllSettings == MonthEnds \cup Bounded

(* Reminder days of some of them, the first of one among them. *)
SomeAway == {20261225, 20280131, 20280226, 20280229}
=============================================================================
