---------------------------- MODULE MCReminders ----------------------------
(***************************************************************************)
(* A small instance of the reminders for TLC.                              *)
(***************************************************************************)
EXTENDS Reminders, TLC

CONSTANTS r1, r2, r3, rent, phone, bank, cash

Template(wallet, mode, amount, offset) ==
  [st |-> "live", wallet |-> wallet, type |-> "EXPENSE", cat |-> TRUE, mode |-> mode,
   amount |-> amount, freq |-> "MONTHLY", start |-> 20280131, end |-> NoDate,
   active |-> TRUE, enabled |-> TRUE, offset |-> offset]
Rent == Template(bank, "FIXED", 2, 1)

ReqSymmetry == Permutations(Reqs)

NoTemplate == (rent :> [Rent EXCEPT !.st = "free"])
NoBills    == <<>>
PhoneBill  == (phone :> [st |-> "live", active |-> TRUE, due |-> 20280202])
Salary     == [Template(bank, "FLEXIBLE", 5, 1) EXCEPT !.type = "INCOME"]
RentOrSalary == {Rent, Salary}
RentOnly   == {Rent}
Patches ==
  {[NoBody EXCEPT !.mode = "FLEXIBLE"], [NoBody EXCEPT !.amount = 3],
   [NoBody EXCEPT !.mode = "FIXED"],
   [NoBody EXCEPT !.start = 20280228], [NoBody EXCEPT !.end = 20280215],
   [NoBody EXCEPT !.enabled = "off", !.offset = Null, !.freq = "OTHER"], [NoBody EXCEPT !.wallet = cash, !.type = "INCOME"]}
=============================================================================
