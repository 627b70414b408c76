----------------------------- MODULE Reminders -----------------------------
(***************************************************************************)
(* Recurring templates, the reminders refreshed from them and from bills,  *)
(* and the transactions posted by confirming a reminder                    *)
(* (recurringTransaction.service.ts, recurringReminderEngine.service.ts,   *)
(* notification.service.ts).                                               *)
(*                                                                         *)
(* As in Ledger, a request is a process that carries what it has read.     *)
(* Bills, wallet deletions and the deletion of a posted transaction belong *)
(* to the other services; here they are single steps, as they commit.      *)
(***************************************************************************)
EXTENDS BalanceEffect, BillingCalendar, Sums

CONSTANTS
  Tmpls, Bills,       \* ids of templates and of installments
  Txs,                \* ids of transactions, the bound on postings
  Reqs, Ops,          \* requests, each served once; the endpoints in use
  Days,               \* the days on which something happens
  InitialTmpls, InitialBills,
  NewTmpls, TmplPatches,      \* bodies of template creates and updates
  Amounts             \* amounts given with a confirmation

(* Null is a null column or field, Absent a field the body leaves out. *)
Null == -1
Absent == -2

ReminderOffsets == {0, 1, 3, 7}
BillOffset == 3

(* cat tells whether there is a category; a template of another frequency   *)
(* than MONTHLY has no reminders.                                           *)
TmplRows == [st : {"free", "live", "gone"}, wallet : Wallets, type : {"INCOME", "EXPENSE"},
             cat : BOOLEAN, mode : {"FIXED", "FLEXIBLE"}, amount : Int, freq : {"MONTHLY", "OTHER"},
             start : Nat, end : Nat, active : BOOLEAN, enabled : BOOLEAN, offset : Int]
BillRows == [st : {"live", "gone"}, active : BOOLEAN, due : Int]

(* The unique key of an event: source, occurrence and offset. *)
Keys == [src : Tmpls \cup Bills, occ : Int, off : ReminderOffsets]
EventRows == [read : BOOLEAN, completed : BOOLEAN, tx : Txs \cup {Null}]

(* A transaction posted by a confirmation.  key is the reminder it came     *)
(* from; the code has that only on the event.                               *)
TxRows == [st : {"free", "live", "gone"}, key : Keys, type : {"INCOME", "EXPENSE"},
           amount : Int, wallet : Wallets]

Flags == {"absent", "on", "off"}
Bodies == [mode : {"absent", "FIXED", "FLEXIBLE"}, amount : Int, start : Nat, end : Nat,
           active : Flags, enabled : Flags, offset : Int,
           type : {"absent", "INCOME", "EXPENSE"}, wallet : Wallets \cup {NoWallet},
           cat : BOOLEAN, freq : {"absent", "MONTHLY", "OTHER"}]

(* resolveAmount and resolveReminder: mode and amount, enabled and offset   *)
(* of a template agree.                                                     *)
FieldsAgree(x) ==
  /\ IF x.mode = "FIXED" THEN x.amount > 0 ELSE x.amount = Null
  /\ IF x.enabled THEN x.offset \in ReminderOffsets ELSE x.offset = Null
DatesInOrder(x) == x.end # NoDate => x.start <= x.end

ASSUME RemindersAssumption ==
  /\ Tmpls \cap Bills = {} /\ Null \notin Txs /\ IsFiniteSet(Txs) /\ Wallets # {} /\ Tmpls # {} /\ Days # {}
  /\ Days \subseteq Nat /\ Amounts \subseteq Nat
  /\ InitialTmpls \in [Tmpls -> TmplRows] /\ InitialBills \in [Bills -> BillRows]
  /\ \A t \in Tmpls : InitialTmpls[t].st = "live" =>
       FieldsAgree(InitialTmpls[t]) /\ DatesInOrder(InitialTmpls[t])
  /\ NewTmpls \subseteq {x \in TmplRows : x.st = "live"} /\ TmplPatches \subseteq Bodies

VARIABLES
  day,      \* today
  balance,  \* of each wallet; what it was at the start counts as 0
  gone,     \* wallets deleted
  tmpl, bill, event, tx,    \* tables
  req,      \* local variables of the requests
  stale     \* history: an update has committed over dates other than it read

vars == <<day, balance, gone, tmpl, bill, event, tx, req, stale>>

AnyKey == [src |-> CHOOSE t \in Tmpls : TRUE, occ |-> 0, off |-> 0]
AnyWallet == CHOOSE w \in Wallets : TRUE
FreeTx == [st |-> "free", key |-> AnyKey, type |-> "EXPENSE", amount |-> 0, wallet |-> AnyWallet]
AnyTmpl == InitialTmpls[CHOOSE t \in Tmpls : TRUE]
NoBody == [mode |-> "absent", amount |-> Absent, start |-> NoDate, end |-> NoDate, active |-> "absent",
           enabled |-> "absent", offset |-> Absent, type |-> "absent", wallet |-> NoWallet,
           cat |-> FALSE, freq |-> "absent"]

Requests == [op : {"none", "refresh", "confirm", "update"},
             pc : {"new", "templates", "bills", "checked", "done"},
             key : Keys, amount : Int, row : TmplRows, body : Bodies,
             on : Nat, due : SUBSET Keys, made : SUBSET Keys, missing : SUBSET Keys]
NewRequest == [op |-> "none", pc |-> "new", key |-> AnyKey, amount |-> 0, row |-> AnyTmpl,
               body |-> NoBody, on |-> 0, due |-> {}, made |-> {}, missing |-> {}]
Finish(r) == req' = [req EXCEPT ![r] = [NewRequest EXCEPT !.pc = "done"]]
CanStart(r, op) == op \in Ops /\ req[r].pc = "new"
At(r, op, pc) == req[r].op = op /\ req[r].pc = pc

LiveTmpl(t) == t \in Tmpls /\ tmpl[t].st = "live"
LiveBill(b) == b \in Bills /\ bill[b].st = "live"
LiveSources == {t \in Tmpls : LiveTmpl(t)} \cup {b \in Bills : LiveBill(b)}
GoneSources == {t \in Tmpls : tmpl[t].st = "gone"} \cup {b \in Bills : bill[b].st = "gone"}

Events == DOMAIN event
DropEvents(keys) == event' = [k \in Events \ keys |-> event[k]]
-----------------------------------------------------------------------------
(* Templates.  An update is validated on the body merged with the row it    *)
(* has read; mode, amount, enabled and offset are then written from that    *)
(* merge, the other fields only if the body has them.                       *)

Flag(f, b) == IF f = "absent" THEN b ELSE f = "on"
Merged(x, b) ==
  LET mode == IF b.mode = "absent" THEN x.mode ELSE b.mode
  IN [mode |-> mode,
      amount |-> IF mode = "FLEXIBLE" THEN Null ELSE IF b.amount = Absent THEN x.amount ELSE b.amount,
      start |-> IF b.start = NoDate THEN x.start ELSE b.start,
      end |-> IF b.end = NoDate THEN x.end ELSE b.end,
      enabled |-> Flag(b.enabled, x.enabled),
      offset |-> IF b.offset = Absent THEN x.offset ELSE b.offset]

(* The amount of a body is checked and kept only in mode FIXED. *)
Resolved(x) == [x EXCEPT !.amount = IF x.mode = "FLEXIBLE" THEN Null ELSE @]
Valid(m) == FieldsAgree(m) /\ DatesInOrder(m)

TemplateCreate ==
  /\ "create" \in Ops
  /\ \E t \in Tmpls, x \in NewTmpls :
       /\ tmpl[t].st = "free" /\ Valid(Resolved(x)) /\ x.wallet \notin gone
       /\ tmpl' = [tmpl EXCEPT ![t] = Resolved(x)]
  /\ UNCHANGED <<day, balance, gone, bill, event, tx, req, stale>>

TemplateUpdateLoad(r) ==
  /\ CanStart(r, "update")
  /\ \E t \in Tmpls, b \in TmplPatches :
       /\ LiveTmpl(t) /\ Valid(Merged(tmpl[t], b)) /\ b.wallet \notin gone
       /\ req' = [req EXCEPT ![r] = [NewRequest EXCEPT !.op = "update", !.pc = "checked",
                                       !.key.src = t, !.row = tmpl[t], !.body = b]]
  /\ UNCHANGED <<day, balance, gone, tmpl, bill, event, tx, stale>>

(* Mutant: the fields are written as the body has them. *)
UpdatedRaw(q, x) ==
  [x EXCEPT !.mode = q.body.mode, !.amount = q.body.amount, !.offset = q.body.offset]

(* Mutant: the amount is written only if the body has one. *)
UpdatedAmountAlone(q, x) ==
  [x EXCEPT !.mode = Merged(q.row, q.body).mode,
            !.amount = IF q.body.amount = Absent THEN @ ELSE q.body.amount]

UpdatedTmpl(q, x) ==
  LET m == Merged(q.row, q.body)
  IN [x EXCEPT !.mode = m.mode, !.amount = m.amount, !.enabled = m.enabled, !.offset = m.offset,
               !.start = IF q.body.start = NoDate THEN @ ELSE q.body.start,
               !.end = IF q.body.end = NoDate THEN @ ELSE q.body.end,
               !.active = Flag(q.body.active, @),
               !.type = IF q.body.type = "absent" THEN @ ELSE q.body.type,
               !.wallet = IF q.body.wallet = NoWallet THEN @ ELSE q.body.wallet,
               !.cat = @ \/ q.body.cat,
               !.freq = IF q.body.freq = "absent" THEN @ ELSE q.body.freq]

(* A row or wallet deleted meanwhile fails the write (P2025, P2003). *)
UpdateCommits(q) == LiveTmpl(q.key.src) /\ q.body.wallet \notin gone

TemplateUpdate(r) ==
  LET q == req[r]
      t == q.key.src
  IN /\ At(r, "update", "checked") /\ UpdateCommits(q)
     /\ tmpl' = [tmpl EXCEPT ![t] = UpdatedTmpl(q, @)]
     /\ stale' = (stale \/ tmpl[t].start # q.row.start \/ tmpl[t].end # q.row.end)
     /\ Finish(r)
     /\ UNCHANGED <<day, balance, gone, bill, event, tx>>

(* The events of a template go with it. *)
TemplateDelete ==
  /\ "delete" \in Ops
  /\ \E t \in Tmpls :
       /\ LiveTmpl(t)
       /\ tmpl' = [tmpl EXCEPT ![t].st = "gone"]
       /\ DropEvents({k \in Events : k.src = t})
  /\ UNCHANGED <<day, balance, gone, bill, tx, req, stale>>
-----------------------------------------------------------------------------
(* evaluateReminders: both tables are read in one query each, but the       *)
(* events are looked for and inserted one by one.                           *)

OccurrenceOf(t) == NextMonthlyOccurrence(tmpl[t].start, tmpl[t].end, day)
Reminding(t) ==
  /\ LiveTmpl(t) /\ tmpl[t].active /\ tmpl[t].enabled /\ tmpl[t].freq = "MONTHLY"
  /\ tmpl[t].offset # Null
  /\ OccurrenceOf(t) # NoDate /\ SubtractDays(OccurrenceOf(t), tmpl[t].offset) = day
DueTemplates ==
  {[src |-> t, occ |-> OccurrenceOf(t), off |-> tmpl[t].offset] : t \in {u \in Tmpls : Reminding(u)}}
DueBills(on) ==
  {[src |-> b, occ |-> bill[b].due, off |-> BillOffset] :
     b \in {c \in Bills : LiveBill(c) /\ bill[c].active /\ SubtractDays(bill[c].due, BillOffset) = on}}

RefreshLoad(r) ==
  /\ CanStart(r, "refresh")
  /\ req' = [req EXCEPT ![r] = [NewRequest EXCEPT !.op = "refresh", !.pc = "templates",
                                                  !.on = day, !.due = DueTemplates]]
  /\ UNCHANGED <<day, balance, gone, tmpl, bill, event, tx, stale>>

NewEvent == [read |-> FALSE, completed |-> FALSE, tx |-> Null]

(* Mutant: an event of any earlier occurrence passes for this one. *)
InsertedOncePerSource(k) ==
  IF \E j \in Events : j.src = k.src /\ j.off = k.off THEN event
  ELSE [j \in Events \cup {k} |-> IF j = k THEN NewEvent ELSE event[j]]

Inserted(k) == [j \in Events \cup {k} |-> IF j \in Events THEN event[j] ELSE NewEvent]

(* upsert with an empty update is a look for the key and, unless it is      *)
(* there, an insertion.                                                     *)
Refreshing(r) == req[r].pc \in {"templates", "bills"}
RefreshLook(r) ==
  /\ Refreshing(r) /\ req[r].missing = {}
  /\ \E k \in req[r].due \ req[r].made :
       \/ k \in Events /\ req' = [req EXCEPT ![r].made = @ \cup {k}]
       \/ k \notin Events /\ req' = [req EXCEPT ![r].missing = {k}]
  /\ UNCHANGED <<day, balance, gone, tmpl, bill, event, tx, stale>>

(* Mutant: the source of an event is not looked at. *)
InsertsAnyway(k) == k \notin Events

(* The source must still be there (P2003), and the key still be missing     *)
(* (P2002).                                                                 *)
Inserts(k) == k.src \in LiveSources /\ k \notin Events

RefreshInsert(r) ==
  /\ Refreshing(r)
  /\ \E k \in req[r].missing :
       /\ Inserts(k)
       /\ event' = Inserted(k)
       /\ req' = [req EXCEPT ![r].made = @ \cup {k}, ![r].missing = {}]
  /\ UNCHANGED <<day, balance, gone, tmpl, bill, tx, stale>>

RefreshBills(r) ==
  /\ At(r, "refresh", "templates") /\ req[r].due = req[r].made
  /\ req' = [req EXCEPT ![r].pc = "bills", ![r].due = @ \cup DueBills(req[r].on)]
  /\ UNCHANGED <<day, balance, gone, tmpl, bill, event, tx, stale>>

RefreshEnd(r) ==
  /\ At(r, "refresh", "bills") /\ req[r].due = req[r].made
  /\ Finish(r)
  /\ UNCHANGED <<day, balance, gone, tmpl, bill, event, tx, stale>>

(* An insertion that fails ends the whole request with an error; the events *)
(* after it are not made, those before it stay.                             *)
RefreshFail(r) ==
  /\ Refreshing(r)
  /\ \E k \in req[r].missing : ~Inserts(k)
  /\ Finish(r)
  /\ UNCHANGED <<day, balance, gone, tmpl, bill, event, tx, stale>>

(* markNotificationRead and markAllNotificationsRead *)
MarkRead ==
  /\ "read" \in Ops
  /\ \E keys \in {{k} : k \in Events} \cup {Events} :
       /\ \E k \in keys : ~event[k].read
       /\ event' = [k \in Events |-> [event[k] EXCEPT !.read = @ \/ k \in keys]]
  /\ UNCHANGED <<day, balance, gone, tmpl, bill, tx, req, stale>>
-----------------------------------------------------------------------------
(* confirmReminder: the event and its template, then the wallet and the     *)
(* category are read; everything is written in one $transaction.            *)

ConfirmLoad(r) ==
  /\ CanStart(r, "confirm")
  /\ \E k \in Events, a \in Amounts :
       /\ ~event[k].completed
       /\ k.src \in Tmpls /\ tmpl[k.src].cat /\ tmpl[k.src].wallet \notin gone
       /\ tmpl[k.src].mode = "FLEXIBLE" => a > 0
       /\ req' = [req EXCEPT ![r] =
            [NewRequest EXCEPT !.op = "confirm", !.pc = "checked", !.key = k, !.row = tmpl[k.src],
               !.amount = IF tmpl[k.src].mode = "FLEXIBLE" THEN a
                          ELSE IF tmpl[k.src].amount = Null THEN 0 ELSE tmpl[k.src].amount]]
  /\ UNCHANGED <<day, balance, gone, tmpl, bill, event, tx, stale>>

Posting(q) ==
  [st |-> "live", key |-> q.key, type |-> q.row.type, amount |-> q.amount, wallet |-> q.row.wallet]

(* What a posted row adds to a wallet. *)
PostedEffect(x, w) ==
  IF x.st = "live"
  THEN EffectOn([type |-> x.type, amount |-> x.amount, wallet |-> x.wallet, to |-> NoWallet,
                 isInstallment |-> FALSE, grandTotal |-> x.amount], w)
  ELSE 0

(* Mutant: the event is marked whether or not it was marked before. *)
ConfirmCommitsAgain(q) == q.key \in Events /\ q.row.wallet \notin gone

(* Mutant: an event that is gone counts as one to be marked. *)
ConfirmCommitsAnyway(q) ==
  /\ q.key \in Events => ~event[q.key].completed
  /\ q.row.wallet \notin gone

(* updateMany marks exactly one event, and the wallet is still there. *)
ConfirmCommits(q) ==
  /\ q.key \in Events /\ ~event[q.key].completed
  /\ q.row.wallet \notin gone

Confirm(r) ==
  LET q == req[r] IN
  /\ At(r, "confirm", "checked") /\ ConfirmCommits(q)
  /\ \E t \in Txs :
       /\ tx[t].st = "free"
       /\ tx' = [tx EXCEPT ![t] = Posting(q)]
       /\ event' = [k \in Events |-> IF k = q.key THEN [event[k] EXCEPT !.completed = TRUE, !.tx = t]
                                                  ELSE event[k]]
  /\ balance' = [w \in Wallets |-> balance[w] + PostedEffect(Posting(q), w)]
  /\ Finish(r)
  /\ UNCHANGED <<day, gone, tmpl, bill, stale>>

(* Mutant: a confirmation that comes too late is never answered. *)
RollbackUpdate(r) ==
  /\ At(r, "update", "checked") /\ ~UpdateCommits(req[r])
  /\ Finish(r)
  /\ UNCHANGED <<day, balance, gone, tmpl, bill, event, tx, stale>>

(* 404, 409 or a failed write after the reads; nothing is left behind. *)
Rollback(r) ==
  /\ \/ At(r, "confirm", "checked") /\ ~ConfirmCommits(req[r])
     \/ At(r, "update", "checked") /\ ~UpdateCommits(req[r])
  /\ Finish(r)
  /\ UNCHANGED <<day, balance, gone, tmpl, bill, event, tx, stale>>
-----------------------------------------------------------------------------
(* The rest of the program and the world. *)

(* Mutant: the event keeps the id of the row. *)
StillLinked(e) == e

(* Mutant: the reminder is open again. *)
Reopened(e) == [e EXCEPT !.tx = Null, !.completed = FALSE]

(* generatedTransactionId is set to null with the row; completedAt stays. *)
Unlinked(e) == [e EXCEPT !.tx = Null]

(* Mutant: the row goes, its effect stays. *)
TxDeleteOnly ==
  /\ \E t \in Txs :
       /\ tx[t].st = "live"
       /\ tx' = [tx EXCEPT ![t].st = "gone"]
       /\ event' = [k \in Events |-> IF event[k].tx = t THEN Unlinked(event[k]) ELSE event[k]]
  /\ UNCHANGED <<day, balance, gone, tmpl, bill, req, stale>>

(* deleteTransaction of a posted row *)
TxDelete ==
  /\ "txDelete" \in Ops
  /\ \E t \in Txs :
       /\ tx[t].st = "live"
       /\ tx' = [tx EXCEPT ![t].st = "gone"]
       /\ balance' = [w \in Wallets |-> balance[w] - PostedEffect(tx[t], w)]
       /\ event' = [k \in Events |-> IF event[k].tx = t THEN Unlinked(event[k]) ELSE event[k]]
  /\ UNCHANGED <<day, gone, tmpl, bill, req, stale>>

(* deleteWallet takes its templates, their events and its rows along. *)
WalletDelete ==
  /\ "walletDelete" \in Ops
  /\ \E w \in Wallets \ gone :
       /\ gone' = gone \cup {w}
       /\ tmpl' = [t \in Tmpls |-> IF LiveTmpl(t) /\ tmpl[t].wallet = w THEN [tmpl[t] EXCEPT !.st = "gone"] ELSE tmpl[t]]
       /\ tx' = [t \in Txs |-> IF tx[t].st = "live" /\ tx[t].wallet = w THEN [tx[t] EXCEPT !.st = "gone"] ELSE tx[t]]
       /\ event' = [k \in {j \in Events : ~(LiveTmpl(j.src) /\ tmpl[j.src].wallet = w)} |->
                      IF event[k].tx # Null /\ tx[event[k].tx].wallet = w THEN Unlinked(event[k]) ELSE event[k]]
  /\ UNCHANGED <<day, balance, bill, req, stale>>

(* payInstallment moves a due date or settles the bill. *)
BillPaid ==
  /\ \E b \in Bills :
       /\ LiveBill(b) /\ bill[b].active
       /\ \/ bill' = [bill EXCEPT ![b].active = FALSE]
          \/ bill' = [bill EXCEPT ![b].due = AddBillingMonth(@, 1)]
       /\ AddBillingMonth(bill[b].due, -1) <= day     \* bound: one term ahead
  /\ UNCHANGED <<day, balance, gone, tmpl, event, tx, req, stale>>

BillDelete ==
  /\ "billDelete" \in Ops
  /\ \E b \in Bills :
       /\ LiveBill(b)
       /\ bill' = [bill EXCEPT ![b].st = "gone"]
       /\ DropEvents({k \in Events : k.src = b})
  /\ UNCHANGED <<day, balance, gone, tmpl, tx, req, stale>>

TimePasses ==
  /\ \E d \in Days : d > day /\ day' = d
  /\ UNCHANGED <<balance, gone, tmpl, bill, event, tx, req, stale>>

Init ==
  /\ day \in Days /\ \A d \in Days : day <= d
  /\ balance = [w \in Wallets |-> 0] /\ gone = {}
  /\ tmpl = InitialTmpls /\ bill = InitialBills
  /\ event = [k \in {} |-> NewEvent]
  /\ tx = [t \in Txs |-> FreeTx]
  /\ req = [r \in Reqs |-> NewRequest]
  /\ stale = FALSE

(* A request that was taken up goes on. *)
Serve(r) ==
  \/ TemplateUpdate(r) \/ Confirm(r) \/ Rollback(r)
  \/ RefreshLook(r) \/ RefreshInsert(r) \/ RefreshBills(r) \/ RefreshEnd(r) \/ RefreshFail(r)

Next ==
  \/ \E r \in Reqs : TemplateUpdateLoad(r) \/ RefreshLoad(r) \/ ConfirmLoad(r) \/ Serve(r)
  \/ TemplateCreate \/ TemplateDelete \/ MarkRead
  \/ TxDelete \/ WalletDelete \/ BillPaid \/ BillDelete \/ TimePasses

Spec == Init /\ [][Next]_vars

(* Nothing in the code waits for another request, and the database answers  *)
(* or fails every query; whether a user calls again is up to the user.      *)
FairSpec == Spec /\ \A r \in Reqs : WF_vars(Serve(r))
-----------------------------------------------------------------------------
TypeOK ==
  /\ day \in Days /\ balance \in [Wallets -> Int] /\ gone \subseteq Wallets
  /\ tmpl \in [Tmpls -> TmplRows] /\ bill \in [Bills -> BillRows]
  /\ Events \subseteq Keys /\ event \in [Events -> EventRows]
  /\ tx \in [Txs -> TxRows] /\ req \in [Reqs -> Requests] /\ stale \in BOOLEAN

(* What an update checks on a merge with the row it has read also holds of  *)
(* the row it leaves, concurrent updates or not -- save for the order of    *)
(* the dates, which two updates can break between them.                     *)
TemplatesConsistent ==
  \A t \in Tmpls : LiveTmpl(t) =>
    FieldsAgree(tmpl[t]) /\ (stale \/ DatesInOrder(tmpl[t]))

(* "At most one transaction is ever created" from a reminder, by however    *)
(* many confirmations, and a completed reminder has had one.                *)
PostedFrom(k) == {t \in Txs : tx[t].st # "free" /\ tx[t].key = k}
ConfirmedOnce ==
  /\ \A t, u \in Txs : tx[t].st # "free" /\ tx[u].st # "free" /\ tx[t].key = tx[u].key => t = u
  /\ \A k \in Events : event[k].completed <=> PostedFrom(k) # {}

(* An event never outlives its template or bill. *)
NoOrphans == \A k \in Events : k.src \in LiveSources

(* What a refresh has gone through is there, also when it runs beside       *)
(* another one, a deletion or a confirmation, or over midnight.             *)
RefreshDelivers ==
  \A r \in Reqs : Refreshing(r) => \A k \in req[r].made : k \in Events \/ k.src \notin LiveSources

(* What requests and rows rely on and nothing but a deletion takes away: an *)
(* update and a confirmation carry what was checked, a key that a row was   *)
(* posted from is stored until its source is deleted, and the transaction   *)
(* an event refers to exists.                                               *)
Kept(k) == k \in Events \/ k.src \in GoneSources
RequestsCarry ==
  \A r \in Reqs :
    /\ At(r, "update", "checked") => Valid(Merged(req[r].row, req[r].body))
    /\ At(r, "confirm", "checked") => req[r].key.src \in Tmpls /\ req[r].amount > 0
RowsKeepKeys == \A t \in Txs : tx[t].st # "free" => Kept(tx[t].key)
LinksHold ==
  \A k \in Events : event[k].tx # Null =>
    event[k].completed /\ tx[event[k].tx].st = "live" /\ tx[event[k].tx].key = k
CarriedHolds == RequestsCarry /\ RowsKeepKeys /\ LinksHold

(* The balance of a wallet is the sum of what its posted rows say: a        *)
(* confirmation that loses leaves no change of a balance behind, and a row  *)
(* that is deleted gives back what it took, once.                           *)
PostedEffects(w) == [t \in Txs |-> PostedEffect(tx[t], w)]
BalancesPosted == \A w \in Wallets \ gone : balance[w] = Total(PostedEffects(w), Txs)

(* A transaction is posted only while the reminder and its template exist,  *)
(* and for a positive amount.                                               *)
PostedWhileLive ==
  [][\A t \in Txs : tx[t].st = "free" /\ tx'[t].st = "live"
       => (LiveTmpl(tx[t].key.src) /\ tx[t].amount > 0)']_vars

(* An event keeps its read and completed marks through every refresh, and   *)
(* loses its transaction only with the transaction.                         *)
EventsKeepMarks ==
  [][\A k \in Events \cap Events' :
       /\ event[k].read => event'[k].read
       /\ event[k].completed => event'[k].completed
       /\ event[k].tx # Null /\ event'[k].tx # event[k].tx => tx'[event[k].tx].st = "gone"]_vars

(* Every request that was taken up is answered. *)
RequestsEnd == \A r \in Reqs : (req[r].pc # "new") ~> (req[r].pc = "done")
=============================================================================
