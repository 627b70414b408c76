-------------------------- MODULE RemindersProofs --------------------------
(***************************************************************************)
(* What holds of templates, reminders and confirmations for any number of  *)
(* them, any request bodies, any calendar days and any order of requests.  *)
(***************************************************************************)
EXTENDS Reminders, SumProofs

-----------------------------------------------------------------------------
(* The calendar stays within the integers. *)
LEMMA ClampType ==
  ASSUME NEW y \in Int, NEW m \in Int, NEW d \in Int
  PROVE  ClampDay(y, m, d) \in Int
<1>1. DaysIn(y, m) \in Int
  BY DEF DaysIn
<1>2. QED
  BY <1>1 DEF ClampDay

LEMMA AddMonthType ==
  ASSUME NEW date \in Int, NEW n \in Int
  PROVE  AddBillingMonth(date, n) \in Int
<1>1. MonthIndex(date) \in Int /\ Day(date) \in Int
  BY DEF MonthIndex, Year, Month, Day
<1> DEFINE i == MonthIndex(date) + n
<1>2. i \in Int
  BY <1>1
<1> HIDE DEF i
<1>3. i \div 12 \in Int /\ (i % 12) + 1 \in Int
  BY <1>2
<1>4. InMonth(i, Day(date)) \in Int
  BY <1>1, <1>3, ClampType DEF InMonth
<1>5. QED
  BY <1>4 DEF AddBillingMonth, i

LEMMA OccurrenceType ==
  ASSUME NEW start \in Int, NEW end \in Int, NEW today \in Int
  PROVE  NextMonthlyOccurrence(start, end, today) \in Int
<1> DEFINE n == MonthIndex(today) - MonthIndex(start)
<1>1. n \in Int
  BY DEF MonthIndex, Year, Month
<1> HIDE DEF n
<1>2. AddBillingMonth(start, n) \in Int /\ AddBillingMonth(start, n + 1) \in Int
  BY <1>1, AddMonthType
<1>3. QED
  BY <1>2 DEF NextMonthlyOccurrence, NoDate, n

(* What one posted row adds to a wallet is an integer. *)
LEMMA PostedEffectType ==
  ASSUME NEW x \in TxRows, NEW w
  PROVE  PostedEffect(x, w) \in Int
BY DEF PostedEffect, EffectOn, SourceDelta, HasDestination, TxRows

-----------------------------------------------------------------------------
(* Types of the records that the actions build. *)
LEMMA Blank ==
  /\ NewRequest \in Requests /\ [NewRequest EXCEPT !.pc = "done"] \in Requests
  /\ FreeTx \in TxRows /\ NewEvent \in EventRows
<1>1. AnyWallet \in Wallets /\ AnyTmpl \in TmplRows
  BY RemindersAssumption DEF AnyWallet, AnyTmpl
<1>2. AnyKey \in Keys
  BY RemindersAssumption DEF AnyKey, Keys, ReminderOffsets
<1>3. NoBody \in Bodies
  BY DEF NoBody, Bodies, Flags, Absent, NoDate
<1>4. NewRequest \in Requests
  BY <1>1, <1>2, <1>3 DEF NewRequest, Requests
<1>5. [NewRequest EXCEPT !.pc = "done"] \in Requests
  BY <1>4 DEF Requests
<1>6. FreeTx \in TxRows
  BY <1>1, <1>2 DEF FreeTx, TxRows
<1>7. NewEvent \in EventRows
  BY DEF NewEvent, EventRows
<1>8. QED
  BY <1>4, <1>5, <1>6, <1>7

LEMMA ResolvedType ==
  ASSUME NEW x \in TmplRows
  PROVE  Resolved(x) \in TmplRows /\ Resolved(x).st = x.st
BY DEF Resolved, TmplRows, Null

LEMMA GoneTmplType ==
  ASSUME NEW x \in TmplRows
  PROVE  [x EXCEPT !.st = "gone"] \in TmplRows
BY DEF TmplRows

LEMMA FlagType ==
  ASSUME NEW f, NEW b \in BOOLEAN
  PROVE  Flag(f, b) \in BOOLEAN
<1>1. CASE f = "absent"
  BY <1>1 DEF Flag
<1>2. CASE f # "absent"
  BY <1>2 DEF Flag
<1>3. QED
  BY <1>1, <1>2

LEMMA MergedType ==
  ASSUME NEW x \in TmplRows, NEW b \in Bodies
  PROVE  /\ Merged(x, b).mode \in {"FIXED", "FLEXIBLE"} /\ Merged(x, b).amount \in Int
         /\ Merged(x, b).enabled \in BOOLEAN /\ Merged(x, b).offset \in Int
<1>1. x.enabled \in BOOLEAN
  BY DEF TmplRows
<1>2. Merged(x, b).enabled \in BOOLEAN
  BY <1>1, FlagType DEF Merged
<1>3. /\ x.mode \in {"FIXED", "FLEXIBLE"} /\ x.amount \in Int /\ x.offset \in Int
      /\ b.mode \in {"absent", "FIXED", "FLEXIBLE"} /\ b.amount \in Int /\ b.offset \in Int
  BY DEF TmplRows, Bodies
<1>4. Merged(x, b).mode \in {"FIXED", "FLEXIBLE"} /\ Merged(x, b).amount \in Int
  BY <1>3 DEF Merged, Null
<1>5. Merged(x, b).offset \in Int
  BY <1>3 DEF Merged
<1>6. QED
  BY <1>2, <1>4, <1>5

LEMMA UpdatedType ==
  ASSUME NEW q \in Requests, NEW x \in TmplRows
  PROVE  /\ UpdatedTmpl(q, x) \in TmplRows
         /\ UpdatedTmpl(q, x).st = x.st
<1>1. q.row \in TmplRows /\ q.body \in Bodies
  BY DEF Requests
<1> DEFINE m == Merged(q.row, q.body)
           start == IF q.body.start = NoDate THEN x.start ELSE q.body.start
           end == IF q.body.end = NoDate THEN x.end ELSE q.body.end
           active == Flag(q.body.active, x.active)
           type == IF q.body.type = "absent" THEN x.type ELSE q.body.type
           wallet == IF q.body.wallet = NoWallet THEN x.wallet ELSE q.body.wallet
           cat == x.cat \/ q.body.cat
           freq == IF q.body.freq = "absent" THEN x.freq ELSE q.body.freq
<1>2. m.mode \in {"FIXED", "FLEXIBLE"} /\ m.amount \in Int /\ m.enabled \in BOOLEAN /\ m.offset \in Int
  BY <1>1, MergedType
<1>3. x.active \in BOOLEAN /\ cat \in BOOLEAN
  BY DEF TmplRows
<1>4. active \in BOOLEAN
  BY <1>3, FlagType
<1>5. start \in Nat /\ end \in Nat
  BY <1>1 DEF TmplRows, Bodies
<1>6. type \in {"INCOME", "EXPENSE"} /\ wallet \in Wallets /\ freq \in {"MONTHLY", "OTHER"}
  BY <1>1 DEF TmplRows, Bodies
<1>7. UpdatedTmpl(q, x) =
        [x EXCEPT !.mode = m.mode, !.amount = m.amount, !.enabled = m.enabled, !.offset = m.offset,
                  !.start = start, !.end = end, !.active = active, !.type = type,
                  !.wallet = wallet, !.cat = cat, !.freq = freq]
  BY DEF UpdatedTmpl
<1> HIDE DEF m, start, end, active, type, wallet, cat, freq
<1>8. QED
  BY <1>2, <1>3, <1>4, <1>5, <1>6, <1>7 DEF TmplRows

LEMMA PostingType ==
  ASSUME NEW q \in Requests
  PROVE  Posting(q) \in TxRows
BY DEF Posting, Requests, TxRows, TmplRows

-----------------------------------------------------------------------------
(* Type correctness.  The keys a refresh looks for have one of the offsets  *)
(* of the program because templates are consistent.                         *)

LEMMA TypeInit == Init => TypeOK
<1> SUFFICES ASSUME Init PROVE TypeOK
  OBVIOUS
<1>1. day \in Days /\ gone \subseteq Wallets /\ balance \in [Wallets -> Int]
  BY DEF Init
<1>1a. stale \in BOOLEAN
  BY Zenon DEF Init
<1>2. tmpl \in [Tmpls -> TmplRows] /\ bill \in [Bills -> BillRows]
  BY RemindersAssumption DEF Init
<1>3. Events = {} /\ event \in [Events -> EventRows]
  BY DEF Init, Events
<1>4. tx \in [Txs -> TxRows] /\ req \in [Reqs -> Requests]
  BY Blank DEF Init
<1>5. QED
  BY <1>1, <1>1a, <1>2, <1>3, <1>4 DEF TypeOK

LEMMA DueTemplatesType ==
  ASSUME TypeOK, TemplatesConsistent
  PROVE  DueTemplates \subseteq Keys
<1> SUFFICES ASSUME NEW t \in Tmpls, Reminding(t)
             PROVE  [src |-> t, occ |-> OccurrenceOf(t), off |-> tmpl[t].offset] \in Keys
  BY DEF DueTemplates
<1>1. day \in Int /\ tmpl[t].start \in Int /\ tmpl[t].end \in Int
  BY RemindersAssumption DEF TypeOK, TmplRows
<1>2. OccurrenceOf(t) \in Int
  BY <1>1, OccurrenceType DEF OccurrenceOf
<1>3. tmpl[t].offset \in ReminderOffsets
  BY DEF Reminding, TemplatesConsistent, FieldsAgree
<1>4. QED
  BY <1>2, <1>3 DEF Keys

LEMMA DueBillsType ==
  ASSUME TypeOK, NEW on
  PROVE  DueBills(on) \subseteq Keys
<1> SUFFICES ASSUME NEW b \in Bills
             PROVE  [src |-> b, occ |-> bill[b].due, off |-> BillOffset] \in Keys
  BY DEF DueBills
<1>1. bill[b].due \in Int
  BY DEF TypeOK, BillRows
<1>2. QED
  BY <1>1 DEF Keys, BillOffset, ReminderOffsets

LEMMA FinishType ==
  ASSUME TypeOK, NEW r \in Reqs, Finish(r)
  PROVE  req' \in [Reqs -> Requests]
BY Blank DEF TypeOK, Finish

LEMMA InsertedType ==
  ASSUME TypeOK, NEW k \in Keys, event' = Inserted(k)
  PROVE  Events' = Events \cup {k} /\ Events' \subseteq Keys /\ event' \in [Events' -> EventRows]
BY Blank DEF TypeOK, Inserted, Events

LEMMA ServeType ==
  ASSUME TypeOK, NEW r \in Reqs, Serve(r)
  PROVE  TypeOK'
<1>1. /\ day \in Days /\ balance \in [Wallets -> Int] /\ gone \subseteq Wallets
      /\ tmpl \in [Tmpls -> TmplRows] /\ bill \in [Bills -> BillRows]
      /\ Events \subseteq Keys /\ event \in [Events -> EventRows]
      /\ tx \in [Txs -> TxRows] /\ req \in [Reqs -> Requests] /\ stale \in BOOLEAN
      /\ req[r] \in Requests
  BY DEF TypeOK
<1>2. /\ req[r].due \subseteq Keys /\ req[r].made \subseteq Keys /\ req[r].missing \subseteq Keys
      /\ req[r].key \in Keys
  BY <1>1 DEF Requests
<1>3. CASE TemplateUpdate(r)
  <2> DEFINE t == req[r].key.src
  <2>1. UpdatedTmpl(req[r], tmpl[t]) \in TmplRows /\ t \in Tmpls
    BY <1>1, <1>3, UpdatedType DEF TemplateUpdate, UpdateCommits, LiveTmpl
  <2>2. tmpl' = [tmpl EXCEPT ![t] = UpdatedTmpl(req[r], tmpl[t])]
    BY <1>3 DEF TemplateUpdate
  <2>3. tmpl' \in [Tmpls -> TmplRows]
    BY <1>1, <2>1, <2>2
  <2>4. stale' \in BOOLEAN
    BY <1>3 DEF TemplateUpdate
  <2>5. req' \in [Reqs -> Requests]
    BY <1>3, FinishType DEF TemplateUpdate
  <2>6. QED
    BY <1>1, <1>3, <2>3, <2>4, <2>5 DEF TypeOK, TemplateUpdate, Events
<1>4. CASE Confirm(r)
  <2>1. PICK t \in Txs :
          /\ tx' = [tx EXCEPT ![t] = Posting(req[r])]
          /\ event' = [k \in Events |-> IF k = req[r].key THEN [event[k] EXCEPT !.completed = TRUE, !.tx = t]
                                                          ELSE event[k]]
    BY <1>4 DEF Confirm
  <2>2. tx' \in [Txs -> TxRows]
    BY <1>1, <2>1, PostingType
  <2>3. \A k \in Events : [event[k] EXCEPT !.completed = TRUE, !.tx = t] \in EventRows
    BY <1>1 DEF EventRows
  <2>4. Events' = Events /\ event' \in [Events -> EventRows]
    BY <1>1, <2>1, <2>3 DEF Events
  <2> DEFINE add == [w \in Wallets |-> PostedEffect(Posting(req[r]), w)]
  <2>5a. \A w \in Wallets : add[w] \in Int
    BY <1>1, PostingType, PostedEffectType
  <2>5b. balance' = [w \in Wallets |-> balance[w] + add[w]]
    BY <1>4 DEF Confirm
  <2> HIDE DEF add
  <2>5. balance' \in [Wallets -> Int]
    BY <1>1, <2>5a, <2>5b
  <2>6. req' \in [Reqs -> Requests]
    BY <1>4, FinishType DEF Confirm
  <2>7. QED
    BY <1>1, <1>4, <2>2, <2>4, <2>5, <2>6 DEF TypeOK, Confirm
<1>5. CASE Rollback(r)
  BY <1>1, <1>5, FinishType DEF TypeOK, Rollback, Events
<1>6. CASE RefreshLook(r)
  <2>1. PICK k \in req[r].due \ req[r].made :
          \/ k \in Events /\ req' = [req EXCEPT ![r].made = @ \cup {k}]
          \/ k \notin Events /\ req' = [req EXCEPT ![r].missing = {k}]
    BY <1>6 DEF RefreshLook
  <2>2. k \in Keys
    BY <1>2
  <2>3. /\ [req[r] EXCEPT !.made = @ \cup {k}] \in Requests
        /\ [req[r] EXCEPT !.missing = {k}] \in Requests
    BY <1>1, <2>2 DEF Requests
  <2>4. req' \in [Reqs -> Requests]
    BY <1>1, <2>1, <2>3
  <2>5. QED
    BY <1>1, <1>6, <2>4 DEF TypeOK, RefreshLook, Events
<1>7. CASE RefreshInsert(r)
  <2>1. PICK k \in req[r].missing :
          /\ event' = Inserted(k)
          /\ req' = [req EXCEPT ![r].made = @ \cup {k}, ![r].missing = {}]
    BY <1>7 DEF RefreshInsert
  <2>2. k \in Keys
    BY <1>2
  <2>3. [req[r] EXCEPT !.made = @ \cup {k}, !.missing = {}] \in Requests
    BY <1>1, <2>2 DEF Requests
  <2>4. req' = [req EXCEPT ![r] = [req[r] EXCEPT !.made = @ \cup {k}, !.missing = {}]]
    BY <1>1, <2>1
  <2>5. req' \in [Reqs -> Requests]
    BY <1>1, <2>3, <2>4
  <2>6. QED
    BY <1>1, <1>7, <2>1, <2>2, <2>5, InsertedType DEF TypeOK, RefreshInsert
<1>8. CASE RefreshBills(r)
  <2>1. [req[r] EXCEPT !.pc = "bills", !.due = @ \cup DueBills(req[r].on)] \in Requests
    BY <1>1, DueBillsType DEF Requests
  <2>2. req' = [req EXCEPT ![r] = [req[r] EXCEPT !.pc = "bills", !.due = @ \cup DueBills(req[r].on)]]
    BY <1>1, <1>8 DEF RefreshBills
  <2>3. req' \in [Reqs -> Requests]
    BY <1>1, <2>1, <2>2
  <2>4. QED
    BY <1>1, <1>8, <2>3 DEF TypeOK, RefreshBills, Events
<1>9. CASE RefreshEnd(r)
  BY <1>1, <1>9, FinishType DEF TypeOK, RefreshEnd, Events
<1>10. CASE RefreshFail(r)
  BY <1>1, <1>10, FinishType DEF TypeOK, RefreshFail, Events
<1>11. QED
  BY <1>3, <1>4, <1>5, <1>6, <1>7, <1>8, <1>9, <1>10 DEF Serve

Environment == TemplateCreate \/ TemplateDelete \/ MarkRead \/ TxDelete \/ WalletDelete
                 \/ BillPaid \/ BillDelete \/ TimePasses

LEMMA EnvironmentType ==
  ASSUME TypeOK, Environment
  PROVE  TypeOK'
<1>1. /\ day \in Days /\ balance \in [Wallets -> Int] /\ gone \subseteq Wallets
      /\ tmpl \in [Tmpls -> TmplRows] /\ bill \in [Bills -> BillRows]
      /\ Events \subseteq Keys /\ event \in [Events -> EventRows]
      /\ tx \in [Txs -> TxRows] /\ req \in [Reqs -> Requests] /\ stale \in BOOLEAN
  BY DEF TypeOK
<1>2. \A t \in Tmpls : [tmpl[t] EXCEPT !.st = "gone"] \in TmplRows
  BY <1>1, GoneTmplType
<1>3. \A t \in Txs : [tx[t] EXCEPT !.st = "gone"] \in TxRows
  BY <1>1 DEF TxRows
<1>4. \A k \in Events : Unlinked(event[k]) \in EventRows
  BY <1>1 DEF EventRows, Unlinked
<1>5. CASE TemplateCreate
  <2>1. PICK t \in Tmpls, x \in NewTmpls : tmpl' = [tmpl EXCEPT ![t] = Resolved(x)]
    BY <1>5 DEF TemplateCreate
  <2>2. Resolved(x) \in TmplRows
    BY RemindersAssumption, ResolvedType
  <2>3. tmpl' \in [Tmpls -> TmplRows]
    BY <1>1, <2>1, <2>2
  <2>4. QED
    BY <1>1, <1>5, <2>3 DEF TypeOK, TemplateCreate, Events
<1>6. CASE TemplateDelete
  <2>1. PICK t \in Tmpls : /\ tmpl' = [tmpl EXCEPT ![t].st = "gone"]
                           /\ DropEvents({k \in Events : k.src = t})
    BY <1>6 DEF TemplateDelete
  <2>2. tmpl' \in [Tmpls -> TmplRows]
    BY <1>1, <1>2, <2>1
  <2>3. Events' \subseteq Events /\ event' \in [Events' -> EventRows]
    BY <1>1, <2>1 DEF DropEvents, Events
  <2>4. QED
    BY <1>1, <1>6, <2>2, <2>3 DEF TypeOK, TemplateDelete
<1>7. CASE MarkRead
  <2>1. PICK keys \in {{k} : k \in Events} \cup {Events} :
          event' = [k \in Events |-> [event[k] EXCEPT !.read = @ \/ k \in keys]]
    BY <1>7 DEF MarkRead
  <2>2. \A k \in Events : [event[k] EXCEPT !.read = @ \/ k \in keys] \in EventRows
    BY <1>1 DEF EventRows
  <2>3. Events' = Events /\ event' \in [Events -> EventRows]
    BY <2>1, <2>2 DEF Events
  <2>4. QED
    BY <1>1, <1>7, <2>3 DEF TypeOK, MarkRead
<1>8. CASE TxDelete
  <2>1. PICK t \in Txs :
          /\ tx' = [tx EXCEPT ![t].st = "gone"]
          /\ balance' = [w \in Wallets |-> balance[w] - PostedEffect(tx[t], w)]
          /\ event' = [k \in Events |-> IF event[k].tx = t THEN Unlinked(event[k]) ELSE event[k]]
    BY <1>8 DEF TxDelete
  <2>2. tx' \in [Txs -> TxRows]
    BY <1>1, <1>3, <2>1
  <2>3. Events' = Events /\ event' \in [Events -> EventRows]
    BY <1>1, <1>4, <2>1 DEF Events
  <2>4. \A w \in Wallets : PostedEffect(tx[t], w) \in Int
    BY <1>1, PostedEffectType
  <2>5. balance' \in [Wallets -> Int]
    BY <1>1, <2>1, <2>4
  <2>6. QED
    BY <1>1, <1>8, <2>2, <2>3, <2>5 DEF TypeOK, TxDelete
<1>9. CASE WalletDelete
  <2>1. PICK w \in Wallets \ gone :
          /\ gone' = gone \cup {w}
          /\ tmpl' = [t \in Tmpls |-> IF LiveTmpl(t) /\ tmpl[t].wallet = w THEN [tmpl[t] EXCEPT !.st = "gone"] ELSE tmpl[t]]
          /\ tx' = [t \in Txs |-> IF tx[t].st = "live" /\ tx[t].wallet = w THEN [tx[t] EXCEPT !.st = "gone"] ELSE tx[t]]
          /\ event' = [k \in {j \in Events : ~(LiveTmpl(j.src) /\ tmpl[j.src].wallet = w)} |->
                        IF event[k].tx # Null /\ tx[event[k].tx].wallet = w THEN Unlinked(event[k]) ELSE event[k]]
    BY <1>9 DEF WalletDelete
  <2>2. tmpl' \in [Tmpls -> TmplRows]
    BY <1>1, <1>2, <2>1
  <2>3. tx' \in [Txs -> TxRows]
    BY <1>1, <1>3, <2>1
  <2>4. Events' \subseteq Events /\ event' \in [Events' -> EventRows]
    BY <1>1, <1>4, <2>1 DEF Events
  <2>5. QED
    BY <1>1, <1>9, <2>1, <2>2, <2>3, <2>4 DEF TypeOK, WalletDelete
<1>10. CASE BillPaid
  <2>1. PICK b \in Bills :
          \/ bill' = [bill EXCEPT ![b].active = FALSE]
          \/ bill' = [bill EXCEPT ![b].due = AddBillingMonth(@, 1)]
    BY <1>10 DEF BillPaid
  <2>2. bill[b] \in BillRows /\ bill[b].due \in Int
    BY <1>1 DEF BillRows
  <2>3. AddBillingMonth(bill[b].due, 1) \in Int
    <3>1. 1 \in Int
      OBVIOUS
    <3>2. QED
      BY <2>2, <3>1, AddMonthType, Zenon
  <2>4. /\ [bill[b] EXCEPT !.active = FALSE] \in BillRows
        /\ [bill[b] EXCEPT !.due = AddBillingMonth(bill[b].due, 1)] \in BillRows
    BY <2>2, <2>3 DEF BillRows
  <2>5. bill' \in [Bills -> BillRows]
    BY <1>1, <2>1, <2>4
  <2>6. QED
    BY <1>1, <1>10, <2>5 DEF TypeOK, BillPaid, Events
<1>11. CASE BillDelete
  <2>1. PICK b \in Bills : /\ bill' = [bill EXCEPT ![b].st = "gone"]
                           /\ DropEvents({k \in Events : k.src = b})
    BY <1>11 DEF BillDelete
  <2>2. [bill[b] EXCEPT !.st = "gone"] \in BillRows
    BY <1>1 DEF BillRows
  <2>3. bill' \in [Bills -> BillRows]
    BY <1>1, <2>1, <2>2
  <2>4. Events' \subseteq Events /\ event' \in [Events' -> EventRows]
    BY <1>1, <2>1 DEF DropEvents, Events
  <2>5. QED
    BY <1>1, <1>11, <2>3, <2>4 DEF TypeOK, BillDelete
<1>12. CASE TimePasses
  BY <1>1, <1>12 DEF TypeOK, TimePasses, Events
<1>13. QED
  BY <1>5, <1>6, <1>7, <1>8, <1>9, <1>10, <1>11, <1>12 DEF Environment

Load(r) == TemplateUpdateLoad(r) \/ RefreshLoad(r) \/ ConfirmLoad(r)

(* A request that starts writes nothing but its own locals. *)
LEMMA LoadType ==
  ASSUME TypeOK, TemplatesConsistent, NEW r \in Reqs, Load(r)
  PROVE  TypeOK'
<1>1. UNCHANGED <<day, balance, gone, tmpl, bill, event, tx, stale>>
  BY DEF Load, TemplateUpdateLoad, RefreshLoad, ConfirmLoad
<1>2. /\ tmpl \in [Tmpls -> TmplRows] /\ req \in [Reqs -> Requests] /\ Events \subseteq Keys /\ day \in Nat
  BY RemindersAssumption DEF TypeOK
<1>3. CASE TemplateUpdateLoad(r)
  <2>1. PICK t \in Tmpls, b \in TmplPatches :
          req' = [req EXCEPT ![r] = [NewRequest EXCEPT !.op = "update", !.pc = "checked",
                                       !.key.src = t, !.row = tmpl[t], !.body = b]]
    BY <1>3 DEF TemplateUpdateLoad
  <2>2. [NewRequest EXCEPT !.op = "update", !.pc = "checked",
                           !.key.src = t, !.row = tmpl[t], !.body = b] \in Requests
    BY <1>2, Blank, RemindersAssumption DEF Requests, Keys
  <2>3. req' \in [Reqs -> Requests]
    BY <1>2, <2>1, <2>2
  <2>4. QED
    BY <1>1, <2>3 DEF TypeOK, Events
<1>4. CASE RefreshLoad(r)
  <2>1. [NewRequest EXCEPT !.op = "refresh", !.pc = "templates", !.on = day, !.due = DueTemplates] \in Requests
    BY <1>2, Blank, DueTemplatesType DEF Requests
  <2>2. req' \in [Reqs -> Requests]
    BY <1>2, <1>4, <2>1 DEF RefreshLoad
  <2>3. QED
    BY <1>1, <2>2 DEF TypeOK, Events
<1>5. CASE ConfirmLoad(r)
  <2>1. PICK k \in Events, a \in Amounts :
          /\ k.src \in Tmpls
          /\ req' = [req EXCEPT ![r] =
               [NewRequest EXCEPT !.op = "confirm", !.pc = "checked", !.key = k, !.row = tmpl[k.src],
                  !.amount = IF tmpl[k.src].mode = "FLEXIBLE" THEN a
                             ELSE IF tmpl[k.src].amount = Null THEN 0 ELSE tmpl[k.src].amount]]
    BY <1>5 DEF ConfirmLoad
  <2> DEFINE amount == IF tmpl[k.src].mode = "FLEXIBLE" THEN a
                       ELSE IF tmpl[k.src].amount = Null THEN 0 ELSE tmpl[k.src].amount
  <2>2. amount \in Int /\ tmpl[k.src] \in TmplRows /\ k \in Keys
    BY <1>2, <2>1, RemindersAssumption DEF TmplRows
  <2>3. req' = [req EXCEPT ![r] = [NewRequest EXCEPT !.op = "confirm", !.pc = "checked", !.key = k,
                                                     !.row = tmpl[k.src], !.amount = amount]]
    BY <2>1
  <2> HIDE DEF amount
  <2>4. [NewRequest EXCEPT !.op = "confirm", !.pc = "checked", !.key = k,
                           !.row = tmpl[k.src], !.amount = amount] \in Requests
    BY <2>2, Blank DEF Requests
  <2>5. req' \in [Reqs -> Requests]
    BY <1>2, <2>3, <2>4
  <2>6. QED
    BY <1>1, <2>5 DEF TypeOK, Events
<1>6. QED
  BY <1>3, <1>4, <1>5 DEF Load

LEMMA NextSplit == Next <=> Environment \/ \E r \in Reqs : Load(r) \/ Serve(r)
BY DEF Next, Environment, Load

-----------------------------------------------------------------------------
(* Consistent templates.  What an update writes agrees with itself because  *)
(* it comes from one valid merge, not from what the row holds by then.      *)

LEMMA UpdatedAgrees ==
  ASSUME NEW q \in Requests, NEW x \in TmplRows, Valid(Merged(q.row, q.body))
  PROVE  /\ FieldsAgree(UpdatedTmpl(q, x))
         /\ x.start = q.row.start /\ x.end = q.row.end => DatesInOrder(UpdatedTmpl(q, x))
<1> DEFINE m == Merged(q.row, q.body)
           u == UpdatedTmpl(q, x)
<1>1. FieldsAgree(m) /\ DatesInOrder(m)
  BY DEF Valid
<1>2. u.mode = m.mode /\ u.amount = m.amount /\ u.enabled = m.enabled /\ u.offset = m.offset
  BY DEF UpdatedTmpl, TmplRows
<1>3. /\ u.start = IF q.body.start = NoDate THEN x.start ELSE q.body.start
      /\ u.end = IF q.body.end = NoDate THEN x.end ELSE q.body.end
  BY DEF UpdatedTmpl, TmplRows
<1>4. /\ m.start = IF q.body.start = NoDate THEN q.row.start ELSE q.body.start
      /\ m.end = IF q.body.end = NoDate THEN q.row.end ELSE q.body.end
  BY DEF Merged
<1> HIDE DEF m, u
<1>5. FieldsAgree(u)
  BY <1>1, <1>2 DEF FieldsAgree
<1>6. x.start = q.row.start /\ x.end = q.row.end => DatesInOrder(u)
  BY <1>1, <1>3, <1>4 DEF DatesInOrder
<1>7. QED
  BY <1>5, <1>6 DEF u

LEMMA ConsistentInit == Init => TemplatesConsistent
BY RemindersAssumption DEF Init, TemplatesConsistent, LiveTmpl

(* Rows that stay as they are, or are deleted, stay consistent. *)
LEMMA UntouchedConsistent ==
  ASSUME TypeOK, TemplatesConsistent, stale' = stale,
         \A t \in Tmpls : tmpl'[t] = tmpl[t] \/ tmpl'[t].st = "gone"
  PROVE  TemplatesConsistent'
BY DEF TemplatesConsistent, LiveTmpl

(* What the requests in flight carry, the keys a refresh has gone through   *)
(* among it (RequestsCarry and RefreshDelivers, request by request).        *)
RequestsHold ==
  \A r \in Reqs :
    /\ At(r, "update", "checked") => Valid(Merged(req[r].row, req[r].body))
    /\ At(r, "confirm", "checked") => req[r].key.src \in Tmpls /\ req[r].amount > 0
    /\ Refreshing(r) => \A k \in req[r].made : Kept(k)

LEMMA ConsistentStep ==
  ASSUME TypeOK, TemplatesConsistent, RequestsHold, Next
  PROVE  TemplatesConsistent'
<1>1. tmpl \in [Tmpls -> TmplRows] /\ req \in [Reqs -> Requests]
  BY DEF TypeOK
<1>2. CASE TemplateCreate
  <2>1. PICK t \in Tmpls, x \in NewTmpls :
          tmpl' = [tmpl EXCEPT ![t] = Resolved(x)] /\ Valid(Resolved(x))
    BY <1>2 DEF TemplateCreate
  <2>2. stale' = stale
    BY <1>2 DEF TemplateCreate
  <2>3. QED
    BY <1>1, <2>1, <2>2 DEF TemplatesConsistent, LiveTmpl, Valid
<1>3. CASE TemplateDelete
  <2>1. \A t \in Tmpls : tmpl'[t] = tmpl[t] \/ tmpl'[t].st = "gone"
    BY <1>1, <1>3 DEF TemplateDelete, TmplRows
  <2>2. QED
    BY <1>3, <2>1, UntouchedConsistent DEF TemplateDelete
<1>4. CASE WalletDelete
  <2>1. \A t \in Tmpls : tmpl'[t] = tmpl[t] \/ tmpl'[t].st = "gone"
    BY <1>1, <1>4 DEF WalletDelete, TmplRows
  <2>2. QED
    BY <1>4, <2>1, UntouchedConsistent DEF WalletDelete
<1>5. CASE \E r \in Reqs : TemplateUpdate(r)
  <2>1. PICK r \in Reqs : TemplateUpdate(r)
    BY <1>5
  <2> DEFINE q == req[r]
             t == q.key.src
  <2>2. q \in Requests /\ t \in Tmpls
    BY <1>1, <2>1 DEF TemplateUpdate, UpdateCommits, LiveTmpl
  <2>3. Valid(Merged(q.row, q.body))
    BY <2>1 DEF TemplateUpdate, RequestsHold
  <2>4. /\ tmpl' = [tmpl EXCEPT ![t] = UpdatedTmpl(q, tmpl[t])]
        /\ stale' = (stale \/ tmpl[t].start # q.row.start \/ tmpl[t].end # q.row.end)
    BY <2>1 DEF TemplateUpdate
  <2> HIDE DEF q, t
  <2>5. /\ FieldsAgree(UpdatedTmpl(q, tmpl[t]))
        /\ tmpl[t].start = q.row.start /\ tmpl[t].end = q.row.end => DatesInOrder(UpdatedTmpl(q, tmpl[t]))
    BY <1>1, <2>2, <2>3, UpdatedAgrees
  <2>6. FieldsAgree(tmpl'[t]) /\ (stale' \/ DatesInOrder(tmpl'[t]))
    BY <1>1, <2>2, <2>4, <2>5
  <2>7. \A u \in Tmpls : u # t => tmpl'[u] = tmpl[u]
    BY <1>1, <2>4
  <2>8. stale => stale'
    BY <2>4
  <2>9. QED
    BY <2>6, <2>7, <2>8 DEF TemplatesConsistent, LiveTmpl
<1>6. CASE UNCHANGED <<tmpl, stale>>
  BY <1>6, UntouchedConsistent
<1>7. QED
  BY <1>2, <1>3, <1>4, <1>5, <1>6
     DEF Next, Serve, TemplateUpdateLoad, RefreshLoad, ConfirmLoad, Confirm, Rollback, RefreshLook,
         RefreshInsert, RefreshBills, RefreshEnd, RefreshFail, MarkRead, TxDelete, BillPaid,
         BillDelete, TimePasses

-----------------------------------------------------------------------------
(* Sources.  An event goes only when its source goes, and a source that is  *)
(* gone does not come back.                                                 *)

LEMMA SourcesDisjoint == LiveSources \cap GoneSources = {}
BY RemindersAssumption DEF LiveSources, GoneSources, LiveTmpl, LiveBill

KeptStays == GoneSources \subseteq GoneSources' /\ \A k \in Events \ Events' : k.src \in GoneSources'

LEMMA SourcesSame ==
  ASSUME UNCHANGED <<tmpl, bill>>
  PROVE  LiveSources' = LiveSources /\ GoneSources' = GoneSources
BY DEF LiveSources, GoneSources, LiveTmpl, LiveBill

LEMMA SourcesStep ==
  ASSUME TypeOK, NoOrphans, Next
  PROVE  KeptStays /\ NoOrphans'
<1>1. tmpl \in [Tmpls -> TmplRows] /\ bill \in [Bills -> BillRows] /\ req \in [Reqs -> Requests]
  BY DEF TypeOK
<1>2. CASE TemplateCreate
  <2>1. PICK t \in Tmpls, x \in NewTmpls :
          tmpl[t].st = "free" /\ tmpl' = [tmpl EXCEPT ![t] = Resolved(x)]
    BY <1>2 DEF TemplateCreate
  <2>2. Resolved(x).st = "live"
    BY RemindersAssumption, ResolvedType
  <2>3. event' = event /\ bill' = bill
    BY <1>2 DEF TemplateCreate
  <2>4. GoneSources \subseteq GoneSources' /\ LiveSources \subseteq LiveSources'
    BY <1>1, <2>1, <2>2, <2>3 DEF GoneSources, LiveSources, LiveTmpl, LiveBill
  <2>5. QED
    BY <2>3, <2>4 DEF KeptStays, NoOrphans, Events
<1>3. CASE TemplateDelete
  <2>1. PICK t \in Tmpls : /\ tmpl' = [tmpl EXCEPT ![t].st = "gone"]
                           /\ DropEvents({k \in Events : k.src = t})
    BY <1>3 DEF TemplateDelete
  <2>2. bill' = bill
    BY <1>3 DEF TemplateDelete
  <2>3. tmpl'[t].st = "gone" /\ \A u \in Tmpls : u # t => tmpl'[u] = tmpl[u]
    BY <1>1, <2>1 DEF TmplRows
  <2>4. Events' = Events \ {k \in Events : k.src = t}
    BY <2>1 DEF DropEvents, Events
  <2>5. GoneSources \subseteq GoneSources' /\ t \in GoneSources'
    BY <2>2, <2>3 DEF GoneSources
  <2>6. LiveSources \ {t} \subseteq LiveSources'
    BY <2>2, <2>3 DEF LiveSources, LiveTmpl, LiveBill
  <2>7. QED
    BY <2>4, <2>5, <2>6 DEF KeptStays, NoOrphans
<1>4. CASE WalletDelete
  <2>1. PICK w \in Wallets \ gone :
          /\ tmpl' = [t \in Tmpls |-> IF LiveTmpl(t) /\ tmpl[t].wallet = w THEN [tmpl[t] EXCEPT !.st = "gone"] ELSE tmpl[t]]
          /\ event' = [k \in {j \in Events : ~(LiveTmpl(j.src) /\ tmpl[j.src].wallet = w)} |->
                        IF event[k].tx # Null /\ tx[event[k].tx].wallet = w THEN Unlinked(event[k]) ELSE event[k]]
    BY <1>4 DEF WalletDelete
  <2>2. bill' = bill
    BY <1>4 DEF WalletDelete
  <2> DEFINE On == {t \in Tmpls : LiveTmpl(t) /\ tmpl[t].wallet = w}
  <2>3. /\ \A t \in On : tmpl'[t].st = "gone"
        /\ \A t \in Tmpls \ On : tmpl'[t] = tmpl[t]
    BY <1>1, <2>1 DEF TmplRows
  <2>4. Events' = {j \in Events : j.src \notin On}
    BY <2>1 DEF Events, LiveTmpl
  <2>5. On \subseteq Tmpls /\ On \subseteq LiveSources
    BY DEF LiveSources
  <2> HIDE DEF On
  <2>6. GoneSources \subseteq GoneSources' /\ On \subseteq GoneSources'
    BY <2>2, <2>3, <2>5, SourcesDisjoint DEF GoneSources
  <2>7. LiveSources \ On \subseteq LiveSources'
    BY <2>2, <2>3 DEF LiveSources, LiveTmpl, LiveBill
  <2>8. QED
    BY <2>4, <2>6, <2>7 DEF KeptStays, NoOrphans
<1>5. CASE BillPaid
  <2>1. event' = event /\ tmpl' = tmpl
    BY <1>5 DEF BillPaid
  <2>2. \A b \in Bills : bill'[b].st = bill[b].st
    BY <1>1, <1>5 DEF BillPaid, BillRows
  <2>3. GoneSources' = GoneSources /\ LiveSources' = LiveSources
    BY <2>1, <2>2 DEF GoneSources, LiveSources, LiveTmpl, LiveBill
  <2>4. QED
    BY <2>1, <2>3 DEF KeptStays, NoOrphans, Events
<1>6. CASE BillDelete
  <2>1. PICK b \in Bills : /\ bill' = [bill EXCEPT ![b].st = "gone"]
                           /\ DropEvents({k \in Events : k.src = b})
    BY <1>6 DEF BillDelete
  <2>2. tmpl' = tmpl
    BY <1>6 DEF BillDelete
  <2>3. bill'[b].st = "gone" /\ \A c \in Bills : c # b => bill'[c] = bill[c]
    BY <1>1, <2>1 DEF BillRows
  <2>4. Events' = Events \ {k \in Events : k.src = b}
    BY <2>1 DEF DropEvents, Events
  <2>5. GoneSources \subseteq GoneSources' /\ b \in GoneSources'
    BY <2>2, <2>3 DEF GoneSources
  <2>6. LiveSources \ {b} \subseteq LiveSources'
    BY <2>2, <2>3 DEF LiveSources, LiveTmpl, LiveBill
  <2>7. QED
    BY <2>4, <2>5, <2>6 DEF KeptStays, NoOrphans
<1>7. CASE \E r \in Reqs : TemplateUpdate(r)
  <2>1. PICK r \in Reqs : TemplateUpdate(r)
    BY <1>7
  <2> DEFINE t == req[r].key.src
  <2>2. event' = event /\ bill' = bill /\ tmpl' = [tmpl EXCEPT ![t] = UpdatedTmpl(req[r], tmpl[t])]
    BY <2>1 DEF TemplateUpdate
  <2>3. t \in Tmpls
    BY <2>1 DEF TemplateUpdate, UpdateCommits, LiveTmpl
  <2>4. UpdatedTmpl(req[r], tmpl[t]).st = tmpl[t].st
    BY <1>1, <2>3, UpdatedType
  <2>5. \A u \in Tmpls : tmpl'[u].st = tmpl[u].st
    BY <1>1, <2>2, <2>3, <2>4
  <2>6. GoneSources' = GoneSources /\ LiveSources' = LiveSources
    BY <2>2, <2>5 DEF GoneSources, LiveSources, LiveTmpl, LiveBill
  <2>7. QED
    BY <2>2, <2>6 DEF KeptStays, NoOrphans, Events
<1>8. CASE \E r \in Reqs : RefreshInsert(r)
  <2>1. PICK k : Inserts(k) /\ event' = Inserted(k)
    BY <1>8 DEF RefreshInsert
  <2>2. UNCHANGED <<tmpl, bill>>
    BY <1>8 DEF RefreshInsert
  <2>3. Events' = Events \cup {k} /\ k.src \in LiveSources
    BY <2>1 DEF Inserted, Inserts, Events
  <2>4. QED
    BY <2>2, <2>3, SourcesSame DEF KeptStays, NoOrphans
<1>9. CASE tmpl' = tmpl /\ bill' = bill /\ Events' = Events
  BY <1>9, SourcesSame DEF KeptStays, NoOrphans
<1>10. CASE MarkRead
  BY <1>9, <1>10 DEF MarkRead, Events
<1>11. CASE \E r \in Reqs : Confirm(r)
  BY <1>9, <1>11 DEF Confirm, Events
<1>12. CASE TxDelete
  BY <1>9, <1>12 DEF TxDelete, Events
<1>13. CASE UNCHANGED <<tmpl, bill, event>>
  BY <1>9, <1>13 DEF Events
<1>14. QED
  BY <1>2, <1>3, <1>4, <1>5, <1>6, <1>7, <1>8, <1>10, <1>11, <1>12, <1>13
     DEF Next, Serve, TemplateUpdateLoad, RefreshLoad, ConfirmLoad, Rollback, RefreshLook,
         RefreshBills, RefreshEnd, RefreshFail, TimePasses

-----------------------------------------------------------------------------
(* What requests carry. *)

LEMMA KeptAfter ==
  ASSUME KeptStays, NEW k, Kept(k)
  PROVE  k \in Events' \/ k.src \in GoneSources'
BY DEF KeptStays, Kept

(* One request moves on to q; what the others carry stays true. *)
LEMMA MovesOn ==
  ASSUME TypeOK, RequestsHold, KeptStays, NEW r \in Reqs, NEW q \in Requests,
         req' = [req EXCEPT ![r] = q],
         q.op = "update" /\ q.pc = "checked" => Valid(Merged(q.row, q.body)),
         q.op = "confirm" /\ q.pc = "checked" => q.key.src \in Tmpls /\ q.amount > 0,
         q.pc \in {"templates", "bills"} =>
           \A k \in q.made : k \in Events' \/ k.src \in GoneSources'
  PROVE  RequestsHold'
<1> SUFFICES ASSUME NEW s \in Reqs
             PROVE  /\ At(s, "update", "checked")' => Valid(Merged(req'[s].row, req'[s].body))
                    /\ At(s, "confirm", "checked")' => req'[s].key.src \in Tmpls /\ req'[s].amount > 0
                    /\ Refreshing(s)' => \A k \in req'[s].made : k \in Events' \/ k.src \in GoneSources'
  BY DEF RequestsHold, Kept
<1>1. req \in [Reqs -> Requests]
  BY DEF TypeOK
<1>2. CASE s = r
  <2>1. req'[s] = q
    BY <1>1, <1>2
  <2>2. QED
    BY <2>1 DEF At, Refreshing
<1>3. CASE s # r
  <2>1. req'[s] = req[s]
    BY <1>1, <1>3
  <2>2. /\ At(s, "update", "checked")' => At(s, "update", "checked")
        /\ At(s, "confirm", "checked")' => At(s, "confirm", "checked")
        /\ Refreshing(s)' => Refreshing(s)
    BY <2>1 DEF At, Refreshing
  <2>3. Refreshing(s) => \A k \in req[s].made : k \in Events' \/ k.src \in GoneSources'
    BY KeptAfter DEF RequestsHold
  <2>4. QED
    BY <2>1, <2>2, <2>3 DEF RequestsHold
<1>4. QED
  BY <1>2, <1>3

LEMMA Finished ==
  ASSUME TypeOK, RequestsHold, KeptStays, NEW r \in Reqs, Finish(r)
  PROVE  RequestsHold'
<1> DEFINE q == [NewRequest EXCEPT !.pc = "done"]
<1>1. q \in Requests /\ q.pc = "done"
  BY Blank DEF NewRequest
<1>2. req' = [req EXCEPT ![r] = q]
  BY DEF Finish
<1> HIDE DEF q
<1>3. QED
  BY <1>1, <1>2, MovesOn

LEMMA RequestsInit == Init => RequestsHold
BY DEF Init, RequestsHold, At, Refreshing, NewRequest

LEMMA RequestsStep ==
  ASSUME TypeOK, TemplatesConsistent, NoOrphans, RequestsHold, KeptStays, Next
  PROVE  RequestsHold'
<1>1. tmpl \in [Tmpls -> TmplRows] /\ req \in [Reqs -> Requests] /\ Events \subseteq Keys
  BY DEF TypeOK
<1>2. CASE req' = req
  BY <1>2, KeptAfter DEF RequestsHold, At, Refreshing, Kept
<1>3. CASE Environment
  BY <1>2, <1>3 DEF Environment, TemplateCreate, TemplateDelete, MarkRead, TxDelete, WalletDelete,
                    BillPaid, BillDelete, TimePasses
<1>4. ASSUME NEW r \in Reqs, TemplateUpdateLoad(r) PROVE RequestsHold'
  <2>1. PICK t \in Tmpls, b \in TmplPatches :
          /\ Valid(Merged(tmpl[t], b))
          /\ req' = [req EXCEPT ![r] = [NewRequest EXCEPT !.op = "update", !.pc = "checked",
                                          !.key.src = t, !.row = tmpl[t], !.body = b]]
    BY <1>4 DEF TemplateUpdateLoad
  <2> DEFINE q == [NewRequest EXCEPT !.op = "update", !.pc = "checked",
                                     !.key.src = t, !.row = tmpl[t], !.body = b]
  <2>2. q \in Requests
    BY <1>1, Blank, RemindersAssumption DEF Requests, Keys
  <2>3. q.op = "update" /\ q.pc = "checked" /\ q.row = tmpl[t] /\ q.body = b
    BY DEF NewRequest
  <2>4. req' = [req EXCEPT ![r] = q]
    BY <2>1
  <2> HIDE DEF q
  <2>5. QED
    BY <2>1, <2>2, <2>3, <2>4, MovesOn
<1>5. ASSUME NEW r \in Reqs, RefreshLoad(r) PROVE RequestsHold'
  <2> DEFINE q == [NewRequest EXCEPT !.op = "refresh", !.pc = "templates", !.on = day, !.due = DueTemplates]
  <2>1. day \in Nat
    BY RemindersAssumption DEF TypeOK
  <2>2. q \in Requests
    BY <2>1, Blank, DueTemplatesType DEF Requests
  <2>3. q.op = "refresh" /\ q.made = {}
    BY DEF NewRequest
  <2>4. req' = [req EXCEPT ![r] = q]
    BY <1>5 DEF RefreshLoad
  <2> HIDE DEF q
  <2>5. QED
    BY <2>2, <2>3, <2>4, MovesOn
<1>6. ASSUME NEW r \in Reqs, ConfirmLoad(r) PROVE RequestsHold'
  <2>1. PICK k \in Events, a \in Amounts :
          /\ k.src \in Tmpls
          /\ tmpl[k.src].mode = "FLEXIBLE" => a > 0
          /\ req' = [req EXCEPT ![r] =
               [NewRequest EXCEPT !.op = "confirm", !.pc = "checked", !.key = k, !.row = tmpl[k.src],
                  !.amount = IF tmpl[k.src].mode = "FLEXIBLE" THEN a
                             ELSE IF tmpl[k.src].amount = Null THEN 0 ELSE tmpl[k.src].amount]]
    BY <1>6 DEF ConfirmLoad
  <2> DEFINE amount == IF tmpl[k.src].mode = "FLEXIBLE" THEN a
                       ELSE IF tmpl[k.src].amount = Null THEN 0 ELSE tmpl[k.src].amount
  <2>2. k \in Keys /\ tmpl[k.src] \in TmplRows
    BY <1>1, <2>1
  <2>3. LiveTmpl(k.src)
    BY <2>1, RemindersAssumption DEF NoOrphans, LiveSources, LiveTmpl
  <2>4. FieldsAgree(tmpl[k.src])
    BY <2>1, <2>3 DEF TemplatesConsistent
  <2>5. amount \in Int /\ amount > 0
    BY <2>1, <2>2, <2>4, RemindersAssumption DEF FieldsAgree, TmplRows, Null
  <2> DEFINE q == [NewRequest EXCEPT !.op = "confirm", !.pc = "checked", !.key = k,
                                     !.row = tmpl[k.src], !.amount = amount]
  <2>6. req' = [req EXCEPT ![r] = q]
    BY <2>1
  <2> HIDE DEF amount
  <2>7. q \in Requests
    BY <2>2, <2>5, Blank DEF Requests
  <2>8. q.op = "confirm" /\ q.pc = "checked" /\ q.key = k /\ q.amount = amount
    BY DEF NewRequest
  <2> HIDE DEF q
  <2>9. QED
    BY <2>1, <2>5, <2>6, <2>7, <2>8, MovesOn
<1>7. ASSUME NEW r \in Reqs, Finish(r) PROVE RequestsHold'
  BY <1>7, Finished
<1>8. ASSUME NEW r \in Reqs, RefreshLook(r) PROVE RequestsHold'
  <2>1. PICK k \in req[r].due \ req[r].made :
          \/ k \in Events /\ req' = [req EXCEPT ![r].made = @ \cup {k}]
          \/ k \notin Events /\ req' = [req EXCEPT ![r].missing = {k}]
    BY <1>8 DEF RefreshLook
  <2>2. event' = event /\ Refreshing(r)
    BY <1>8 DEF RefreshLook
  <2>3. \A j \in req[r].made : j \in Events' \/ j.src \in GoneSources'
    BY <2>2, KeptAfter DEF RequestsHold
  <2>4. k \in Keys /\ req[r] \in Requests
    BY <1>1 DEF Requests
  <2>5. req[r].pc \in {"templates", "bills"}
    BY <2>2 DEF Refreshing
  <2>6. CASE k \in Events /\ req' = [req EXCEPT ![r].made = @ \cup {k}]
    <3> DEFINE q == [req[r] EXCEPT !.made = @ \cup {k}]
    <3>1. q \in Requests /\ q.pc = req[r].pc /\ q.made = req[r].made \cup {k}
      BY <2>4 DEF Requests
    <3>2. req' = [req EXCEPT ![r] = q] /\ k \in Events'
      BY <1>1, <2>2, <2>6 DEF Events
    <3> HIDE DEF q
    <3>3. QED
      BY <2>3, <2>5, <3>1, <3>2, MovesOn
  <2>7. CASE req' = [req EXCEPT ![r].missing = {k}]
    <3> DEFINE q == [req[r] EXCEPT !.missing = {k}]
    <3>1. q \in Requests /\ q.pc = req[r].pc /\ q.made = req[r].made
      BY <2>4 DEF Requests
    <3>2. req' = [req EXCEPT ![r] = q]
      BY <1>1, <2>7
    <3> HIDE DEF q
    <3>3. QED
      BY <2>3, <2>5, <3>1, <3>2, MovesOn
  <2>8. QED
    BY <2>1, <2>6, <2>7
<1>9. ASSUME NEW r \in Reqs, RefreshInsert(r) PROVE RequestsHold'
  <2>1. PICK k \in req[r].missing :
          /\ event' = Inserted(k)
          /\ req' = [req EXCEPT ![r].made = @ \cup {k}, ![r].missing = {}]
    BY <1>9 DEF RefreshInsert
  <2>2. Refreshing(r) /\ k \in Events'
    BY <1>9, <2>1 DEF RefreshInsert, Inserted, Events
  <2>3. \A j \in req[r].made : j \in Events' \/ j.src \in GoneSources'
    BY <2>2, KeptAfter DEF RequestsHold
  <2>4. k \in Keys /\ req[r] \in Requests
    BY <1>1 DEF Requests
  <2> DEFINE q == [req[r] EXCEPT !.made = @ \cup {k}, !.missing = {}]
  <2>5. q \in Requests /\ q.pc = req[r].pc /\ q.made = req[r].made \cup {k}
    BY <2>4 DEF Requests
  <2>6. req' = [req EXCEPT ![r] = q] /\ req[r].pc \in {"templates", "bills"}
    BY <1>1, <2>1, <2>2 DEF Refreshing
  <2> HIDE DEF q
  <2>7. QED
    BY <2>2, <2>3, <2>5, <2>6, MovesOn
<1>10. ASSUME NEW r \in Reqs, RefreshBills(r) PROVE RequestsHold'
  <2> DEFINE q == [req[r] EXCEPT !.pc = "bills", !.due = @ \cup DueBills(req[r].on)]
  <2>1. req[r].pc = "templates" /\ req[r] \in Requests
    BY <1>1, <1>10 DEF RefreshBills, At
  <2>2. q \in Requests /\ q.pc = "bills" /\ q.made = req[r].made
    BY <2>1, DueBillsType DEF Requests
  <2>3. req' = [req EXCEPT ![r] = q]
    BY <1>1, <1>10 DEF RefreshBills
  <2> HIDE DEF q
  <2>4. \A j \in req[r].made : j \in Events' \/ j.src \in GoneSources'
    BY <2>1, KeptAfter DEF RequestsHold, Refreshing
  <2>5. QED
    BY <2>2, <2>3, <2>4, MovesOn
<1>11. ASSUME NEW r \in Reqs, Serve(r) PROVE RequestsHold'
  BY <1>7, <1>8, <1>9, <1>10, <1>11
     DEF Serve, TemplateUpdate, Confirm, Rollback, RefreshEnd, RefreshFail
<1>12. QED
  BY <1>3, <1>4, <1>5, <1>6, <1>11, NextSplit DEF Load

-----------------------------------------------------------------------------
(* Posted rows, their keys and the events that refer to them. *)

Accounts == ConfirmedOnce /\ RowsKeepKeys /\ LinksHold

LEMMA AccountsInit == Init => Accounts
BY DEF Init, Accounts, ConfirmedOnce, RowsKeepKeys, LinksHold, FreeTx, Events

(* Where no row and no surviving event changes, deletions disturb nothing. *)
LEMMA UntouchedAccounts ==
  ASSUME Accounts, KeptStays, tx' = tx, Events' \subseteq Events,
         \A k \in Events' : event'[k].tx = event[k].tx /\ (event'[k].completed <=> event[k].completed)
  PROVE  Accounts'
<1>1. \A k \in Events' : PostedFrom(k)' = PostedFrom(k)
  BY DEF PostedFrom
<1>2. ConfirmedOnce'
  BY <1>1 DEF Accounts, ConfirmedOnce
<1>3. RowsKeepKeys'
  BY KeptAfter DEF Accounts, RowsKeepKeys, Kept
<1>4. LinksHold'
  BY DEF Accounts, LinksHold
<1>5. QED
  BY <1>2, <1>3, <1>4 DEF Accounts

LEMMA InsertAccounts ==
  ASSUME TypeOK, Accounts, KeptStays, NEW k, Inserts(k), event' = Inserted(k), tx' = tx
  PROVE  Accounts'
<1>1. /\ Events' = Events \cup {k} /\ k \notin Events
      /\ event'[k] = NewEvent /\ \A j \in Events : event'[j] = event[j]
  BY DEF Inserted, Inserts, Events
<1>2. k.src \notin GoneSources
  BY SourcesDisjoint DEF Inserts
<1>3. PostedFrom(k) = {}
  BY <1>1, <1>2 DEF PostedFrom, Accounts, RowsKeepKeys, Kept
<1>4. \A j : PostedFrom(j)' = PostedFrom(j)
  BY DEF PostedFrom
<1>5. event'[k].completed = FALSE /\ event'[k].tx = Null
  BY <1>1 DEF NewEvent
<1>6. ConfirmedOnce'
  BY <1>1, <1>3, <1>4, <1>5 DEF Accounts, ConfirmedOnce
<1>7. RowsKeepKeys'
  BY KeptAfter DEF Accounts, RowsKeepKeys, Kept
<1>8. LinksHold'
  BY <1>1, <1>5 DEF Accounts, LinksHold
<1>9. QED
  BY <1>6, <1>7, <1>8 DEF Accounts

(* The conditional update is what keeps confirmations apart: a key that is  *)
(* stored and not completed has had no row.                                 *)
LEMMA ConfirmAccounts ==
  ASSUME TypeOK, Accounts, KeptStays, NEW r \in Reqs, Confirm(r)
  PROVE  Accounts'
<1> DEFINE k == req[r].key
<1>1. PICK t \in Txs :
        /\ tx[t].st = "free"
        /\ tx' = [tx EXCEPT ![t] = Posting(req[r])]
        /\ event' = [j \in Events |-> IF j = k THEN [event[j] EXCEPT !.completed = TRUE, !.tx = t]
                                               ELSE event[j]]
  BY DEF Confirm
<1>2. k \in Events /\ ~event[k].completed
  BY DEF Confirm, ConfirmCommits
<1> HIDE DEF k
<1>3. /\ event \in [Events -> EventRows] /\ tx \in [Txs -> TxRows] /\ Null \notin Txs
  BY RemindersAssumption DEF TypeOK
<1>4. Posting(req[r]).st = "live" /\ Posting(req[r]).key = k
  BY DEF Posting, k
<1>5. tx'[t].st = "live" /\ tx'[t].key = k /\ \A u \in Txs : u # t => tx'[u] = tx[u]
  BY <1>1, <1>3, <1>4
<1>6. /\ Events' = Events /\ \A j \in Events : j # k => event'[j] = event[j]
      /\ event'[k].completed = TRUE /\ event'[k].tx = t
  BY <1>1, <1>2, <1>3 DEF Events, EventRows
<1>7. \A u \in Txs : tx[u].st # "free" => tx[u].key # k
  BY <1>2 DEF Accounts, ConfirmedOnce, PostedFrom
<1>8. \A u, v \in Txs : tx'[u].st # "free" /\ tx'[v].st # "free" /\ tx'[u].key = tx'[v].key => u = v
  BY <1>5, <1>7 DEF Accounts, ConfirmedOnce
<1>9. \A j : j # k => {u \in Txs : tx'[u].st # "free" /\ tx'[u].key = j} = PostedFrom(j)
  BY <1>1, <1>5 DEF PostedFrom
<1>10. {u \in Txs : tx'[u].st # "free" /\ tx'[u].key = k} # {}
  BY <1>5
<1>11. \A j \in Events' : event'[j].completed <=> {u \in Txs : tx'[u].st # "free" /\ tx'[u].key = j} # {}
  <2> SUFFICES ASSUME NEW j \in Events'
               PROVE  event'[j].completed <=> {u \in Txs : tx'[u].st # "free" /\ tx'[u].key = j} # {}
    OBVIOUS
  <2>1. CASE j = k
    BY <1>6, <1>10, <2>1
  <2>2. CASE j # k
    <3>1. event'[j] = event[j] /\ j \in Events
      BY <1>6, <2>2
    <3>2. event[j].completed <=> PostedFrom(j) # {}
      BY <3>1 DEF Accounts, ConfirmedOnce
    <3>3. QED
      BY <1>9, <2>2, <3>1, <3>2
  <2>3. QED
    BY <2>1, <2>2
<1>12. ConfirmedOnce'
  BY <1>8, <1>11 DEF ConfirmedOnce, PostedFrom
<1>13. RowsKeepKeys'
  BY <1>2, <1>5, <1>6, KeptAfter DEF Accounts, RowsKeepKeys, Kept
<1>14. LinksHold'
  <2> SUFFICES ASSUME NEW j \in Events', event'[j].tx # Null
               PROVE  /\ event'[j].completed /\ tx'[event'[j].tx].st = "live"
                      /\ tx'[event'[j].tx].key = j
    BY DEF LinksHold
  <2>1. CASE j = k
    BY <1>5, <1>6, <2>1
  <2>2. CASE j # k
    <3>1. event'[j] = event[j] /\ j \in Events
      BY <1>6, <2>2
    <3>2. event[j].tx \in Txs
      BY <1>3, <3>1 DEF EventRows
    <3>3. event[j].completed /\ tx[event[j].tx].st = "live" /\ tx[event[j].tx].key = j
      BY <3>1 DEF Accounts, LinksHold
    <3>4. event[j].tx # t
      BY <1>1, <3>3
    <3>5. QED
      BY <1>5, <3>1, <3>2, <3>3, <3>4
  <2>3. QED
    BY <2>1, <2>2
<1>15. QED
  BY <1>12, <1>13, <1>14 DEF Accounts

(* Rows that are deleted keep their keys, and lose the event's reference.   *)
LEMMA DeletionAccounts ==
  ASSUME TypeOK, Accounts, KeptStays, Events' \subseteq Events,
         \A t \in Txs : tx'[t] = tx[t] \/ (tx[t].st = "live" /\ tx'[t] = [tx[t] EXCEPT !.st = "gone"]),
         \A k \in Events' : \/ event'[k] = event[k] /\ (event[k].tx # Null => tx'[event[k].tx] = tx[event[k].tx])
                            \/ event'[k] = Unlinked(event[k])
  PROVE  Accounts'
<1>1. event \in [Events -> EventRows] /\ tx \in [Txs -> TxRows]
  BY DEF TypeOK
<1>2. \A t \in Txs : tx'[t].key = tx[t].key /\ (tx'[t].st # "free" <=> tx[t].st # "free")
  BY <1>1 DEF TxRows
<1>3. \A k \in Events : Unlinked(event[k]).tx = Null /\ Unlinked(event[k]).completed = event[k].completed
  BY <1>1 DEF EventRows, Unlinked
<1>4. \A k \in Events' : event'[k].completed = event[k].completed
  BY <1>3
<1>5. \A k : PostedFrom(k)' = PostedFrom(k)
  BY <1>2 DEF PostedFrom
<1>6. ConfirmedOnce'
  BY <1>2, <1>4, <1>5 DEF Accounts, ConfirmedOnce
<1>7. RowsKeepKeys'
  BY <1>2, KeptAfter DEF Accounts, RowsKeepKeys, Kept
<1>8. LinksHold'
  BY <1>3 DEF Accounts, LinksHold
<1>9. QED
  BY <1>6, <1>7, <1>8 DEF Accounts

LEMMA AccountsStep ==
  ASSUME TypeOK, Accounts, KeptStays, Next
  PROVE  Accounts'
<1>1. event \in [Events -> EventRows] /\ tx \in [Txs -> TxRows] /\ Null \notin Txs
  BY RemindersAssumption DEF TypeOK
<1>2. CASE TemplateDelete
  <2>1. Events' \subseteq Events /\ \A k \in Events' : event'[k] = event[k]
    BY <1>2 DEF TemplateDelete, DropEvents, Events
  <2>2. QED
    BY <1>2, <2>1, UntouchedAccounts DEF TemplateDelete
<1>3. CASE BillDelete
  <2>1. Events' \subseteq Events /\ \A k \in Events' : event'[k] = event[k]
    BY <1>3 DEF BillDelete, DropEvents, Events
  <2>2. QED
    BY <1>3, <2>1, UntouchedAccounts DEF BillDelete
<1>4. CASE MarkRead
  <2>1. PICK keys : event' = [k \in Events |-> [event[k] EXCEPT !.read = @ \/ k \in keys]]
    BY <1>4 DEF MarkRead
  <2>2. /\ Events' = Events
        /\ \A k \in Events : event'[k].tx = event[k].tx /\ event'[k].completed = event[k].completed
    BY <1>1, <2>1 DEF Events, EventRows
  <2>3. QED
    BY <1>4, <2>2, UntouchedAccounts DEF MarkRead
<1>5. CASE TxDelete
  <2>1. PICK t \in Txs :
          /\ tx[t].st = "live"
          /\ tx' = [tx EXCEPT ![t].st = "gone"]
          /\ event' = [k \in Events |-> IF event[k].tx = t THEN Unlinked(event[k]) ELSE event[k]]
    BY <1>5 DEF TxDelete
  <2>2. \A u \in Txs : tx'[u] = tx[u] \/ (tx[u].st = "live" /\ tx'[u] = [tx[u] EXCEPT !.st = "gone"])
    BY <1>1, <2>1
  <2>3. /\ Events' = Events
        /\ \A k \in Events : event'[k] = IF event[k].tx = t THEN Unlinked(event[k]) ELSE event[k]
    BY <2>1 DEF Events
  <2>4. \A k \in Events : event[k].tx # t => tx'[event[k].tx] = tx[event[k].tx]
    BY <1>1, <2>1
  <2>5. QED
    BY <2>2, <2>3, <2>4, DeletionAccounts
<1>6. CASE WalletDelete
  <2>1. PICK w \in Wallets \ gone :
          /\ tx' = [t \in Txs |-> IF tx[t].st = "live" /\ tx[t].wallet = w THEN [tx[t] EXCEPT !.st = "gone"] ELSE tx[t]]
          /\ event' = [k \in {j \in Events : ~(LiveTmpl(j.src) /\ tmpl[j.src].wallet = w)} |->
                        IF event[k].tx # Null /\ tx[event[k].tx].wallet = w THEN Unlinked(event[k]) ELSE event[k]]
    BY <1>6 DEF WalletDelete
  <2>2. \A u \in Txs : tx'[u] = tx[u] \/ (tx[u].st = "live" /\ tx'[u] = [tx[u] EXCEPT !.st = "gone"])
    BY <2>1
  <2>3. /\ Events' \subseteq Events
        /\ \A k \in Events' : event'[k] = IF event[k].tx # Null /\ tx[event[k].tx].wallet = w
                                          THEN Unlinked(event[k]) ELSE event[k]
    BY <2>1 DEF Events
  <2>4. \A k \in Events : event[k].tx # Null => event[k].tx \in Txs
    BY <1>1 DEF EventRows
  <2>5. \A k \in Events : event[k].tx # Null /\ tx[event[k].tx].wallet # w => tx'[event[k].tx] = tx[event[k].tx]
    BY <2>1, <2>4
  <2>6. QED
    BY <2>2, <2>3, <2>5, DeletionAccounts
<1>7. ASSUME NEW r \in Reqs, Confirm(r) PROVE Accounts'
  BY <1>7, ConfirmAccounts
<1>8. ASSUME NEW r \in Reqs, RefreshInsert(r) PROVE Accounts'
  <2>1. PICK k : Inserts(k) /\ event' = Inserted(k)
    BY <1>8 DEF RefreshInsert
  <2>2. tx' = tx
    BY <1>8 DEF RefreshInsert
  <2>3. QED
    BY <2>1, <2>2, InsertAccounts
<1>9. CASE UNCHANGED <<event, tx>>
  BY <1>9, UntouchedAccounts DEF Events
<1>10. QED
  BY <1>2, <1>3, <1>4, <1>5, <1>6, <1>7, <1>8, <1>9
     DEF Next, Serve, TemplateCreate, TemplateUpdateLoad, TemplateUpdate, RefreshLoad, ConfirmLoad,
         Rollback, RefreshLook, RefreshBills, RefreshEnd, RefreshFail, BillPaid, TimePasses

-----------------------------------------------------------------------------
(* The money.  Every step that writes a balance changes one row with it;    *)
(* a deleted wallet takes only rows that count for no other wallet.         *)

(* A row that is not live, or is on another wallet, adds nothing. *)
LEMMA EffectElsewhere ==
  ASSUME NEW x \in TxRows, NEW w \in Wallets, x.st # "live" \/ x.wallet # w
  PROVE  PostedEffect(x, w) = 0
BY DEF PostedEffect, EffectOn, SourceDelta, HasDestination, TxRows

LEMMA PostedTypes ==
  ASSUME TypeOK, NEW w
  PROVE  \A t \in Txs : PostedEffects(w)[t] = PostedEffect(tx[t], w) /\ PostedEffects(w)[t] \in Int
BY PostedEffectType DEF TypeOK, PostedEffects

(* One row is replaced and every balance moves by the difference. *)
LEMMA PostedChange ==
  ASSUME TypeOK, TypeOK', BalancesPosted, NEW t \in Txs,
         \A u \in Txs : u # t => tx'[u] = tx[u],
         \A w \in Wallets : balance'[w] = balance[w] + (PostedEffect(tx'[t], w) - PostedEffect(tx[t], w)),
         gone' = gone
  PROVE  BalancesPosted'
<1> SUFFICES ASSUME NEW w \in Wallets \ gone
             PROVE  balance'[w] = Total(PostedEffects(w)', Txs)
  BY DEF BalancesPosted, PostedEffects
<1> DEFINE d == PostedEffects(w)'
           e == PostedEffects(w)
<1>1. \A u \in Txs : e[u] = PostedEffect(tx[u], w) /\ e[u] \in Int
  BY PostedTypes
<1>2. \A u \in Txs : d[u] = PostedEffect(tx'[u], w) /\ d[u] \in Int
  BY PostedEffectType DEF TypeOK, PostedEffects
<1>3. \A u \in Txs \ {t} : d[u] = e[u]
  BY <1>1, <1>2
<1>4. balance[w] = Total(e, Txs)
  BY DEF BalancesPosted
<1> HIDE DEF d, e
<1>5. Total(d, Txs) = Total(e, Txs) + (d[t] - e[t])
  BY <1>1, <1>2, <1>3, TotalChange, RemindersAssumption
<1>6. QED
  BY <1>1, <1>2, <1>4, <1>5 DEF d

(* Rows of wallets that are gone by then may change. *)
LEMMA PostedElsewhere ==
  ASSUME TypeOK, BalancesPosted, gone \subseteq gone', balance' = balance,
         \A w \in Wallets \ gone', t \in Txs : PostedEffect(tx'[t], w) = PostedEffect(tx[t], w)
  PROVE  BalancesPosted'
<1> SUFFICES ASSUME NEW w \in Wallets \ gone'
             PROVE  balance[w] = Total(PostedEffects(w)', Txs)
  BY DEF BalancesPosted, PostedEffects
<1>1. \A t \in Txs : PostedEffects(w)'[t] = PostedEffects(w)[t]
  BY DEF PostedEffects
<1>2. Total(PostedEffects(w)', Txs) = Total(PostedEffects(w), Txs)
  BY <1>1, TotalEqual, RemindersAssumption
<1>3. QED
  BY <1>2 DEF BalancesPosted

LEMMA PostedInit == Init => BalancesPosted
<1> SUFFICES ASSUME Init, NEW w \in Wallets
             PROVE  balance[w] = Total(PostedEffects(w), Txs)
  BY DEF BalancesPosted
<1>1. \A t \in Txs : PostedEffects(w)[t] = 0
  BY DEF Init, FreeTx, PostedEffects, PostedEffect
<1>2. Total(PostedEffects(w), Txs) = 0
  BY <1>1, TotalZero, RemindersAssumption
<1>3. QED
  BY <1>2 DEF Init

LEMMA PostedStep ==
  ASSUME TypeOK, TypeOK', BalancesPosted, Next
  PROVE  BalancesPosted'
<1>1. tx \in [Txs -> TxRows] /\ req \in [Reqs -> Requests] /\ balance \in [Wallets -> Int]
  BY DEF TypeOK
<1>2. CASE \E r \in Reqs : Confirm(r)
  <2>1. PICK r \in Reqs : Confirm(r)
    BY <1>2
  <2>2. PICK t \in Txs : tx[t].st = "free" /\ tx' = [tx EXCEPT ![t] = Posting(req[r])]
    BY <2>1 DEF Confirm
  <2>3. /\ balance' = [w \in Wallets |-> balance[w] + PostedEffect(Posting(req[r]), w)]
        /\ gone' = gone
    BY <2>1 DEF Confirm
  <2>4. tx'[t] = Posting(req[r]) /\ \A u \in Txs : u # t => tx'[u] = tx[u]
    BY <1>1, <2>2
  <2>5. \A w \in Wallets : /\ PostedEffect(tx[t], w) = 0
                           /\ PostedEffect(tx'[t], w) \in Int
    BY <1>1, <2>2, <2>4, EffectElsewhere, PostedEffectType, PostingType
  <2>6. \A w \in Wallets : balance'[w] = balance[w] + (PostedEffect(tx'[t], w) - PostedEffect(tx[t], w))
    BY <1>1, <2>3, <2>4, <2>5
  <2>7. QED
    BY <2>3, <2>4, <2>6, PostedChange
<1>3. CASE TxDelete
  <2>1. PICK t \in Txs :
          /\ tx' = [tx EXCEPT ![t].st = "gone"]
          /\ balance' = [w \in Wallets |-> balance[w] - PostedEffect(tx[t], w)]
    BY <1>3 DEF TxDelete
  <2>2. /\ tx'[t] \in TxRows /\ tx'[t].st = "gone"
        /\ \A u \in Txs : u # t => tx'[u] = tx[u]
    BY <1>1, <2>1 DEF TxRows
  <2>3. \A w \in Wallets : PostedEffect(tx'[t], w) = 0 /\ PostedEffect(tx[t], w) \in Int
    BY <1>1, <2>2, EffectElsewhere, PostedEffectType
  <2>4. \A w \in Wallets : balance'[w] = balance[w] + (PostedEffect(tx'[t], w) - PostedEffect(tx[t], w))
    BY <1>1, <2>1, <2>3
  <2>5. gone' = gone
    BY <1>3 DEF TxDelete
  <2>6. QED
    BY <2>2, <2>4, <2>5, PostedChange
<1>4. CASE WalletDelete
  <2>1. PICK v \in Wallets \ gone :
          /\ gone' = gone \cup {v}
          /\ tx' = [t \in Txs |-> IF tx[t].st = "live" /\ tx[t].wallet = v THEN [tx[t] EXCEPT !.st = "gone"] ELSE tx[t]]
    BY <1>4 DEF WalletDelete
  <2>2. ASSUME NEW w \in Wallets \ gone', NEW t \in Txs
        PROVE  PostedEffect(tx'[t], w) = PostedEffect(tx[t], w)
    <3>1. CASE tx[t].st = "live" /\ tx[t].wallet = v
      <4>1. tx'[t] \in TxRows /\ tx'[t].st = "gone"
        BY <1>1, <2>1, <3>1 DEF TxRows
      <4>2. QED
        BY <1>1, <2>1, <3>1, <4>1, EffectElsewhere
    <3>2. CASE ~(tx[t].st = "live" /\ tx[t].wallet = v)
      BY <2>1, <3>2
    <3>3. QED
      BY <3>1, <3>2
  <2>3. balance' = balance
    BY <1>4 DEF WalletDelete
  <2>4. QED
    BY <2>1, <2>2, <2>3, PostedElsewhere
<1>5. CASE UNCHANGED <<balance, gone, tx>>
  BY <1>5, PostedElsewhere
<1>6. QED
  BY <1>2, <1>3, <1>4, <1>5
     DEF Next, Serve, TemplateCreate, TemplateDelete, TemplateUpdateLoad, TemplateUpdate, RefreshLoad,
         ConfirmLoad, Rollback, RefreshLook, RefreshInsert, RefreshBills, RefreshEnd, RefreshFail,
         MarkRead, BillPaid, BillDelete, TimePasses

-----------------------------------------------------------------------------
(* The inductive invariant. *)
Carried == RequestsHold /\ RowsKeepKeys /\ LinksHold
Inv == TypeOK /\ TemplatesConsistent /\ NoOrphans /\ ConfirmedOnce /\ Carried /\ BalancesPosted

LEMMA InvInit == Init => Inv
<1> SUFFICES ASSUME Init PROVE Inv
  OBVIOUS
<1>1. NoOrphans
  BY DEF Init, NoOrphans, Events
<1>2. QED
  BY <1>1, TypeInit, ConsistentInit, RequestsInit, AccountsInit, PostedInit DEF Inv, Carried, Accounts

LEMMA InvNext == Inv /\ Next => Inv'
<1> SUFFICES ASSUME Inv, Next PROVE Inv'
  OBVIOUS
<1>1. TypeOK /\ TemplatesConsistent /\ NoOrphans /\ RequestsHold /\ Accounts /\ BalancesPosted
  BY DEF Inv, Carried, Accounts
<1>2. TypeOK'
  BY <1>1, EnvironmentType, LoadType, ServeType, NextSplit
<1>3. TemplatesConsistent'
  BY <1>1, ConsistentStep
<1>4. KeptStays /\ NoOrphans'
  BY <1>1, SourcesStep
<1>5. RequestsHold'
  BY <1>1, <1>4, RequestsStep
<1>6. Accounts'
  BY <1>1, <1>4, AccountsStep
<1>7. BalancesPosted'
  BY <1>1, <1>2, PostedStep
<1>8. QED
  BY <1>2, <1>3, <1>4, <1>5, <1>6, <1>7 DEF Inv, Carried, Accounts

LEMMA InvStutter == Inv /\ UNCHANGED vars => Inv'
BY DEF Inv, vars, TypeOK, TemplatesConsistent, NoOrphans, ConfirmedOnce, PostedFrom, Carried,
       RequestsHold, RowsKeepKeys, LinksHold, Kept, LiveSources, GoneSources, LiveTmpl, LiveBill,
       Events, At, Refreshing, BalancesPosted, PostedEffects

(* In every reachable state types, templates, events, posted rows and what  *)
(* the requests in flight carry fit together.                               *)
THEOREM Invariance == Spec => []Inv
<1>1. Inv /\ [Next]_vars => Inv'
  BY InvNext, InvStutter
<1>2. QED
  BY InvInit, <1>1, PTL DEF Spec

(* Every stored row is well typed, and no update stores a field of the      *)
(* wrong kind.                                                              *)
THEOREM TypeCorrect == Spec => []TypeOK
<1>1. Inv => TypeOK
  BY DEF Inv
<1>2. QED
  BY Invariance, <1>1, PTL

(* What requests in flight and posted rows rely on is taken away only by a  *)
(* deletion of the source.                                                  *)
THEOREM ReadsStayGood == Spec => []CarriedHolds
<1>1. Inv => CarriedHolds
  BY DEF Inv, Carried, RequestsHold, CarriedHolds, RequestsCarry
<1>2. QED
  BY Invariance, <1>1, PTL

(* updateRecurringTransaction: concurrent updates leave a template whose    *)
(* mode, amount, enabled and offset agree.                                  *)
THEOREM TemplatesStayConsistent == Spec => []TemplatesConsistent
<1>1. Inv => TemplatesConsistent
  BY DEF Inv
<1>2. QED
  BY Invariance, <1>1, PTL

(* confirmReminder, deleteTransaction, deleteWallet: in every reachable     *)
(* state the balance of a wallet is the sum of its posted rows.             *)
THEOREM BalancesStayPosted == Spec => []BalancesPosted
<1>1. Inv => BalancesPosted
  BY DEF Inv
<1>2. QED
  BY Invariance, <1>1, PTL

(* confirmReminder: at most one transaction for a reminder, whatever        *)
(* confirmations are in flight.                                             *)
THEOREM AtMostOneTransaction == Spec => []ConfirmedOnce
<1>1. Inv => ConfirmedOnce
  BY DEF Inv
<1>2. QED
  BY Invariance, <1>1, PTL

(* No event outlives its template or bill, in whatever order deletions and  *)
(* refreshes commit.                                                        *)
THEOREM NoEventOrphaned == Spec => []NoOrphans
<1>1. Inv => NoOrphans
  BY DEF Inv
<1>2. QED
  BY Invariance, <1>1, PTL

(* evaluateReminders: a key that a refresh has gone through is stored until *)
(* its source is deleted.                                                   *)
THEOREM RefreshesDeliver == Spec => []RefreshDelivers
<1>1. Inv => RefreshDelivers
  BY SourcesDisjoint DEF Inv, Carried, RequestsHold, RefreshDelivers, Kept
<1>2. QED
  BY Invariance, <1>1, PTL

(* confirmReminder posts only from a template that still exists, and a      *)
(* positive amount.                                                         *)
THEOREM PostsWhileLive == Spec => PostedWhileLive
<1> DEFINE Posts == \A t \in Txs : tx[t].st = "free" /\ tx'[t].st = "live"
                      => (LiveTmpl(tx[t].key.src) /\ tx[t].amount > 0)'
<1>1. ASSUME Inv, Next PROVE Posts
  <2> SUFFICES ASSUME NEW t \in Txs, tx[t].st = "free", tx'[t].st = "live"
               PROVE  (LiveTmpl(tx[t].key.src) /\ tx[t].amount > 0)'
    OBVIOUS
  <2>1. tx \in [Txs -> TxRows]
    BY <1>1 DEF Inv, TypeOK
  <2>2. CASE \E r \in Reqs : Confirm(r)
    <3>1. PICK r \in Reqs : Confirm(r)
      BY <2>2
    <3>2. PICK u \in Txs : tx' = [tx EXCEPT ![u] = Posting(req[r])]
      BY <3>1 DEF Confirm
    <3>3. u = t /\ tx'[t] = Posting(req[r])
      BY <2>1, <3>2
    <3>4. req[r].key.src \in Tmpls /\ req[r].amount > 0
      BY <1>1, <3>1 DEF Inv, Carried, RequestsHold, Confirm
    <3>5. LiveTmpl(req[r].key.src)
      BY <1>1, <3>1, <3>4, RemindersAssumption
         DEF Inv, NoOrphans, LiveSources, LiveTmpl, Confirm, ConfirmCommits
    <3>6. tmpl' = tmpl
      BY <3>1 DEF Confirm
    <3>7. tx'[t].key = req[r].key /\ tx'[t].amount = req[r].amount
      BY <3>3 DEF Posting
    <3>8. QED
      BY <3>4, <3>5, <3>6, <3>7 DEF LiveTmpl
  <2>3. CASE tx' = tx
    BY <2>3
  <2>4. CASE TxDelete
    BY <2>1, <2>4 DEF TxDelete, TxRows
  <2>5. CASE WalletDelete
    BY <2>1, <2>5 DEF WalletDelete, TxRows
  <2>6. QED
    BY <1>1, <2>2, <2>3, <2>4, <2>5
       DEF Next, Serve, TemplateCreate, TemplateDelete, TemplateUpdateLoad, TemplateUpdate, RefreshLoad,
           ConfirmLoad, Rollback, RefreshLook, RefreshInsert, RefreshBills, RefreshEnd, RefreshFail,
           MarkRead, BillPaid, BillDelete, TimePasses
<1>2. Inv /\ [Next]_vars => [Posts]_vars
  BY <1>1
<1>3. QED
  BY Invariance, <1>2, PTL DEF Spec, PostedWhileLive

(* No refresh, confirmation or deletion takes a mark from an event, and its *)
(* transaction is unlinked only when it is deleted.                         *)
THEOREM MarksStay == Spec => EventsKeepMarks
<1> DEFINE Keeps == \A k \in Events \cap Events' :
       /\ event[k].read => event'[k].read
       /\ event[k].completed => event'[k].completed
       /\ event[k].tx # Null /\ event'[k].tx # event[k].tx => tx'[event[k].tx].st = "gone"
<1>1. ASSUME Inv, Next PROVE Keeps
  <2>1. /\ event \in [Events -> EventRows] /\ tx \in [Txs -> TxRows] /\ LinksHold
    BY <1>1 DEF Inv, TypeOK, Carried
  <2>2. \A k \in Events : Unlinked(event[k]).read = event[k].read /\ Unlinked(event[k]).completed = event[k].completed
    BY <2>1 DEF EventRows, Unlinked
  <2>3. CASE \A k \in Events \cap Events' : event'[k] = event[k]
    BY <2>3
  <2>4. CASE TemplateDelete
    BY <2>3, <2>4 DEF TemplateDelete, DropEvents, Events
  <2>5. CASE BillDelete
    BY <2>3, <2>5 DEF BillDelete, DropEvents, Events
  <2>6. CASE \E r \in Reqs : RefreshInsert(r)
    BY <2>3, <2>6 DEF RefreshInsert, Inserted, Events
  <2>7. CASE MarkRead
    <3>1. PICK keys : event' = [k \in Events |-> [event[k] EXCEPT !.read = @ \/ k \in keys]]
      BY <2>7 DEF MarkRead
    <3>2. \A k \in Events : /\ event[k].read => event'[k].read
                            /\ event'[k].completed = event[k].completed /\ event'[k].tx = event[k].tx
      BY <2>1, <3>1 DEF EventRows
    <3>3. QED
      BY <3>2
  <2>8. CASE \E r \in Reqs : Confirm(r)
    <3>1. PICK r \in Reqs : Confirm(r)
      BY <2>8
    <3> DEFINE j == req[r].key
    <3>2. PICK t \in Txs : event' = [k \in Events |-> IF k = j THEN [event[k] EXCEPT !.completed = TRUE, !.tx = t]
                                                       ELSE event[k]]
      BY <3>1 DEF Confirm
    <3>3. j \in Events /\ ~event[j].completed
      BY <3>1 DEF Confirm, ConfirmCommits
    <3> HIDE DEF j
    <3>4. event[j].tx = Null
      BY <2>1, <3>3 DEF LinksHold
    <3>5. event'[j].read = event[j].read /\ event'[j].completed = TRUE
      BY <2>1, <3>2, <3>3 DEF EventRows
    <3>6. \A k \in Events : k # j => event'[k] = event[k]
      BY <3>2
    <3>7. QED
      BY <3>4, <3>5, <3>6
  <2>9. CASE TxDelete
    <3>1. PICK t \in Txs :
            /\ tx' = [tx EXCEPT ![t].st = "gone"]
            /\ event' = [k \in Events |-> IF event[k].tx = t THEN Unlinked(event[k]) ELSE event[k]]
      BY <2>9 DEF TxDelete
    <3>2. tx'[t].st = "gone"
      BY <2>1, <3>1 DEF TxRows
    <3>3. QED
      BY <2>2, <3>1, <3>2
  <2>10. CASE WalletDelete
    <3>1. PICK w \in Wallets \ gone :
            /\ tx' = [t \in Txs |-> IF tx[t].st = "live" /\ tx[t].wallet = w THEN [tx[t] EXCEPT !.st = "gone"] ELSE tx[t]]
            /\ event' = [k \in {j \in Events : ~(LiveTmpl(j.src) /\ tmpl[j.src].wallet = w)} |->
                          IF event[k].tx # Null /\ tx[event[k].tx].wallet = w THEN Unlinked(event[k]) ELSE event[k]]
      BY <2>10 DEF WalletDelete
    <3>2. \A k \in Events : event[k].tx # Null => event[k].tx \in Txs /\ tx[event[k].tx].st = "live"
      BY <2>1 DEF EventRows, LinksHold
    <3>3. \A k \in Events : event[k].tx # Null /\ tx[event[k].tx].wallet = w => tx'[event[k].tx].st = "gone"
      BY <2>1, <3>1, <3>2 DEF TxRows
    <3>4. \A k \in Events \cap Events' :
            event'[k] = IF event[k].tx # Null /\ tx[event[k].tx].wallet = w THEN Unlinked(event[k]) ELSE event[k]
      BY <3>1 DEF Events
    <3>5. QED
      BY <2>2, <3>3, <3>4
  <2>11. CASE event' = event
    BY <2>3, <2>11
  <2>12. QED
    BY <1>1, <2>4, <2>5, <2>6, <2>7, <2>8, <2>9, <2>10, <2>11
       DEF Next, Serve, TemplateCreate, TemplateUpdateLoad, TemplateUpdate, RefreshLoad, ConfirmLoad,
           Rollback, RefreshLook, RefreshBills, RefreshEnd, RefreshFail, BillPaid, TimePasses
<1>2. Inv /\ [Next]_vars => [Keeps]_vars
  BY <1>1
<1>3. QED
  BY Invariance, <1>2, PTL DEF Spec, EventsKeepMarks
=============================================================================
