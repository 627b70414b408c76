------------------------------- MODULE Budgets -------------------------------
(***************************************************************************)
(* A user's row, the default categories and the budgets set on them        *)
(* (user.controller.ts, category.service.ts, budget.service.ts and         *)
(* budget.controller.ts), under requests that interleave between queries.  *)
(***************************************************************************)
EXTENDS Integers, FiniteSets

CONSTANTS
  Expenses, Incomes,  \* the default categories of either type
  BudgetIds,          \* ids of budgets, the bound on creations
  BudgetReqs,         \* ids of requests, each served once
  BudgetAmounts       \* amounts that bodies carry

Defaults == Expenses \cup Incomes
BudgetRows == [st : {"free", "live"}, cat : Defaults, amount : Int, archived : BOOLEAN]

ASSUME BudgetsAssumption ==
  Expenses \cap Incomes = {} /\ Expenses # {} /\ BudgetIds # {} /\ BudgetAmounts \subseteq Int

VARIABLES
  user,       \* the row of the user is stored
  category,   \* the stored categories
  budget,     \* budgets table
  budgetReq   \* local variables of the requests

budgetVars == <<user, category, budget, budgetReq>>

FreeBudget == [st |-> "free", cat |-> CHOOSE c \in Defaults : TRUE, amount |-> 0, archived |-> FALSE]

(* answer is the status code sent, 0 before; code the one to be sent if     *)
(* nothing fails any more.  todo and missing are the categories still to be *)
(* looked at, and those found missing and not yet inserted.                 *)
BudgetOps == {"none", "sync", "categories", "create", "amount", "archive", "restore"}
Answers == {0, 200, 201, 401, 404, 409, 422, 500}
BudgetRequests == [op : BudgetOps, pc : {"new", "lookup", "ensure", "checked", "written", "done"},
                   cat : Defaults, id : BudgetIds, amount : Int, code : Answers, answer : Answers,
                   todo : SUBSET Defaults, missing : SUBSET Defaults]
NewBudgetRequest == [op |-> "none", pc |-> "new", cat |-> CHOOSE c \in Defaults : TRUE,
                     id |-> CHOOSE b \in BudgetIds : TRUE, amount |-> 0, code |-> 0, answer |-> 0,
                     todo |-> {}, missing |-> {}]

LiveBudget(b) == budget[b].st = "live"
BudgetOf(c) == {b \in BudgetIds : LiveBudget(b) /\ budget[b].cat = c}

(* The request goes on as q; nothing is stored. *)
BudgetGoesOn(r, q) == budgetReq' = [budgetReq EXCEPT ![r] = q] /\ UNCHANGED <<user, category, budget>>
Answered(q, code) == [q EXCEPT !.pc = "done", !.code = code, !.answer = code]

(* A first read is behind requireUser, which wants the user's row (401).    *)
BudgetStart(r, op) == budgetReq[r].pc = "new" /\ op \in BudgetOps
-----------------------------------------------------------------------------
(* POST /users/sync (requireVerifiedJwt, so without a user's row) and       *)
(* GET /categories, both ending in ensureDefaultCategories.                 *)

Ensuring(q, op, code) == [q EXCEPT !.op = op, !.pc = "ensure", !.code = code, !.todo = Defaults]

SyncLook(r) ==
  /\ BudgetStart(r, "sync")
  /\ BudgetGoesOn(r, IF user THEN Ensuring(budgetReq[r], "sync", 200)
                     ELSE [budgetReq[r] EXCEPT !.op = "sync", !.pc = "lookup"])

(* The second insert of one id fails (P2002) and is answered with a 500. *)
SyncCreate(r) ==
  LET q == budgetReq[r] IN
  /\ q.pc = "lookup"
  /\ user' = TRUE
  /\ budgetReq' = [budgetReq EXCEPT ![r] =
       IF user THEN Answered(q, 500) ELSE Ensuring(q, "sync", 201)]
  /\ UNCHANGED <<category, budget>>

CategoriesList(r) ==
  /\ BudgetStart(r, "categories")
  /\ BudgetGoesOn(r, IF user THEN Ensuring(budgetReq[r], "categories", 200)
                     ELSE [Answered(budgetReq[r], 401) EXCEPT !.op = "categories"])

(* The upserts run side by side: each looks for its category ...            *)
EnsureLook(r) ==
  LET q == budgetReq[r] IN
  /\ q.pc = "ensure"
  /\ \E c \in q.todo :
       BudgetGoesOn(r, [q EXCEPT !.todo = @ \ {c},
                                 !.missing = IF c \in category THEN @ ELSE @ \cup {c}])

(* ... and inserts it.  If it is there by now, the upsert does nothing or   *)
(* fails on the unique key, as the database client happens to run it.       *)
EnsureInsert(r) ==
  LET q == budgetReq[r] IN
  /\ q.pc = "ensure"
  /\ \E c \in q.missing :
       /\ category' = category \cup {c}
       /\ \/ budgetReq' = [budgetReq EXCEPT ![r] = [q EXCEPT !.missing = @ \ {c}]]
          \/ /\ c \in category
             /\ budgetReq' = [budgetReq EXCEPT ![r] = [q EXCEPT !.missing = @ \ {c}, !.answer = 500]]
  /\ UNCHANGED <<user, budget>>

(* Promise.all: the first failure is answered at once, the other upserts    *)
(* go on by themselves.                                                     *)
EnsureEnd(r) ==
  LET q == budgetReq[r] IN
  /\ q.pc = "ensure" /\ q.todo = {} /\ q.missing = {}
  /\ BudgetGoesOn(r, Answered(q, IF q.answer = 500 THEN 500 ELSE q.code))
-----------------------------------------------------------------------------
(* createBudget: category and budget are looked up, then the row inserted.  *)
(* Categories are never deleted, so the first lookup is no step by itself.  *)

CreateRefusal(c, amount) ==
  IF ~user THEN 401
  ELSE IF amount <= 0 THEN 422
  ELSE IF c \notin category THEN 404
  ELSE IF c \notin Expenses THEN 422
  ELSE IF BudgetOf(c) # {} THEN 409 ELSE 0

BudgetCreateLook(r) ==
  /\ BudgetStart(r, "create")
  /\ \E c \in Defaults, amount \in BudgetAmounts :
       LET q == [budgetReq[r] EXCEPT !.op = "create", !.cat = c, !.amount = amount]
           refusal == CreateRefusal(c, amount)
       IN BudgetGoesOn(r, IF refusal # 0 THEN Answered(q, refusal) ELSE [q EXCEPT !.pc = "checked"])

(* Mutant: the table has no unique key. *)
InsertsUnchecked(c) == TRUE

(* @@unique([userId, categoryId]) *)
InsertsBudget(c) == BudgetOf(c) = {}

BudgetCreate(r) ==
  LET q == budgetReq[r] IN
  /\ q.pc = "checked" /\ q.op = "create" /\ InsertsBudget(q.cat)
  /\ \E b \in BudgetIds :
       /\ ~LiveBudget(b)
       /\ budget' = [budget EXCEPT ![b] =
            [st |-> "live", cat |-> q.cat, amount |-> q.amount, archived |-> FALSE]]
       /\ budgetReq' = [budgetReq EXCEPT ![r] = [q EXCEPT !.pc = "written", !.id = b, !.code = 201]]
  /\ UNCHANGED <<user, category>>

(* The insert that comes second (P2002). *)
BudgetExists(r) ==
  LET q == budgetReq[r] IN
  /\ q.pc = "checked" /\ q.op = "create" /\ ~InsertsBudget(q.cat)
  /\ BudgetGoesOn(r, Answered(q, 409))
-----------------------------------------------------------------------------
(* updateBudgetAmount, archiveBudget and restoreBudget: a read, a write.    *)

(* Repeating an archive or a restore is a conflict; the amount of an        *)
(* archived budget may be changed.                                          *)
ChangeRefusal(op, b, amount) ==
  IF op = "amount" /\ amount <= 0 THEN 422
  ELSE IF op = "archive" /\ budget[b].archived THEN 409
  ELSE IF op = "restore" /\ ~budget[b].archived THEN 409 ELSE 0

BudgetChangeLook(r) ==
  /\ budgetReq[r].pc = "new"
  /\ \E op \in {"amount", "archive", "restore"}, b \in BudgetIds, amount \in BudgetAmounts :
       /\ LiveBudget(b) /\ (op # "amount" => amount > 0)
       /\ LET q == [budgetReq[r] EXCEPT !.op = op, !.id = b, !.amount = amount]
              refusal == ChangeRefusal(op, b, amount)
          IN BudgetGoesOn(r, IF refusal # 0 THEN Answered(q, refusal) ELSE [q EXCEPT !.pc = "checked"])

ChangedBudget(q, x) ==
  CASE q.op = "amount"  -> [x EXCEPT !.amount = q.amount]
    [] q.op = "archive" -> [x EXCEPT !.archived = TRUE]
    [] q.op = "restore" -> [x EXCEPT !.archived = FALSE]

BudgetChange(r) ==
  LET q == budgetReq[r] IN
  /\ q.pc = "checked" /\ q.op \in {"amount", "archive", "restore"}
  /\ budget' = [budget EXCEPT ![q.id] = ChangedBudget(q, budget[q.id])]
  /\ budgetReq' = [budgetReq EXCEPT ![r] = [q EXCEPT !.pc = "written", !.code = 200]]
  /\ UNCHANGED <<user, category>>

(* respondWithUsage reads the budget again; budgets are never deleted.      *)
BudgetRespond(r) ==
  /\ budgetReq[r].pc = "written"
  /\ BudgetGoesOn(r, Answered(budgetReq[r], budgetReq[r].code))

(* At first a new user, or one whose sign-in ended amid the upserts. *)
BudgetsInit ==
  /\ user \in BOOLEAN /\ category \in SUBSET Defaults /\ (~user => category = {})
  /\ budget = [b \in BudgetIds |-> FreeBudget]
  /\ budgetReq = [r \in BudgetReqs |-> NewBudgetRequest]

BudgetsNext ==
  \E r \in BudgetReqs :
    \/ SyncLook(r) \/ SyncCreate(r) \/ CategoriesList(r)
    \/ EnsureLook(r) \/ EnsureInsert(r) \/ EnsureEnd(r)
    \/ BudgetCreateLook(r) \/ BudgetCreate(r) \/ BudgetExists(r)
    \/ BudgetChangeLook(r) \/ BudgetChange(r) \/ BudgetRespond(r)

BudgetsSpec == BudgetsInit /\ [][BudgetsNext]_budgetVars
-----------------------------------------------------------------------------
BudgetsTypeOK ==
  /\ user \in BOOLEAN /\ category \subseteq Defaults
  /\ budget \in [BudgetIds -> BudgetRows]
  /\ budgetReq \in [BudgetReqs -> BudgetRequests]

(* Whoever is told that the account is ready has it: after a 200 or 201 of  *)
(* a sync or of the category list the user's row and every default category *)
(* are stored, however many first sign-ins ran at once; one of them at most *)
(* is told that it made the row.                                            *)
Provisioned ==
  /\ \A r \in BudgetReqs :
       budgetReq[r].op \in {"sync", "categories"} /\ budgetReq[r].answer \in {200, 201} =>
         user /\ category = Defaults
  /\ Cardinality({r \in BudgetReqs : budgetReq[r].op = "sync" /\ budgetReq[r].answer = 201}) <= 1

(* "An archived duplicate is never silently restored ... the constraint is  *)
(* the real guarantee": one budget a category, active or archived, and a    *)
(* 201 means this budget, a 409 of a create that there is one.  A create    *)
(* that lost a race is a conflict, never an error of the server.            *)
OneBudgetEach ==
  /\ \A c \in Defaults : Cardinality(BudgetOf(c)) <= 1
  /\ \A r \in BudgetReqs : LET q == budgetReq[r] IN
       q.op = "create" =>
         /\ q.answer = 201 => BudgetOf(q.cat) = {q.id} /\ q.cat \in Expenses
         /\ q.answer = 409 => BudgetOf(q.cat) # {}
         /\ q.answer # 500

BudgetingSound == Provisioned /\ OneBudgetEach
=============================================================================
