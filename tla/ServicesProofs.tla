--------------------------- MODULE ServicesProofs ---------------------------
(***************************************************************************)
(* Saving goals, first sign-ins, default categories and budgets, for any   *)
(* number of requests: a goal's status and its archive agree with its      *)
(* amounts, whoever is told that a thing is stored has it, and no category *)
(* has two budgets.  At the end, the services together: what is proved of  *)
(* each on its own holds of all of them in one program.                    *)
(***************************************************************************)
EXTENDS Services, ServerProofs, ReportsProofs, FiniteSetTheorems, TLAPS

-----------------------------------------------------------------------------
(* A request that has read carries the fields its kind of write sets, and   *)
(* the row of a goal that exists and was not archived then.                 *)
Loaded ==
  \A r \in GoalReqs : goalReq[r].pc = "loaded" =>
    /\ goalReq[r].op # "none"
    /\ goalReq[r].op = "update" => goalReq[r].current = Unset /\ goalReq[r].target \in Nat \cup {Unset}
                                     /\ goalReq[r].date \in Nat \cup {Unset}
    /\ goalReq[r].op = "progress" => goalReq[r].current \in Nat /\ goalReq[r].target = Unset
    /\ goalReq[r].row.status # "ARCHIVED" /\ goal[goalReq[r].id].st = "live"

GoalsInv == GoalsTypeOK /\ Loaded /\ StatusTruth

LEMMA StatusType ==
  ASSUME NEW c, NEW t
  PROVE  ResolveStatus(c, t) \in GoalStatuses /\ ResolveStatus(c, t) # "ARCHIVED"
BY DEF ResolveStatus, GoalStatuses

LEMMA NewRequestType == [NewGoalRequest EXCEPT !.pc = "done"] \in GoalRequests /\ NewGoalRequest \in GoalRequests
<1> DEFINE g == CHOOSE g \in Goals : TRUE
<1>1. g \in Goals
  BY GoalsAssumption
<1>2. FreeGoal \in GoalRows
  BY DEF FreeGoal, GoalRows, GoalStatuses
<1>3. Unset \in Int
  BY DEF Unset
<1> HIDE DEF g
<1>4. NewGoalRequest = [op |-> "none", pc |-> "new", id |-> g,
                   target |-> Unset, current |-> Unset, date |-> Unset, row |-> FreeGoal]
  BY DEF NewGoalRequest, g
<1>5. QED
  BY <1>1, <1>2, <1>3, <1>4 DEF GoalRequests, GoalOps

(* What a write makes of a row is a row; a progress or an update leaves the *)
(* status that its own reading calls for.                                   *)
LEMMA WrittenType ==
  ASSUME NEW q \in GoalRequests, NEW x \in GoalRows, x.st = "live", q.op # "none",
         q.op = "update" => q.target \in Nat \cup {Unset} /\ q.date \in Nat \cup {Unset},
         q.op = "progress" => q.current \in Nat
  PROVE  WrittenGoal(q, x) \in GoalRows /\ WrittenGoal(q, x).st = "live"
<1>1. /\ q.op \in GoalOps /\ q.row \in GoalRows /\ x.current \in Nat /\ x.target \in Nat /\ x.date \in Nat
      /\ q.row.date \in Nat
  BY DEF GoalRequests, GoalRows
<1>2. CASE q.op = "update"
  <2>1. WrittenGoal(q, x) = UpdatedGoal(q, x)
    BY <1>2 DEF WrittenGoal
  <2>2. ASSUME NEW t \in Nat, NEW d \in Nat, NEW s \in GoalStatuses
        PROVE  [st |-> x.st, current |-> x.current, target |-> t, date |-> d, status |-> s] \in GoalRows
    BY <1>1 DEF GoalRows
  <2>3. /\ (IF q.target = Unset THEN x.target ELSE q.target) \in Nat
        /\ (IF q.date = Unset THEN q.row.date ELSE q.date) \in Nat
    BY <1>1, <1>2
  <2>4. QED
    BY <2>1, <2>2, <2>3, StatusType DEF UpdatedGoal
<1>3. CASE q.op = "progress"
  <2>1. WrittenGoal(q, x) = ProgressedGoal(q, x)
    BY <1>3 DEF WrittenGoal
  <2>2. ASSUME NEW s \in GoalStatuses
        PROVE  [st |-> x.st, current |-> q.current, target |-> x.target, date |-> x.date, status |-> s] \in GoalRows
    BY <1>1, <1>3 DEF GoalRows
  <2>3. QED
    BY <2>1, <2>2, StatusType DEF ProgressedGoal
<1>4. CASE q.op = "archive"
  BY <1>4 DEF WrittenGoal, GoalRows, GoalStatuses
<1>5. QED
  BY <1>1, <1>2, <1>3, <1>4 DEF GoalOps
(* The status that a write of fresh reading leaves is the one the amounts   *)
(* call for.                                                                *)
LEMMA FreshStatus ==
  ASSUME NEW q \in GoalRequests, NEW x \in GoalRows, x.st = "live", q.op # "none",
         q.op = "update" => q.current = Unset,
         q.op = "progress" => q.target = Unset,
         WrittenGoal(q, x) = WrittenGoal([q EXCEPT !.row = x], x),
         WrittenGoal(q, x).status # "ARCHIVED"
  PROVE  WrittenGoal(q, x).status = ResolveStatus(WrittenGoal(q, x).current, WrittenGoal(q, x).target)
<1> DEFINE f == [q EXCEPT !.row = x]
<1>1. f.op = q.op /\ f.row = x /\ f.target = q.target /\ f.current = q.current /\ f.date = q.date
  BY DEF GoalRequests
<1>2. q.op \in {"update", "progress", "archive"}
  BY DEF GoalRequests, GoalOps
<1> HIDE DEF f
<1>3. SUFFICES WrittenGoal(f, x).status = ResolveStatus(WrittenGoal(f, x).current, WrittenGoal(f, x).target)
  BY DEF f
<1>4. CASE q.op = "update"
  BY <1>1, <1>4 DEF WrittenGoal, UpdatedGoal
<1>5. CASE q.op = "progress"
  BY <1>1, <1>5 DEF WrittenGoal, ProgressedGoal
<1>6. CASE q.op = "archive"
  <2>1. WrittenGoal(q, x).status = "ARCHIVED"
    BY <1>6 DEF WrittenGoal, GoalRows
  <2>2. QED
    BY <2>1
<1>7. QED
  BY <1>2, <1>4, <1>5, <1>6

-----------------------------------------------------------------------------
LEMMA InitGoals == GoalsInit => GoalsInv
<1> SUFFICES ASSUME GoalsInit PROVE GoalsInv
  OBVIOUS
<1>1. FreeGoal \in GoalRows
  BY DEF FreeGoal, GoalRows, GoalStatuses
<1>2. GoalsTypeOK
  BY <1>1, NewRequestType DEF GoalsInit, GoalsTypeOK
<1>3. \A r \in GoalReqs : goalReq[r].pc = "new"
  BY DEF GoalsInit, NewGoalRequest
<1>4. \A g \in Goals : goal[g].st = "free"
  BY DEF GoalsInit, FreeGoal
<1>5. QED
  BY <1>2, <1>3, <1>4 DEF GoalsInv, Loaded, StatusTruth

(* A request that is served says nothing any more. *)
LEMMA Served ==
  ASSUME GoalsInv, NEW r \in GoalReqs, GoalDone(r),
         \A g \in Goals : goal[g].st = "live" => goal'[g].st = "live"
  PROVE  goalReq' \in [GoalReqs -> GoalRequests] /\ Loaded' /\ goalReq'[r].pc = "done"
<1> DEFINE d == [NewGoalRequest EXCEPT !.pc = "done"]
<1>1. d \in GoalRequests /\ d.pc = "done"
  BY NewRequestType DEF NewGoalRequest
<1> HIDE DEF d
<1>2. goalReq' = [goalReq EXCEPT ![r] = d]
  BY DEF GoalDone, d
<1>3. goalReq' \in [GoalReqs -> GoalRequests]
  BY <1>1, <1>2 DEF GoalsInv, GoalsTypeOK
<1>4. goalReq'[r].pc = "done" /\ \A s \in GoalReqs \ {r} : goalReq'[s] = goalReq[s]
  BY <1>1, <1>2 DEF GoalsInv, GoalsTypeOK
<1>5. Loaded'
  BY <1>4 DEF GoalsInv, GoalsTypeOK, GoalRequests, Loaded
<1>6. QED
  BY <1>3, <1>4, <1>5

LEMMA CreateKeeps ==
  ASSUME GoalsInv, NEW r \in GoalReqs, GoalCreate(r)
  PROVE  GoalsInv'
<1>1. PICK g \in Goals, target \in GoalAmounts \ {0}, current \in GoalAmounts, date \in {0, 1} :
        /\ goal[g].st = "free"
        /\ goal' = [goal EXCEPT ![g] =
             [st |-> "live", target |-> target, current |-> current, date |-> date,
              status |-> ResolveStatus(current, target)]]
        /\ misread' = misread \ {g}
  BY DEF GoalCreate
<1> DEFINE x == [st |-> "live", target |-> target, current |-> current, date |-> date,
                 status |-> ResolveStatus(current, target)]
<1>2. x \in GoalRows /\ x.status = ResolveStatus(x.current, x.target)
  BY StatusType, GoalsAssumption DEF GoalRows
<1> HIDE DEF x
<1>3. goal' = [goal EXCEPT ![g] = x]
  BY <1>1 DEF x
<1>4. goal' \in [Goals -> GoalRows] /\ misread' \subseteq Goals
  BY <1>1, <1>2, <1>3 DEF GoalsInv, GoalsTypeOK
<1>5. StatusTruth'
  BY <1>1, <1>2, <1>3 DEF GoalsInv, GoalsTypeOK, StatusTruth
<1>6. \A h \in Goals : goal[h].st = "live" => goal'[h].st = "live"
  BY <1>1, <1>3 DEF GoalsInv, GoalsTypeOK
<1>7. GoalDone(r)
  BY DEF GoalCreate
<1>8. QED
  BY <1>4, <1>5, <1>6, <1>7, Served DEF GoalsInv, GoalsTypeOK

LEMMA LoadKeeps ==
  ASSUME GoalsInv, NEW r \in GoalReqs, GoalLoad(r)
  PROVE  GoalsInv'
<1>1. UNCHANGED <<goal, misread>>
  BY DEF GoalLoad
<1>2. PICK g \in Goals, op \in GoalOps \ {"none"} :
        /\ Changeable(g)
        /\ \E target \in IF op = "update" THEN (GoalAmounts \ {0}) \cup {Unset} ELSE {Unset},
              current \in IF op = "progress" THEN GoalAmounts ELSE {Unset},
              date \in IF op = "update" THEN {Unset, 0, 2} ELSE {Unset} :
             goalReq' = [goalReq EXCEPT ![r] =
               [op |-> op, pc |-> "loaded", id |-> g, target |-> target, current |-> current,
                date |-> date, row |-> goal[g]]]
  BY DEF GoalLoad
<1>3. PICK target \in IF op = "update" THEN (GoalAmounts \ {0}) \cup {Unset} ELSE {Unset},
           current \in IF op = "progress" THEN GoalAmounts ELSE {Unset},
           date \in IF op = "update" THEN {Unset, 0, 2} ELSE {Unset} :
        goalReq' = [goalReq EXCEPT ![r] =
          [op |-> op, pc |-> "loaded", id |-> g, target |-> target, current |-> current,
           date |-> date, row |-> goal[g]]]
  BY <1>2
<1> DEFINE q == [op |-> op, pc |-> "loaded", id |-> g, target |-> target, current |-> current,
                 date |-> date, row |-> goal[g]]
<1>4. /\ target \in Nat \cup {Unset} /\ (op # "update" => target = Unset)
      /\ current \in Nat \cup {Unset} /\ (op = "progress" => current \in Nat) /\ (op # "progress" => current = Unset)
      /\ date \in Nat \cup {Unset}
  BY GoalsAssumption
<1>5. goal[g] \in GoalRows
  BY DEF GoalsInv, GoalsTypeOK
<1>6. q \in GoalRequests
  BY <1>4, <1>5 DEF GoalRequests, Unset
<1>7. /\ q.op = op /\ q.target = target /\ q.current = current /\ q.date = date
      /\ q.id = g /\ q.row.status # "ARCHIVED" /\ goal[g].st = "live"
  BY <1>2 DEF Changeable
<1> HIDE DEF q
<1>8. goalReq' = [goalReq EXCEPT ![r] = q]
  BY <1>3 DEF q
<1>9. goalReq' \in [GoalReqs -> GoalRequests]
  BY <1>6, <1>8 DEF GoalsInv, GoalsTypeOK
<1>10. goalReq'[r] = q /\ \A s \in GoalReqs \ {r} : goalReq'[s] = goalReq[s]
  BY <1>8 DEF GoalsInv, GoalsTypeOK
<1>11. Loaded'
  BY <1>1, <1>4, <1>7, <1>10 DEF GoalsInv, Loaded
<1>12. QED
  BY <1>1, <1>9, <1>11 DEF GoalsInv, GoalsTypeOK, StatusTruth

(* The write of a request: of a goal that exists, from a reading that was   *)
(* not archived.                                                            *)
LEMMA WriteIs ==
  ASSUME GoalsInv, NEW r \in GoalReqs, GoalWrite(r),
         NEW q, q = goalReq[r], NEW x, x = goal[q.id], NEW y, y = WrittenGoal(q, x)
  PROVE  /\ q \in GoalRequests /\ q.id \in Goals /\ q.pc = "loaded" /\ q.op # "none"
         /\ q.op = "update" => q.current = Unset /\ q.target \in Nat \cup {Unset} /\ q.date \in Nat \cup {Unset}
         /\ q.op = "progress" => q.current \in Nat /\ q.target = Unset
         /\ q.row.status # "ARCHIVED" /\ x \in GoalRows /\ x.st = "live"
         /\ y \in GoalRows /\ y.st = "live" /\ goal' = [goal EXCEPT ![q.id] = y]
         /\ misread' \subseteq Goals /\ misread \ {q.id} \subseteq misread' /\ misread' \subseteq misread \cup {q.id}
         /\ q.id \notin misread' => x.status # "ARCHIVED" /\ y = WrittenGoal([q EXCEPT !.row = x], x)
<1>1. /\ q \in GoalRequests /\ q.id \in Goals /\ q.pc = "loaded" /\ q.op # "none"
      /\ q.op = "update" => q.current = Unset /\ q.target \in Nat \cup {Unset} /\ q.date \in Nat \cup {Unset}
      /\ q.op = "progress" => q.current \in Nat /\ q.target = Unset
      /\ q.row.status # "ARCHIVED" /\ x \in GoalRows /\ x.st = "live"
  BY DEF GoalWrite, GoalsInv, GoalsTypeOK, GoalRequests, Loaded
<1>2. y \in GoalRows /\ y.st = "live"
  BY <1>1, WrittenType
<1>3. /\ goal' = [goal EXCEPT ![q.id] = y]
      /\ misread' = IF Overtaken(q) THEN misread \cup {q.id} ELSE misread \ {q.id}
  BY DEF GoalWrite
<1>4. q.id \notin misread' => x.status # "ARCHIVED" /\ y = WrittenGoal([q EXCEPT !.row = x], x)
  BY <1>1, <1>3 DEF Overtaken
<1>5. misread' \subseteq Goals /\ misread \ {q.id} \subseteq misread' /\ misread' \subseteq misread \cup {q.id}
  BY <1>1, <1>3 DEF GoalsInv, GoalsTypeOK
<1>6. QED
  BY <1>1, <1>2, <1>3, <1>4, <1>5

LEMMA WriteKeeps ==
  ASSUME GoalsInv, NEW r \in GoalReqs, GoalWrite(r)
  PROVE  GoalsInv'
<1>1. PICK q : q = goalReq[r]
  OBVIOUS
<1>2. PICK x : x = goal[q.id]
  OBVIOUS
<1>3. PICK y : y = WrittenGoal(q, x)
  OBVIOUS
<1>4. /\ q \in GoalRequests /\ q.id \in Goals /\ q.op # "none"
      /\ q.op = "update" => q.current = Unset
      /\ q.op = "progress" => q.target = Unset
      /\ x \in GoalRows /\ x.st = "live"
      /\ y \in GoalRows /\ y.st = "live" /\ goal' = [goal EXCEPT ![q.id] = y]
      /\ misread' \subseteq Goals /\ misread \ {q.id} \subseteq misread'
      /\ q.id \notin misread' => y = WrittenGoal([q EXCEPT !.row = x], x)
  BY <1>1, <1>2, <1>3, WriteIs
<1>5. goal' \in [Goals -> GoalRows] /\ \A g \in Goals : goal[g].st = "live" => goal'[g].st = "live"
  BY <1>4 DEF GoalsInv, GoalsTypeOK
<1>6. q.id \notin misread' /\ y.status # "ARCHIVED" => y.status = ResolveStatus(y.current, y.target)
  BY <1>3, <1>4, FreshStatus
<1>7. StatusTruth'
  BY <1>4, <1>6 DEF GoalsInv, GoalsTypeOK, StatusTruth
<1>8. GoalDone(r)
  BY DEF GoalWrite
<1>9. QED
  BY <1>4, <1>5, <1>7, <1>8, Served DEF GoalsInv, GoalsTypeOK

LEMMA StepGoals == GoalsInv /\ [GoalsNext]_goalVars => GoalsInv'
<1> SUFFICES ASSUME GoalsInv, [GoalsNext]_goalVars PROVE GoalsInv'
  OBVIOUS
<1>1. CASE UNCHANGED goalVars
  <2>1. goal' = goal /\ goalReq' = goalReq /\ misread' = misread
    BY <1>1 DEF goalVars
  <2>2. QED
    BY <2>1 DEF GoalsInv, GoalsTypeOK, Loaded, StatusTruth
<1>2. QED
  BY <1>1, CreateKeeps, LoadKeeps, WriteKeeps DEF GoalsNext

(* The types of goals and of the requests on them: no amount is negative.   *)
THEOREM GoalsTyped == GoalsSpec => []GoalsTypeOK
<1>1. GoalsInv => GoalsTypeOK
  BY DEF GoalsInv
<1>2. QED
  BY <1>1, InitGoals, StepGoals, PTL DEF GoalsSpec

(* The status is the one the amounts call for, except after a write from a  *)
(* reading that no longer held.                                             *)
THEOREM StatusHolds == GoalsSpec => []StatusTruth
<1>1. GoalsInv => StatusTruth
  BY DEF GoalsInv
<1>2. QED
  BY <1>1, InitGoals, StepGoals, PTL DEF GoalsSpec

-----------------------------------------------------------------------------
(* A write from a reading that holds changes the fields it names.           *)
LEMMA WrittenFields ==
  ASSUME NEW q \in GoalRequests, NEW x \in GoalRows, q.op # "none",
         q.op = "progress" => q.current \in Nat,
         NEW y, y = WrittenGoal([q EXCEPT !.row = x], x)
  PROVE  /\ y.target # x.target => q.target # Unset
         /\ y.current # x.current => q.current # Unset
         /\ y.date # x.date => q.date # Unset
<1>1. PICK f : f = [q EXCEPT !.row = x]
  OBVIOUS
<1>2. f.op = q.op /\ f.row = x /\ f.target = q.target /\ f.current = q.current /\ f.date = q.date
  BY <1>1 DEF GoalRequests
<1>3. q.op \in {"update", "progress", "archive"} /\ y = WrittenGoal(f, x)
  BY <1>1 DEF GoalRequests, GoalOps
<1>4. CASE q.op = "update"
  BY <1>2, <1>3, <1>4 DEF WrittenGoal, UpdatedGoal
<1>5. CASE q.op = "progress"
  BY <1>2, <1>3, <1>5 DEF WrittenGoal, ProgressedGoal, Unset
<1>6. CASE q.op = "archive"
  <2>1. y = [x EXCEPT !.status = "ARCHIVED"]
    BY <1>2, <1>3, <1>6 DEF WrittenGoal
  <2>2. QED
    BY <2>1 DEF GoalRows
<1>7. QED
  BY <1>3, <1>4, <1>5, <1>6

LEMMA StepChanges ==
  ASSUME GoalsInv, GoalsNext, NEW g \in Goals \ misread', goal[g].st = "live"
  PROVE  GoalMoves(g)
<1>1. SUFFICES ASSUME goal'[g] # goal[g]
               PROVE  GoalMoves(g)
  BY DEF GoalMoves
<1>2. ASSUME NEW r \in GoalReqs, GoalCreate(r) PROVE FALSE
  BY <1>1, <1>2 DEF GoalCreate, GoalsInv, GoalsTypeOK
<1>3. ASSUME NEW r \in GoalReqs, GoalLoad(r) PROVE FALSE
  BY <1>1, <1>3 DEF GoalLoad
<1>4. ASSUME NEW r \in GoalReqs, GoalWrite(r) PROVE GoalMoves(g)
  <2>1. PICK q : q = goalReq[r]
    OBVIOUS
  <2>2. PICK x : x = goal[q.id]
    OBVIOUS
  <2>3. PICK y : y = WrittenGoal(q, x)
    OBVIOUS
  <2>4. /\ q \in GoalRequests /\ q.id \in Goals /\ q.pc = "loaded" /\ q.op # "none"
        /\ q.op = "progress" => q.current \in Nat
        /\ x \in GoalRows /\ goal' = [goal EXCEPT ![q.id] = y]
        /\ q.id \notin misread' => x.status # "ARCHIVED" /\ y = WrittenGoal([q EXCEPT !.row = x], x)
    BY <1>4, <2>1, <2>2, <2>3, WriteIs
  <2>5. g = q.id /\ goal[g] = x /\ goal'[g] = y
    BY <1>1, <2>2, <2>4 DEF GoalsInv, GoalsTypeOK
  <2>6. x.status # "ARCHIVED" /\ y = WrittenGoal([q EXCEPT !.row = x], x)
    BY <2>4, <2>5
  <2>7. /\ y.target # x.target => q.target # Unset
        /\ y.current # x.current => q.current # Unset
        /\ y.date # x.date => q.date # Unset
    BY <2>4, <2>6, WrittenFields
  <2>8. goalReq'[r].pc = "done"
    <3>1. GoalDone(r)
      BY <1>4 DEF GoalWrite
    <3>2. goalReq' = [goalReq EXCEPT ![r] = [NewGoalRequest EXCEPT !.pc = "done"]]
      BY <3>1 DEF GoalDone
    <3>3. QED
      BY <3>2 DEF GoalsInv, GoalsTypeOK, NewGoalRequest
  <2>9. \A f \in {"target", "current", "date"} : y[f] # x[f] => f \in NamedFields(q)
    BY <2>7 DEF NamedFields
  <2>10. QED
    BY <2>1, <2>4, <2>5, <2>6, <2>8, <2>9 DEF GoalMoves
<1>5. QED
  BY <1>2, <1>3, <1>4 DEF GoalsNext

(* An archived goal stays as it is, and a field changes only by a write     *)
(* that names it, unless the write rests on a reading that no longer holds. *)
THEOREM ChangesHold == GoalsSpec => ChangesAsAsked
<1>1. GoalsInv /\ [GoalsNext]_goalVars =>
        [\A g \in Goals \ misread' : goal[g].st = "live" => GoalMoves(g)]_goalVars
  BY StepChanges
<1>2. QED
  BY <1>1, InitGoals, StepGoals, PTL DEF GoalsSpec, ChangesAsAsked

-----------------------------------------------------------------------------
(* The steps of a request, from the state of its own record only.           *)
Ensures(q) == q.op \in {"sync", "categories"}

(* Whom a request in flight has to thank: a sign-in or a list has the       *)
(* user's row, and each default category that it has looked at and does not *)
(* miss is stored.                                                          *)
Provisions ==
  \A r \in BudgetReqs :
    /\ budgetReq[r].pc = "new" => budgetReq[r].answer = 0 /\ budgetReq[r].code = 0
                                    /\ budgetReq[r].op = "none"
    /\ budgetReq[r].pc = "lookup" => budgetReq[r].op = "sync" /\ budgetReq[r].answer = 0
                                       /\ budgetReq[r].code = 0
    /\ budgetReq[r].pc = "ensure" =>
         /\ Ensures(budgetReq[r]) /\ user /\ budgetReq[r].answer \in {0, 500}
         /\ Defaults \ (budgetReq[r].todo \cup budgetReq[r].missing) \subseteq category
    /\ budgetReq[r].pc \in {"checked", "written"} => ~Ensures(budgetReq[r]) /\ budgetReq[r].answer = 0
    /\ Ensures(budgetReq[r]) /\ budgetReq[r].answer \in {200, 201} =>
         user /\ Defaults \subseteq category /\ budgetReq[r].pc = "done"

(* One request at most made the row; the answer says so only if it did.     *)
Makers == {r \in BudgetReqs : budgetReq[r].op = "sync" /\ budgetReq[r].code = 201}
OneMaker ==
  /\ \A r \in Makers, s \in Makers : r = s
  /\ Makers # {} => user
  /\ \A r \in BudgetReqs : budgetReq[r].answer = 201 => budgetReq[r].code = 201

(* One budget a category, and what a create has found or written.           *)
Unique == \A a \in BudgetIds, b \in BudgetIds :
            LiveBudget(a) /\ LiveBudget(b) /\ budget[a].cat = budget[b].cat => a = b
Creates ==
  \A r \in BudgetReqs : budgetReq[r].op = "create" =>
    /\ budgetReq[r].pc \in {"checked", "written", "done"}
    /\ budgetReq[r].pc = "checked" => budgetReq[r].cat \in Expenses /\ budgetReq[r].answer = 0
                                        /\ budgetReq[r].code = 0
    /\ budgetReq[r].pc = "written" => budgetReq[r].code = 201 /\ budgetReq[r].answer = 0
    /\ budgetReq[r].code = 201 =>
         /\ budgetReq[r].id \in BudgetOf(budgetReq[r].cat)
         /\ budgetReq[r].cat \in Expenses
    /\ budgetReq[r].answer = 409 => BudgetOf(budgetReq[r].cat) # {}
    /\ budgetReq[r].answer # 500

BudgetsInv == BudgetsTypeOK /\ Provisions /\ OneMaker /\ Unique /\ Creates

LEMMA InitBudgets == BudgetsInit => BudgetsInv
<1> SUFFICES ASSUME BudgetsInit PROVE BudgetsInv
  OBVIOUS
<1>1. (CHOOSE c \in Defaults : TRUE) \in Defaults /\ (CHOOSE b \in BudgetIds : TRUE) \in BudgetIds
  <2>1. (\E c \in Defaults : TRUE) /\ (\E b \in BudgetIds : TRUE)
    BY BudgetsAssumption DEF Defaults
  <2>2. QED
    BY <2>1
<1>2. FreeBudget \in BudgetRows /\ FreeBudget.st = "free"
  BY <1>1 DEF FreeBudget, BudgetRows
<1>3. /\ NewBudgetRequest \in BudgetRequests /\ NewBudgetRequest.pc = "new" /\ NewBudgetRequest.op = "none"
      /\ NewBudgetRequest.code = 0 /\ NewBudgetRequest.answer = 0
  BY <1>1 DEF NewBudgetRequest, BudgetRequests, BudgetOps, Answers
<1>4. BudgetsTypeOK
  BY <1>2, <1>3 DEF BudgetsInit, BudgetsTypeOK
<1>5. \A r \in BudgetReqs : /\ budgetReq[r].pc = "new" /\ budgetReq[r].op = "none"
                            /\ budgetReq[r].code = 0 /\ budgetReq[r].answer = 0
  BY <1>3 DEF BudgetsInit
<1>6. Provisions /\ Creates
  BY <1>5 DEF Provisions, Creates, Ensures
<1>7. OneMaker
  BY <1>5 DEF OneMaker, Makers
<1>8. Unique
  BY <1>2 DEF BudgetsInit, Unique, LiveBudget
<1>9. QED
  BY <1>4, <1>6, <1>7, <1>8 DEF BudgetsInv

(* What a request may claim of the user's row u, the categories cats and    *)
(* the budgets bs; made: it may be the one that made the row.               *)
Claims(q, u, cats, bs, made) ==
  /\ q.pc # "new"
  /\ q.pc = "lookup" => q.op = "sync" /\ q.answer = 0 /\ q.code = 0
  /\ q.pc = "ensure" =>
       /\ Ensures(q) /\ u /\ q.answer \in {0, 500}
       /\ Defaults \ (q.todo \cup q.missing) \subseteq cats
  /\ q.pc \in {"checked", "written"} => ~Ensures(q) /\ q.answer = 0
  /\ Ensures(q) /\ q.answer \in {200, 201} => u /\ Defaults \subseteq cats /\ q.pc = "done"
  /\ q.op = "sync" /\ q.code = 201 => u /\ made
  /\ q.answer = 201 => q.code = 201
  /\ q.op = "create" =>
       /\ q.pc \in {"checked", "written", "done"}
       /\ q.pc = "checked" => q.cat \in Expenses /\ q.answer = 0 /\ q.code = 0
       /\ q.pc = "written" => q.code = 201 /\ q.answer = 0
       /\ q.code = 201 => bs[q.id].st = "live" /\ bs[q.id].cat = q.cat /\ q.cat \in Expenses
       /\ q.answer = 409 => \E b \in BudgetIds : bs[b].st = "live" /\ bs[b].cat = q.cat
       /\ q.answer # 500

(* Rows are only added, and no budget goes to another category. *)
StoresMore ==
  /\ user' \in BOOLEAN /\ (user => user')
  /\ category \subseteq category' /\ category' \subseteq Defaults
  /\ budget' \in [BudgetIds -> BudgetRows] /\ Unique'
  /\ \A b \in BudgetIds : LiveBudget(b) => budget'[b].st = "live" /\ budget'[b].cat = budget[b].cat

(* A step of one request: it is enough to look at what that request claims. *)
LEMMA OneBudgetRequest ==
  ASSUME BudgetsInv, NEW r \in BudgetReqs, NEW q \in BudgetRequests,
         budgetReq' = [budgetReq EXCEPT ![r] = q], StoresMore,
         Claims(q, user', category', budget', r \in Makers \/ ~user)
  PROVE  BudgetsInv'
<1> USE DEF StoresMore, Claims
<1>1. budgetReq'[r] = q /\ \A s \in BudgetReqs \ {r} : budgetReq'[s] = budgetReq[s]
  BY DEF BudgetsInv, BudgetsTypeOK
<1>2. BudgetsTypeOK'
  BY DEF BudgetsInv, BudgetsTypeOK
<1>3. Provisions'
  BY <1>1 DEF BudgetsInv, Provisions, Ensures
<1>4. OneMaker'
  <2>1. Makers' \subseteq Makers \cup {r} /\ (r \in Makers' => q.op = "sync" /\ q.code = 201)
    BY <1>1 DEF Makers
  <2>2. Makers' # {} => user'
    BY <2>1 DEF BudgetsInv, OneMaker
  <2>3. \A a \in Makers', b \in Makers' : a = b
    BY <2>1 DEF BudgetsInv, OneMaker
  <2>4. \A s \in BudgetReqs : budgetReq'[s].answer = 201 => budgetReq'[s].code = 201
    BY <1>1 DEF BudgetsInv, OneMaker
  <2>5. QED
    BY <2>2, <2>3, <2>4 DEF OneMaker
<1>5. Creates'
  <2>1. \A c \in Defaults : \A b \in BudgetOf(c) : budget'[b].st = "live" /\ budget'[b].cat = c
    BY DEF BudgetOf
  <2>2. ASSUME NEW s \in BudgetReqs \ {r}, budgetReq[s].op = "create"
        PROVE  /\ budgetReq[s].code = 201 => budgetReq[s].id \in BudgetOf(budgetReq[s].cat)'
               /\ budgetReq[s].answer = 409 => BudgetOf(budgetReq[s].cat)' # {}
    <3>1. budgetReq[s].cat \in Defaults /\ budgetReq[s].id \in BudgetIds
      BY DEF BudgetsInv, BudgetsTypeOK, BudgetRequests
    <3>2. /\ budgetReq[s].code = 201 => budgetReq[s].id \in BudgetOf(budgetReq[s].cat)
          /\ budgetReq[s].answer = 409 => BudgetOf(budgetReq[s].cat) # {}
      BY <2>2 DEF BudgetsInv, Creates
    <3>3. BudgetOf(budgetReq[s].cat) \subseteq BudgetOf(budgetReq[s].cat)'
      BY <1>1, <2>1, <3>1 DEF BudgetOf, LiveBudget
    <3>4. QED
      BY <3>2, <3>3
  <2>3. q.op = "create" =>
          /\ q.code = 201 => q.id \in BudgetOf(q.cat)'
          /\ q.answer = 409 => BudgetOf(q.cat)' # {}
    BY DEF BudgetOf, LiveBudget, BudgetRequests
  <2> SUFFICES ASSUME NEW s \in BudgetReqs, budgetReq'[s].op = "create"
               PROVE  /\ budgetReq'[s].pc \in {"checked", "written", "done"}
                      /\ budgetReq'[s].pc = "checked" => budgetReq'[s].cat \in Expenses /\ budgetReq'[s].answer = 0
                                                           /\ budgetReq'[s].code = 0
                      /\ budgetReq'[s].pc = "written" => budgetReq'[s].code = 201 /\ budgetReq'[s].answer = 0
                      /\ budgetReq'[s].code = 201 =>
                           /\ budgetReq'[s].id \in BudgetOf(budgetReq[s].cat)'
                           /\ budgetReq'[s].cat \in Expenses
                      /\ budgetReq'[s].answer = 409 => BudgetOf(budgetReq[s].cat)' # {}
                      /\ budgetReq'[s].answer # 500
    BY DEF Creates
  <2>4. CASE s = r
    BY <1>1, <2>3, <2>4
  <2>5. CASE s # r
    BY <1>1, <2>2, <2>5 DEF BudgetsInv, Creates
  <2>6. QED
    BY <2>4, <2>5
<1>6. QED
  BY <1>2, <1>3, <1>4, <1>5 DEF BudgetsInv

(* The steps that store nothing. *)
LEMMA StoresNothing ==
  ASSUME BudgetsInv, UNCHANGED <<user, category, budget>>
  PROVE  StoresMore
BY DEF BudgetsInv, BudgetsTypeOK, StoresMore, Unique, LiveBudget

LEMMA GoesOn ==
  ASSUME BudgetsInv, NEW r \in BudgetReqs, NEW q \in BudgetRequests, BudgetGoesOn(r, q),
         Claims(q, user, category, budget, r \in Makers \/ ~user)
  PROVE  BudgetsInv'
<1>1. /\ budgetReq' = [budgetReq EXCEPT ![r] = q]
      /\ user' = user /\ category' = category /\ budget' = budget
  BY DEF BudgetGoesOn
<1>2. StoresMore
  BY <1>1, StoresNothing
<1>3. Claims(q, user', category', budget', r \in Makers \/ ~user)
  BY <1>1
<1>4. QED
  BY <1>1, <1>2, <1>3, OneBudgetRequest

(* What the answers of a refused request say. *)
LEMMA AnsweredRecord ==
  ASSUME NEW q \in BudgetRequests, NEW c \in Answers, NEW a, a = Answered(q, c)
  PROVE  /\ a \in BudgetRequests /\ a.pc = "done" /\ a.code = c /\ a.answer = c
         /\ a.op = q.op /\ a.cat = q.cat /\ a.id = q.id
BY DEF Answered, BudgetRequests

LEMMA EnsuringRecord ==
  ASSUME NEW q \in BudgetRequests, NEW o \in {"sync", "categories"}, NEW c \in Answers, NEW e, e = Ensuring(q, o, c)
  PROVE  /\ e \in BudgetRequests /\ e.pc = "ensure" /\ e.op = o /\ e.code = c /\ e.todo = Defaults
         /\ e.answer = q.answer
BY DEF Ensuring, BudgetRequests, BudgetOps

LEMMA RequestIs ==
  ASSUME BudgetsInv, NEW r \in BudgetReqs
  PROVE  budgetReq[r] \in BudgetRequests
BY DEF BudgetsInv, BudgetsTypeOK

LEMMA SyncLookKeeps ==
  ASSUME BudgetsInv, NEW r \in BudgetReqs, SyncLook(r)
  PROVE  BudgetsInv'
<1>1. PICK p : p = budgetReq[r]
  OBVIOUS
<1>2. p \in BudgetRequests /\ p.pc = "new" /\ p.answer = 0 /\ p.code = 0
  BY <1>1, RequestIs DEF SyncLook, BudgetStart, BudgetsInv, Provisions
<1>3. PICK q : q = IF user THEN Ensuring(p, "sync", 200) ELSE [p EXCEPT !.op = "sync", !.pc = "lookup"]
  OBVIOUS
<1>4. BudgetGoesOn(r, q)
  BY <1>1, <1>3 DEF SyncLook
<1>5. CASE user
  <2>1. q \in BudgetRequests /\ q.pc = "ensure" /\ q.op = "sync" /\ q.code = 200 /\ q.answer = 0 /\ q.todo = Defaults
    BY <1>2, <1>3, <1>5, EnsuringRecord DEF Answers
  <2>2. QED
    BY <1>4, <1>5, <2>1, GoesOn DEF Ensures, Claims
<1>6. CASE ~user
  <2>1. q = [p EXCEPT !.op = "sync", !.pc = "lookup"]
    BY <1>3, <1>6
  <2>2. q \in BudgetRequests /\ q.pc = "lookup" /\ q.op = "sync" /\ q.code = 0 /\ q.answer = 0
    BY <1>2, <2>1 DEF BudgetRequests, BudgetOps
  <2>3. QED
    BY <1>4, <2>2, GoesOn DEF Ensures, Claims
<1>7. QED
  BY <1>5, <1>6

LEMMA CategoriesListKeeps ==
  ASSUME BudgetsInv, NEW r \in BudgetReqs, CategoriesList(r)
  PROVE  BudgetsInv'
<1>1. PICK p : p = budgetReq[r]
  OBVIOUS
<1>2. p \in BudgetRequests /\ p.pc = "new" /\ p.answer = 0 /\ p.code = 0
  BY <1>1, RequestIs DEF CategoriesList, BudgetStart, BudgetsInv, Provisions
<1>3. PICK q : q = IF user THEN Ensuring(p, "categories", 200) ELSE [Answered(p, 401) EXCEPT !.op = "categories"]
  OBVIOUS
<1>4. BudgetGoesOn(r, q)
  BY <1>1, <1>3 DEF CategoriesList
<1>5. CASE user
  <2>1. /\ q \in BudgetRequests /\ q.pc = "ensure" /\ q.op = "categories" /\ q.code = 200
        /\ q.answer = 0 /\ q.todo = Defaults
    BY <1>2, <1>3, <1>5, EnsuringRecord DEF Answers
  <2>2. QED
    BY <1>4, <1>5, <2>1, GoesOn DEF Ensures, Claims
<1>6. CASE ~user
  <2>1. PICK a : a = Answered(p, 401)
    OBVIOUS
  <2>2. a \in BudgetRequests /\ a.pc = "done" /\ a.code = 401 /\ a.answer = 401
    BY <1>2, <2>1, AnsweredRecord DEF Answers
  <2>3. q = [a EXCEPT !.op = "categories"]
    BY <1>3, <1>6, <2>1
  <2>4. q \in BudgetRequests /\ q.pc = "done" /\ q.op = "categories" /\ q.code = 401 /\ q.answer = 401
    BY <2>2, <2>3 DEF BudgetRequests, BudgetOps
  <2>5. QED
    BY <1>4, <2>4, GoesOn DEF Ensures, Claims
<1>7. QED
  BY <1>5, <1>6

LEMMA SyncCreateKeeps ==
  ASSUME BudgetsInv, NEW r \in BudgetReqs, SyncCreate(r)
  PROVE  BudgetsInv'
<1>1. PICK p : p = budgetReq[r]
  OBVIOUS
<1>2. p \in BudgetRequests /\ p.op = "sync" /\ p.answer = 0 /\ p.code = 0
  BY <1>1, RequestIs DEF SyncCreate, BudgetsInv, Provisions
<1>3. PICK q : q = IF user THEN Answered(p, 500) ELSE Ensuring(p, "sync", 201)
  OBVIOUS
<1>4. budgetReq' = [budgetReq EXCEPT ![r] = q] /\ user' = TRUE /\ category' = category /\ budget' = budget
  BY <1>1, <1>3 DEF SyncCreate
<1>5. /\ q \in BudgetRequests /\ q.op = "sync"
      /\ IF user THEN q.pc = "done" /\ q.code = 500 /\ q.answer = 500
                 ELSE q.pc = "ensure" /\ q.code = 201 /\ q.answer = 0 /\ q.todo = Defaults
  BY <1>2, <1>3, AnsweredRecord, EnsuringRecord DEF Answers
<1>6. StoresMore
  BY <1>4 DEF StoresMore, BudgetsInv, BudgetsTypeOK, Unique, LiveBudget
<1>7. Claims(q, user', category', budget', r \in Makers \/ ~user)
  BY <1>4, <1>5 DEF Ensures, Claims
<1>8. QED
  BY <1>4, <1>5, <1>6, <1>7, OneBudgetRequest

LEMMA EnsureLookKeeps ==
  ASSUME BudgetsInv, NEW r \in BudgetReqs, EnsureLook(r)
  PROVE  BudgetsInv'
<1>1. PICK p : p = budgetReq[r]
  OBVIOUS
<1>2. /\ p \in BudgetRequests /\ p.pc = "ensure" /\ Ensures(p) /\ user /\ p.answer \in {0, 500}
      /\ Defaults \ (p.todo \cup p.missing) \subseteq category
      /\ p.op = "sync" /\ p.code = 201 => r \in Makers
  BY <1>1, RequestIs DEF EnsureLook, BudgetsInv, Provisions, Makers
<1>3. PICK c \in p.todo :
        BudgetGoesOn(r, [p EXCEPT !.todo = @ \ {c}, !.missing = IF c \in category THEN @ ELSE @ \cup {c}])
  BY <1>1 DEF EnsureLook
<1>4. PICK q : q = [p EXCEPT !.todo = p.todo \ {c},
                             !.missing = IF c \in category THEN p.missing ELSE p.missing \cup {c}]
  OBVIOUS
<1>5. BudgetGoesOn(r, q)
  BY <1>3, <1>4
<1>6. /\ q \in BudgetRequests /\ q.pc = "ensure" /\ q.op = p.op /\ q.code = p.code /\ q.answer = p.answer
      /\ q.todo = p.todo \ {c} /\ q.missing = IF c \in category THEN p.missing ELSE p.missing \cup {c}
  <2>1. PICK m : m = IF c \in category THEN p.missing ELSE p.missing \cup {c}
    OBVIOUS
  <2>2. PICK t : t = p.todo \ {c}
    OBVIOUS
  <2>3. t \in SUBSET Defaults /\ m \in SUBSET Defaults
    BY <1>2, <1>3, <2>1, <2>2 DEF BudgetRequests
  <2>4. q = [p EXCEPT !.todo = t, !.missing = m]
    BY <1>4, <2>1, <2>2
  <2>5. /\ q \in BudgetRequests /\ q.pc = "ensure" /\ q.op = p.op /\ q.code = p.code /\ q.answer = p.answer
        /\ q.todo = t /\ q.missing = m
    BY <1>2, <2>3, <2>4 DEF BudgetRequests
  <2>6. QED
    BY <2>1, <2>2, <2>5
<1>7. Defaults \ (q.todo \cup q.missing) \subseteq category
  BY <1>2, <1>6
<1>8. QED
  BY <1>2, <1>5, <1>6, <1>7, GoesOn DEF Ensures, Claims

LEMMA EnsureInsertKeeps ==
  ASSUME BudgetsInv, NEW r \in BudgetReqs, EnsureInsert(r)
  PROVE  BudgetsInv'
<1>1. PICK p : p = budgetReq[r]
  OBVIOUS
<1>2. /\ p \in BudgetRequests /\ p.pc = "ensure" /\ Ensures(p) /\ user /\ p.answer \in {0, 500}
      /\ Defaults \ (p.todo \cup p.missing) \subseteq category
      /\ p.op = "sync" /\ p.code = 201 => r \in Makers
  BY <1>1, RequestIs DEF EnsureInsert, BudgetsInv, Provisions, Makers
<1>3. PICK c \in budgetReq[r].missing :
        /\ category' = category \cup {c}
        /\ \/ budgetReq' = [budgetReq EXCEPT ![r] = [budgetReq[r] EXCEPT !.missing = @ \ {c}]]
           \/ /\ c \in category
              /\ budgetReq' = [budgetReq EXCEPT ![r] = [budgetReq[r] EXCEPT !.missing = @ \ {c}, !.answer = 500]]
  BY Zenon DEF EnsureInsert
<1>4. PICK q : /\ \/ q = [budgetReq[r] EXCEPT !.missing = @ \ {c}]
                  \/ q = [budgetReq[r] EXCEPT !.missing = @ \ {c}, !.answer = 500]
               /\ budgetReq' = [budgetReq EXCEPT ![r] = q]
  BY <1>3, ZenonT(30)
<1>5. /\ q \in BudgetRequests /\ q.pc = "ensure" /\ q.op = p.op /\ q.code = p.code /\ q.answer \in {0, 500}
      /\ q.todo = p.todo /\ q.missing = p.missing \ {c}
  <2>1. PICK m : m = p.missing \ {c}
    OBVIOUS
  <2>2. m \in SUBSET Defaults /\ 500 \in Answers
    BY <1>2, <2>1 DEF BudgetRequests, Answers
  <2>3. q = [p EXCEPT !.missing = m] \/ q = [p EXCEPT !.missing = m, !.answer = 500]
    BY <1>1, <1>4, <2>1
  <2>4. CASE q = [p EXCEPT !.missing = m]
    <3>1. /\ q \in BudgetRequests /\ q.pc = "ensure" /\ q.op = p.op /\ q.code = p.code /\ q.answer = p.answer
          /\ q.todo = p.todo /\ q.missing = m
      BY <1>2, <2>2, <2>4 DEF BudgetRequests
    <3>2. QED
      BY <1>2, <2>1, <3>1
  <2>5. CASE q = [p EXCEPT !.missing = m, !.answer = 500]
    <3>1. PICK n : n = 500
      OBVIOUS
    <3>2. n \in Answers /\ q = [p EXCEPT !.missing = m, !.answer = n]
      BY <2>2, <2>5, <3>1
    <3>3. /\ q \in BudgetRequests /\ q.pc = "ensure" /\ q.op = p.op /\ q.code = p.code /\ q.answer = n
          /\ q.todo = p.todo /\ q.missing = m
      BY <1>2, <2>2, <3>2 DEF BudgetRequests
    <3>4. QED
      BY <2>1, <3>1, <3>3
  <2>6. QED
    BY <2>3, <2>4, <2>5
<1>6. user' = user /\ budget' = budget
  BY DEF EnsureInsert
<1>7. Defaults \ (q.todo \cup q.missing) \subseteq category'
  BY <1>1, <1>2, <1>3, <1>5
<1>8. StoresMore
  BY <1>1, <1>2, <1>3, <1>6 DEF StoresMore, BudgetsInv, BudgetsTypeOK, BudgetRequests, Unique, LiveBudget
<1>9. Claims(q, user', category', budget', r \in Makers \/ ~user)
  BY <1>2, <1>5, <1>6, <1>7 DEF Ensures, Claims
<1>10. QED
  BY <1>4, <1>5, <1>8, <1>9, OneBudgetRequest

LEMMA EnsureEndKeeps ==
  ASSUME BudgetsInv, NEW r \in BudgetReqs, EnsureEnd(r)
  PROVE  BudgetsInv'
<1>1. PICK p : p = budgetReq[r]
  OBVIOUS
<1>2. /\ p \in BudgetRequests /\ Ensures(p) /\ user /\ p.todo = {} /\ p.missing = {}
      /\ Defaults \ (p.todo \cup p.missing) \subseteq category
      /\ p.op = "sync" /\ p.code = 201 => r \in Makers
  BY <1>1, RequestIs DEF EnsureEnd, BudgetsInv, Provisions, Makers
<1>3. PICK c : c = IF p.answer = 500 THEN 500 ELSE p.code
  OBVIOUS
<1>4. PICK q : q = Answered(p, c)
  OBVIOUS
<1>5. BudgetGoesOn(r, q)
  BY <1>1, <1>3, <1>4 DEF EnsureEnd
<1>6. c \in Answers /\ (c = 201 => p.code = 201)
  BY <1>2, <1>3 DEF BudgetRequests, Answers
<1>7. q \in BudgetRequests /\ q.pc = "done" /\ q.code = c /\ q.answer = c /\ q.op = p.op
  BY <1>2, <1>4, <1>6, AnsweredRecord
<1>8. QED
  BY <1>2, <1>5, <1>6, <1>7, GoesOn DEF Ensures, Claims

LEMMA BudgetCreateLookKeeps ==
  ASSUME BudgetsInv, NEW r \in BudgetReqs, BudgetCreateLook(r)
  PROVE  BudgetsInv'
<1>1. PICK p : p = budgetReq[r]
  OBVIOUS
<1>2. p \in BudgetRequests /\ p.pc = "new" /\ p.answer = 0 /\ p.code = 0
  BY <1>1, RequestIs DEF BudgetCreateLook, BudgetStart, BudgetsInv, Provisions
<1>3. PICK c \in Defaults, amount \in BudgetAmounts :
        LET q == [p EXCEPT !.op = "create", !.cat = c, !.amount = amount]
            refusal == CreateRefusal(c, amount)
        IN BudgetGoesOn(r, IF refusal # 0 THEN Answered(q, refusal) ELSE [q EXCEPT !.pc = "checked"])
  BY <1>1 DEF BudgetCreateLook
<1>4. PICK q : q = [p EXCEPT !.op = "create", !.cat = c, !.amount = amount]
  OBVIOUS
<1>5. q \in BudgetRequests /\ q.op = "create" /\ q.cat = c /\ q.answer = 0 /\ q.code = 0
  <2>1. amount \in Int /\ "create" \in BudgetOps
    BY BudgetsAssumption DEF BudgetOps
  <2>2. QED
    BY <1>2, <1>4, <2>1 DEF BudgetRequests
<1>6. PICK refusal : refusal = CreateRefusal(c, amount)
  OBVIOUS
<1>7. /\ refusal \in {0, 401, 404, 409, 422}
      /\ refusal = 0 => c \in Expenses
      /\ refusal = 409 => BudgetOf(c) # {}
  BY <1>6 DEF CreateRefusal
<1>8. CASE refusal # 0
  <2>1. PICK a : a = Answered(q, refusal)
    OBVIOUS
  <2>2. BudgetGoesOn(r, a)
    BY <1>3, <1>4, <1>6, <1>8, <2>1
  <2>3. refusal \in Answers
    BY <1>7 DEF Answers
  <2>4. a \in BudgetRequests /\ a.pc = "done" /\ a.code = refusal /\ a.answer = refusal /\ a.op = "create" /\ a.cat = c
    BY <1>5, <2>1, <2>3, AnsweredRecord
  <2>5. refusal = 409 => \E b \in BudgetIds : budget[b].st = "live" /\ budget[b].cat = c
    BY <1>7 DEF BudgetOf, LiveBudget
  <2>6. Claims(a, user, category, budget, r \in Makers \/ ~user)
    BY <1>7, <1>8, <2>4, <2>5 DEF Claims, Ensures
  <2>7. QED
    BY <2>2, <2>4, <2>6, GoesOn
<1>9. CASE refusal = 0
  <2>1. PICK a : a = [q EXCEPT !.pc = "checked"]
    OBVIOUS
  <2>2. BudgetGoesOn(r, a)
    BY <1>3, <1>4, <1>6, <1>9, <2>1
  <2>3. a \in BudgetRequests /\ a.pc = "checked" /\ a.code = 0 /\ a.answer = 0 /\ a.op = "create" /\ a.cat = c
    BY <1>5, <2>1 DEF BudgetRequests
  <2>4. Claims(a, user, category, budget, r \in Makers \/ ~user)
    BY <1>7, <1>9, <2>3 DEF Claims, Ensures
  <2>5. QED
    BY <2>2, <2>3, <2>4, GoesOn
<1>10. QED
  BY <1>8, <1>9

(* The unique key: the new budget is the only one of its category. *)
LEMMA BudgetCreateKeeps ==
  ASSUME BudgetsInv, NEW r \in BudgetReqs, BudgetCreate(r)
  PROVE  BudgetsInv'
<1>1. PICK p : p = budgetReq[r]
  OBVIOUS
<1>2. /\ p \in BudgetRequests /\ p.pc = "checked" /\ p.op = "create" /\ p.answer = 0 /\ p.cat \in Expenses
      /\ BudgetOf(p.cat) = {} /\ user' = user /\ category' = category
  BY <1>1, RequestIs DEF BudgetCreate, InsertsBudget, BudgetsInv, Creates
<1>3. PICK b \in BudgetIds :
        /\ ~LiveBudget(b)
        /\ budget' = [budget EXCEPT ![b] = [st |-> "live", cat |-> p.cat, amount |-> p.amount, archived |-> FALSE]]
        /\ budgetReq' = [budgetReq EXCEPT ![r] = [p EXCEPT !.pc = "written", !.id = b, !.code = 201]]
  BY <1>1 DEF BudgetCreate
<1>4. PICK x : x = [st |-> "live", cat |-> p.cat, amount |-> p.amount, archived |-> FALSE]
  OBVIOUS
<1>5. x \in BudgetRows /\ x.st = "live" /\ x.cat = p.cat
  BY <1>2, <1>4 DEF BudgetRows, BudgetRequests
<1>6. budget \in [BudgetIds -> BudgetRows] /\ budget' = [budget EXCEPT ![b] = x]
  BY <1>3, <1>4 DEF BudgetsInv, BudgetsTypeOK
<1>7. /\ budget' \in [BudgetIds -> BudgetRows] /\ budget'[b] = x
      /\ \A a \in BudgetIds \ {b} : budget'[a] = budget[a]
  BY <1>5, <1>6
<1>8. Unique'
  <2>1. \A a \in BudgetIds : LiveBudget(a) => budget[a].cat # p.cat
    BY <1>2 DEF BudgetOf
  <2>2. QED
    BY <1>5, <1>7, <2>1 DEF BudgetsInv, Unique, LiveBudget
<1>9. StoresMore
  BY <1>2, <1>3, <1>7, <1>8 DEF StoresMore, LiveBudget, BudgetsInv, BudgetsTypeOK
<1>10. PICK n : n = 201
  OBVIOUS
<1>11. PICK q : q = [p EXCEPT !.pc = "written", !.id = b, !.code = n]
  OBVIOUS
<1>12. n \in Answers
  BY <1>10 DEF Answers
<1>13. /\ q \in BudgetRequests /\ q.pc = "written" /\ q.id = b /\ q.code = n
       /\ q.op = "create" /\ q.answer = 0 /\ q.cat = p.cat
  BY <1>2, <1>11, <1>12 DEF BudgetRequests
<1>14. budgetReq' = [budgetReq EXCEPT ![r] = q]
  BY <1>3, <1>10, <1>11
<1>15. Claims(q, user', category', budget', r \in Makers \/ ~user)
  BY <1>2, <1>5, <1>7, <1>10, <1>13 DEF Claims, Ensures
<1>16. QED
  BY <1>9, <1>13, <1>14, <1>15, OneBudgetRequest

LEMMA BudgetExistsKeeps ==
  ASSUME BudgetsInv, NEW r \in BudgetReqs, BudgetExists(r)
  PROVE  BudgetsInv'
<1>1. PICK p : p = budgetReq[r]
  OBVIOUS
<1>2. p \in BudgetRequests /\ p.op = "create" /\ BudgetOf(p.cat) # {}
  BY <1>1, RequestIs DEF BudgetExists, InsertsBudget
<1>3. PICK a : a = Answered(p, 409)
  OBVIOUS
<1>4. BudgetGoesOn(r, a)
  BY <1>1, <1>3 DEF BudgetExists
<1>5. a \in BudgetRequests /\ a.pc = "done" /\ a.code = 409 /\ a.answer = 409 /\ a.op = "create" /\ a.cat = p.cat
  BY <1>2, <1>3, AnsweredRecord DEF Answers
<1>6. \E b \in BudgetIds : budget[b].st = "live" /\ budget[b].cat = p.cat
  BY <1>2 DEF BudgetOf, LiveBudget
<1>7. Claims(a, user, category, budget, r \in Makers \/ ~user)
  BY <1>5, <1>6 DEF Claims, Ensures
<1>8. QED
  BY <1>4, <1>5, <1>7, GoesOn

LEMMA BudgetChangeLookKeeps ==
  ASSUME BudgetsInv, NEW r \in BudgetReqs, BudgetChangeLook(r)
  PROVE  BudgetsInv'
<1>1. PICK p : p = budgetReq[r]
  OBVIOUS
<1>2. p \in BudgetRequests /\ p.pc = "new" /\ p.answer = 0 /\ p.code = 0
  BY <1>1, RequestIs DEF BudgetChangeLook, BudgetsInv, Provisions
<1>3. PICK op \in {"amount", "archive", "restore"}, b \in BudgetIds, amount \in BudgetAmounts :
        LET q == [p EXCEPT !.op = op, !.id = b, !.amount = amount]
            refusal == ChangeRefusal(op, b, amount)
        IN BudgetGoesOn(r, IF refusal # 0 THEN Answered(q, refusal) ELSE [q EXCEPT !.pc = "checked"])
  BY <1>1 DEF BudgetChangeLook
<1>4. PICK q : q = [p EXCEPT !.op = op, !.id = b, !.amount = amount]
  OBVIOUS
<1>5. q \in BudgetRequests /\ q.op = op /\ q.answer = 0 /\ q.code = 0
  <2>1. amount \in Int /\ op \in BudgetOps
    BY BudgetsAssumption DEF BudgetOps
  <2>2. QED
    BY <1>2, <1>4, <2>1 DEF BudgetRequests
<1>6. PICK refusal : refusal = ChangeRefusal(op, b, amount)
  OBVIOUS
<1>7. refusal \in {0, 409, 422}
  BY <1>6 DEF ChangeRefusal
<1>8. PICK a : a = IF refusal # 0 THEN Answered(q, refusal) ELSE [q EXCEPT !.pc = "checked"]
  OBVIOUS
<1>9. BudgetGoesOn(r, a)
  BY <1>3, <1>4, <1>6, <1>8
<1>10. a \in BudgetRequests /\ a.pc = (IF refusal = 0 THEN "checked" ELSE "done") /\ a.code = refusal /\ a.answer = refusal /\ a.op = op
  <2>1. CASE refusal # 0
    <3>1. refusal \in Answers /\ a = Answered(q, refusal)
      BY <1>7, <1>8, <2>1 DEF Answers
    <3>2. a.pc = "done" /\ a \in BudgetRequests /\ a.code = refusal /\ a.answer = refusal /\ a.op = op
      BY <1>5, <3>1, AnsweredRecord
    <3>3. QED
      BY <2>1, <3>2
  <2>2. CASE refusal = 0
    <3>1. a = [q EXCEPT !.pc = "checked"]
      BY <1>8, <2>2
    <3>2. a \in BudgetRequests /\ a.pc = "checked" /\ a.code = 0 /\ a.answer = 0 /\ a.op = op
      BY <1>5, <3>1 DEF BudgetRequests
    <3>3. QED
      BY <2>2, <3>2
  <2>3. QED
    BY <2>1, <2>2
<1>11. Claims(a, user, category, budget, r \in Makers \/ ~user)
  BY <1>7, <1>10 DEF Claims, Ensures
<1>12. QED
  BY <1>9, <1>10, <1>11, GoesOn

LEMMA BudgetChangeKeeps ==
  ASSUME BudgetsInv, NEW r \in BudgetReqs, BudgetChange(r)
  PROVE  BudgetsInv'
<1>1. PICK p : p = budgetReq[r]
  OBVIOUS
<1>2. /\ p \in BudgetRequests /\ p.pc = "checked" /\ p.op \in {"amount", "archive", "restore"}
      /\ user' = user /\ category' = category /\ p.id \in BudgetIds /\ p.amount \in Int
      /\ p.answer = 0
  <2>1. p \in BudgetRequests /\ p.pc = "checked" /\ p.op \in {"amount", "archive", "restore"}
    BY <1>1, RequestIs DEF BudgetChange
  <2>2. p.answer = 0
    BY <1>1, <2>1 DEF BudgetsInv, Provisions
  <2>3. QED
    BY <2>1, <2>2 DEF BudgetChange, BudgetRequests
<1>3. PICK x : x = ChangedBudget(p, budget[p.id])
  OBVIOUS
<1>4. budget' = [budget EXCEPT ![p.id] = x] /\ budget \in [BudgetIds -> BudgetRows]
  BY <1>1, <1>3 DEF BudgetChange, BudgetsInv, BudgetsTypeOK
<1>5. x \in BudgetRows /\ x.st = budget[p.id].st /\ x.cat = budget[p.id].cat
  BY <1>2, <1>3, <1>4 DEF ChangedBudget, BudgetRows
<1>6. /\ budget' \in [BudgetIds -> BudgetRows]
      /\ \A a \in BudgetIds : budget'[a].st = budget[a].st /\ budget'[a].cat = budget[a].cat
  BY <1>2, <1>4, <1>5
<1>7. Unique'
  BY <1>6 DEF BudgetsInv, Unique, LiveBudget
<1>8. StoresMore
  BY <1>2, <1>6, <1>7 DEF StoresMore, LiveBudget, BudgetsInv, BudgetsTypeOK
<1>9. PICK n : n = 200
  OBVIOUS
<1>10. PICK q : q = [p EXCEPT !.pc = "written", !.code = n]
  OBVIOUS
<1>11. n \in Answers
  BY <1>9 DEF Answers
<1>12. q \in BudgetRequests /\ q.pc = "written" /\ q.code = n /\ q.op = p.op /\ q.answer = p.answer
  BY <1>2, <1>10, <1>11 DEF BudgetRequests
<1>13. budgetReq' = [budgetReq EXCEPT ![r] = q]
  BY <1>1, <1>9, <1>10 DEF BudgetChange
<1>14. Claims(q, user', category', budget', r \in Makers \/ ~user)
  BY <1>2, <1>9, <1>12 DEF Claims, Ensures
<1>15. QED
  BY <1>8, <1>12, <1>13, <1>14, OneBudgetRequest

LEMMA BudgetRespondKeeps ==
  ASSUME BudgetsInv, NEW r \in BudgetReqs, BudgetRespond(r)
  PROVE  BudgetsInv'
<1>1. PICK p : p = budgetReq[r]
  OBVIOUS
<1>2. /\ p \in BudgetRequests /\ ~Ensures(p) /\ p.code \in Answers
      /\ p.op = "create" => p.code = 201 /\ p.id \in BudgetOf(p.cat) /\ p.cat \in Expenses
  BY <1>1, RequestIs DEF BudgetRespond, BudgetsInv, Provisions, Creates, BudgetRequests
<1>3. PICK a : a = Answered(p, p.code)
  OBVIOUS
<1>4. BudgetGoesOn(r, a)
  BY <1>1, <1>3 DEF BudgetRespond
<1>5. /\ a \in BudgetRequests /\ a.pc = "done" /\ a.code = p.code /\ a.answer = p.code
      /\ a.op = p.op /\ a.cat = p.cat /\ a.id = p.id
  BY <1>2, <1>3, AnsweredRecord
<1>6. p.op = "create" => budget[p.id].st = "live" /\ budget[p.id].cat = p.cat
  BY <1>2 DEF BudgetOf, LiveBudget
<1>7. Claims(a, user, category, budget, r \in Makers \/ ~user)
  BY <1>2, <1>5, <1>6 DEF Claims, Ensures
<1>8. QED
  BY <1>4, <1>5, <1>7, GoesOn

LEMMA StepBudgets == BudgetsInv /\ [BudgetsNext]_budgetVars => BudgetsInv'
<1> SUFFICES ASSUME BudgetsInv, [BudgetsNext]_budgetVars PROVE BudgetsInv'
  OBVIOUS
<1>1. CASE UNCHANGED budgetVars
  <2>1. user' = user /\ category' = category /\ budget' = budget /\ budgetReq' = budgetReq
    BY <1>1 DEF budgetVars
  <2>2. BudgetsTypeOK' /\ Provisions' /\ OneMaker' /\ Unique'
    BY <2>1 DEF BudgetsInv, BudgetsTypeOK, Provisions, OneMaker, Makers, Unique, LiveBudget
  <2>3. Creates'
    BY <2>1 DEF BudgetsInv, Creates, BudgetOf, LiveBudget
  <2>4. QED
    BY <2>2, <2>3 DEF BudgetsInv
<1>2. QED
  BY <1>1, SyncLookKeeps, SyncCreateKeeps, CategoriesListKeeps, EnsureLookKeeps, EnsureInsertKeeps,
     EnsureEndKeeps, BudgetCreateLookKeeps, BudgetCreateKeeps, BudgetExistsKeeps,
     BudgetChangeLookKeeps, BudgetChangeKeeps, BudgetRespondKeeps
     DEF BudgetsNext

-----------------------------------------------------------------------------
LEMMA AtMostOne ==
  ASSUME NEW S, \A a \in S, b \in S : a = b
  PROVE  Cardinality(S) <= 1
<1>1. CASE S = {}
  BY <1>1, FS_EmptySet
<1>2. CASE S # {}
  <2>1. PICK a \in S : S = {a}
    BY <1>2
  <2>2. QED
    BY <2>1, FS_Singleton
<1>3. QED
  BY <1>1, <1>2

LEMMA BudgetsInvSound == BudgetsInv => BudgetingSound
<1> SUFFICES ASSUME BudgetsInv PROVE Provisioned /\ OneBudgetEach
  BY DEF BudgetingSound
<1>1. Provisioned
  <2>1. \A r \in BudgetReqs :
          budgetReq[r].op \in {"sync", "categories"} /\ budgetReq[r].answer \in {200, 201} =>
            user /\ category = Defaults
    <3>1. category \subseteq Defaults /\ (Defaults \subseteq category => category = Defaults)
      BY DEF BudgetsInv, BudgetsTypeOK
    <3>2. \A r \in BudgetReqs :
            budgetReq[r].op \in {"sync", "categories"} /\ budgetReq[r].answer \in {200, 201} =>
              user /\ Defaults \subseteq category
      BY DEF BudgetsInv, Provisions, Ensures
    <3>3. QED
      BY <3>1, <3>2
  <2>2. PICK S : S = {r \in BudgetReqs : budgetReq[r].op = "sync" /\ budgetReq[r].answer = 201}
    OBVIOUS
  <2>3. \A a \in S, b \in S : a = b
    BY <2>2 DEF BudgetsInv, OneMaker, Makers
  <2>4. QED
    BY <2>1, <2>2, <2>3, AtMostOne DEF Provisioned
<1>2. OneBudgetEach
  <2>1. ASSUME NEW c \in Defaults
        PROVE  /\ \A a \in BudgetOf(c), b \in BudgetOf(c) : a = b
               /\ Cardinality(BudgetOf(c)) <= 1
    <3>1. \A a \in BudgetOf(c), b \in BudgetOf(c) : a = b
      BY DEF BudgetsInv, Unique, BudgetOf
    <3>2. QED
      BY <3>1, AtMostOne
  <2>2. ASSUME NEW r \in BudgetReqs, budgetReq[r].op = "create"
        PROVE  /\ budgetReq[r].answer = 201 =>
                    BudgetOf(budgetReq[r].cat) = {budgetReq[r].id} /\ budgetReq[r].cat \in Expenses
               /\ budgetReq[r].answer = 409 => BudgetOf(budgetReq[r].cat) # {}
               /\ budgetReq[r].answer # 500
    <3>1. budgetReq[r].cat \in Defaults
      BY DEF BudgetsInv, BudgetsTypeOK, BudgetRequests
    <3>2. /\ budgetReq[r].code = 201 =>
               budgetReq[r].id \in BudgetOf(budgetReq[r].cat) /\ budgetReq[r].cat \in Expenses
          /\ budgetReq[r].answer = 201 => budgetReq[r].code = 201
          /\ budgetReq[r].answer = 409 => BudgetOf(budgetReq[r].cat) # {}
          /\ budgetReq[r].answer # 500
      BY <2>2 DEF BudgetsInv, Creates, OneMaker
    <3>3. QED
      BY <2>1, <3>1, <3>2
  <2>3. QED
    BY <2>1, <2>2 DEF OneBudgetEach
<1>3. QED
  BY <1>1, <1>2

(* The types of users, categories, budgets and the requests on them.        *)
THEOREM BudgetsTyped == BudgetsSpec => []BudgetsTypeOK
<1>1. BudgetsInv => BudgetsTypeOK
  BY DEF BudgetsInv
<1>2. QED
  BY <1>1, InitBudgets, StepBudgets, PTL DEF BudgetsSpec

(* However many first sign-ins, category lists and budget writes run at     *)
(* once, who is told of a row has it, and no category has two budgets.      *)
THEOREM BudgetsSound == BudgetsSpec => []BudgetingSound
<1>1. QED
  BY InitBudgets, StepBudgets, BudgetsInvSound, PTL DEF BudgetsSpec
-----------------------------------------------------------------------------
(* A step of the program is a step of one service or a stutter of it.       *)
LEMMA StepOfOne ==
  ASSUME [ServicesNext]_servicesVars
  PROVE  /\ [GoalsNext]_goalVars /\ [BudgetsNext]_budgetVars /\ [ServerNext]_serverVars
         /\ [ReconcileNext]_auditVars /\ [ReportsNext]_reportVars /\ [PlansNext]_plan
<1>1. CASE GoalsTurn
  BY <1>1 DEF GoalsTurn, budgetsIdle, serverIdle, auditIdle, reportsIdle, plansIdle
<1>2. CASE BudgetsTurn
  BY <1>2 DEF BudgetsTurn, goalsIdle, serverIdle, auditIdle, reportsIdle, plansIdle
<1>3. CASE ServerTurn
  BY <1>3 DEF ServerTurn, goalsIdle, budgetsIdle, auditIdle, reportsIdle, plansIdle
<1>4. CASE AuditTurn
  BY <1>4 DEF AuditTurn, goalsIdle, budgetsIdle, serverIdle, reportsIdle, plansIdle
<1>5. CASE ReportsTurn
  BY <1>5 DEF ReportsTurn, goalsIdle, budgetsIdle, serverIdle, auditIdle, plansIdle
<1>6. CASE PlansTurn
  BY <1>6 DEF PlansTurn, goalsIdle, budgetsIdle, serverIdle, auditIdle, reportsIdle
<1>7. CASE UNCHANGED servicesVars
  BY <1>7 DEF servicesVars
<1>8. QED
  BY <1>1, <1>2, <1>3, <1>4, <1>5, <1>6, <1>7 DEF ServicesNext

(* In one program, whose services take turns in any order, each service     *)
(* keeps its own specification, the fairness of the server included.        *)
THEOREM EachKeepsItsOwn ==
  ServicesSpec => GoalsSpec /\ BudgetsSpec /\ ServerSpec /\ ReconcileSpec /\ ReportsSpec /\ PlansSpec
<1>1. ServicesInit =>
        GoalsInit /\ BudgetsInit /\ ServerInit /\ ReconcileInit /\ ReportsInit /\ PlansInit
  BY DEF ServicesInit
<1>2. [ServicesNext]_servicesVars => [GoalsNext]_goalVars
  BY StepOfOne
<1>3. [ServicesNext]_servicesVars => [BudgetsNext]_budgetVars
  BY StepOfOne
<1>4. [ServicesNext]_servicesVars => [ServerNext]_serverVars
  BY StepOfOne
<1>5. [ServicesNext]_servicesVars => [ReconcileNext]_auditVars
  BY StepOfOne
<1>6. [ServicesNext]_servicesVars => [ReportsNext]_reportVars
  BY StepOfOne
<1>7. [ServicesNext]_servicesVars => [PlansNext]_plan
  BY StepOfOne
<1>8. QED
  BY <1>1, <1>2, <1>3, <1>4, <1>5, <1>6, <1>7, PTL
     DEF ServicesSpec, GoalsSpec, BudgetsSpec, ServerSpec, ReconcileSpec, ReportsSpec, PlansSpec

(* The rows and requests of all services together stay well typed.          *)
THEOREM ServicesTyped == ServicesSpec => []ServicesTypeOK
<1>1. ReconcileInv => ReconcileTypeOK
  BY DEF ReconcileInv
<1>2. QED
  BY <1>1, EachKeepsItsOwn, GoalsTyped, BudgetsTyped, ServerTyped, BooksKept, ReportsAreTyped, PlansTyped, PTL
     DEF ServicesTypeOK

(* Whatever order the services take turns in, none breaks what another      *)
(* promises: goals, budgets, answers, shutdown, audit, reports and bills.   *)
THEOREM PromisesTogether ==
  ServicesSpec =>
    /\ [](StatusTruth /\ BudgetingSound /\ AnswersTruthful /\ NobodyDropped /\ NeverStuck)
    /\ [](AuditSound /\ SparklineReplays /\ ViewsAgree /\ RunsOut)
    /\ ChangesAsAsked /\ PostsAtomically /\ EveryStepCounts
BY EachKeepsItsOwn, StatusHolds, BudgetsSound, Truthful, ShutsDownClean, NobodyWaitsForEverybody,
   AuditsAreSound, SparklineIsReplay, ViewsTellOneStory, PaidInFull, ChangesHold,
   ServerImplementation, NothingRetried, PTL
=============================================================================
