---------------------------- MODULE SavingGoals ----------------------------
(***************************************************************************)
(* Saving goals (savingGoal.service.ts): a target, an amount saved and a   *)
(* status that the service derives from the two, until the goal is         *)
(* archived.  Every mutation reads the goal with one query, decides, and   *)
(* writes with another; nothing locks the row in between.                  *)
(***************************************************************************)
EXTENDS Integers

CONSTANTS
  Goals,        \* ids of goals, the bound on creations
  GoalReqs,     \* ids of requests, each served once
  GoalAmounts   \* amounts that bodies carry

(* A field the body leaves out. *)
Unset == -1

GoalStatuses == {"ACTIVE", "COMPLETED", "ARCHIVED"}
GoalRows == [st : {"free", "live"}, target : Nat, current : Nat, date : Nat, status : GoalStatuses]

ASSUME GoalsAssumption == Goals # {} /\ GoalAmounts \subseteq Nat

VARIABLES
  goal,       \* saving_goals table
  goalReq,    \* local variables of the requests
  misread     \* history: goals whose last write a fresh read would have made differently

goalVars == <<goal, goalReq, misread>>

FreeGoal == [st |-> "free", target |-> 0, current |-> 0, date |-> 0, status |-> "ACTIVE"]

(* The three kinds of write, with the body and the row as read. *)
GoalOps == {"none", "update", "progress", "archive"}
GoalRequests == [op : GoalOps, pc : {"new", "loaded", "done"}, id : Goals,
                 target : Int, current : Int, date : Int, row : GoalRows]
NewGoalRequest == [op |-> "none", pc |-> "new", id |-> CHOOSE g \in Goals : TRUE,
                   target |-> Unset, current |-> Unset, date |-> Unset, row |-> FreeGoal]

GoalDone(r) == goalReq' = [goalReq EXCEPT ![r] = [NewGoalRequest EXCEPT !.pc = "done"]]
-----------------------------------------------------------------------------
ResolveStatus(current, target) == IF current >= target THEN "COMPLETED" ELSE "ACTIVE"

(* createSavingGoal: a positive target, nothing read first. *)
GoalCreate(r) ==
  /\ goalReq[r].pc = "new"
  /\ \E g \in Goals, target \in GoalAmounts \ {0}, current \in GoalAmounts, date \in {0, 1} :
       /\ goal[g].st = "free"
       /\ goal' = [goal EXCEPT ![g] =
            [st |-> "live", target |-> target, current |-> current, date |-> date,
             status |-> ResolveStatus(current, target)]]
       /\ misread' = misread \ {g}
  /\ GoalDone(r)

(* Mutant: an archived goal can be loaded for a change. *)
LoadsAny(g) == goal[g].st = "live"

(* findOwned and the refusal of archived goals (409). *)
Changeable(g) == goal[g].st = "live" /\ goal[g].status # "ARCHIVED"

(* The read of updateSavingGoal, updateSavingGoalProgress and               *)
(* archiveSavingGoal.  The date of a body may be null (0), a new one or     *)
(* absent.                                                                  *)
GoalLoad(r) ==
  /\ goalReq[r].pc = "new"
  /\ \E g \in Goals, op \in GoalOps \ {"none"} :
       /\ Changeable(g)
       /\ \E target \in IF op = "update" THEN (GoalAmounts \ {0}) \cup {Unset} ELSE {Unset},
             current \in IF op = "progress" THEN GoalAmounts ELSE {Unset},
             date \in IF op = "update" THEN {Unset, 0, 2} ELSE {Unset} :
            goalReq' = [goalReq EXCEPT ![r] =
              [op |-> op, pc |-> "loaded", id |-> g, target |-> target, current |-> current,
               date |-> date, row |-> goal[g]]]
  /\ UNCHANGED <<goal, misread>>

(* Mutant: a new target leaves the status as it was. *)
UpdatedWithoutStatus(q, x) ==
  [x EXCEPT !.target = IF q.target = Unset THEN @ ELSE q.target,
            !.date = IF q.date = Unset THEN q.row.date ELSE q.date]

(* Mutant: a target the body leaves out is written all the same. *)
UpdatedUnset(q, x) ==
  [x EXCEPT !.target = q.target, !.date = IF q.date = Unset THEN q.row.date ELSE q.date]

(* updateSavingGoal: the target is written only if the body has one; the    *)
(* date always, as it was read unless the body has one; the status from the *)
(* amount saved as it was read.                                             *)
UpdatedGoal(q, x) ==
  LET target == IF q.target = Unset THEN q.row.target ELSE q.target
  IN [st |-> x.st, current |-> x.current,
      target |-> IF q.target = Unset THEN x.target ELSE q.target,
      date |-> IF q.date = Unset THEN q.row.date ELSE q.date,
      status |-> ResolveStatus(q.row.current, target)]

(* updateSavingGoalProgress: the status from the target as it was read. *)
ProgressedGoal(q, x) ==
  [st |-> x.st, current |-> q.current, target |-> x.target, date |-> x.date,
   status |-> ResolveStatus(q.current, q.row.target)]

(* What the write of a request makes of the row x. *)
WrittenGoal(q, x) ==
  CASE q.op = "update"   -> UpdatedGoal(q, x)
    [] q.op = "progress" -> ProgressedGoal(q, x)
    [] q.op = "archive"  -> [x EXCEPT !.status = "ARCHIVED"]
    [] OTHER             -> x

(* The write rests on a read that no longer holds and that mattered: the    *)
(* goal was archived after it, or read afresh it would be written           *)
(* differently.                                                             *)
Overtaken(q) ==
  \/ goal[q.id].status = "ARCHIVED" /\ q.row.status # "ARCHIVED"
  \/ WrittenGoal(q, goal[q.id]) # WrittenGoal([q EXCEPT !.row = goal[q.id]], goal[q.id])

(* A goal is never deleted, so the write always finds it. *)
GoalWrite(r) ==
  LET q == goalReq[r] IN
  /\ q.pc = "loaded"
  /\ goal' = [goal EXCEPT ![q.id] = WrittenGoal(q, goal[q.id])]
  /\ misread' = IF Overtaken(q) THEN misread \cup {q.id} ELSE misread \ {q.id}
  /\ GoalDone(r)

GoalsInit ==
  /\ goal = [g \in Goals |-> FreeGoal]
  /\ goalReq = [r \in GoalReqs |-> NewGoalRequest]
  /\ misread = {}

GoalsNext == \E r \in GoalReqs : GoalCreate(r) \/ GoalLoad(r) \/ GoalWrite(r)

GoalsSpec == GoalsInit /\ [][GoalsNext]_goalVars
-----------------------------------------------------------------------------
GoalsTypeOK ==
  /\ goal \in [Goals -> GoalRows]
  /\ goalReq \in [GoalReqs -> GoalRequests]
  /\ misread \subseteq Goals

(* The status shown is the one the amounts call for ("non-archived goals    *)
(* recompute deterministically"), unless the last write of the goal rested  *)
(* on a read that no longer held; one write from a fresh read repairs it.   *)
StatusTruth ==
  \A g \in Goals \ misread :
    goal[g].st = "live" /\ goal[g].status # "ARCHIVED" =>
      goal[g].status = ResolveStatus(goal[g].current, goal[g].target)

(* "ARCHIVED never changes automatically": an archived goal stays archived  *)
(* with all its fields, and a field changes only by a write that names it,  *)
(* unless the write rests on a read that no longer holds.                   *)
NamedFields(q) ==
  (IF q.target # Unset THEN {"target"} ELSE {}) \cup (IF q.current # Unset THEN {"current"} ELSE {})
    \cup (IF q.date # Unset THEN {"date"} ELSE {})
GoalMoves(g) ==
  /\ goal[g].status = "ARCHIVED" => goal'[g] = goal[g]
  /\ \A f \in {"target", "current", "date"} : goal'[g][f] # goal[g][f] =>
       \E r \in GoalReqs : goalReq[r].pc = "loaded" /\ goalReq'[r].pc = "done"
                             /\ goalReq[r].id = g /\ f \in NamedFields(goalReq[r])
ChangesAsAsked ==
  [][\A g \in Goals \ misread' : goal[g].st = "live" => GoalMoves(g)]_goalVars
=============================================================================
