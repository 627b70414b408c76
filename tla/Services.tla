------------------------------ MODULE Services ------------------------------
(***************************************************************************)
(* The components beside the ledger and the reminders in one program.      *)
(* They share the process and the database but write no row in common, so  *)
(* a step of the program is a step of one of them, and the others stay as  *)
(* they are.                                                               *)
(***************************************************************************)
EXTENDS SavingGoals, Budgets, Server, Reconcile, Reports, Plans

goalsIdle   == UNCHANGED goalVars
budgetsIdle == UNCHANGED budgetVars
serverIdle  == UNCHANGED serverVars
auditIdle   == UNCHANGED auditVars
reportsIdle == UNCHANGED reportVars
plansIdle   == UNCHANGED plan

servicesVars == <<goalVars, budgetVars, serverVars, auditVars, reportVars, plan>>
-----------------------------------------------------------------------------
GoalsTurn   == GoalsNext /\ budgetsIdle /\ serverIdle /\ auditIdle /\ reportsIdle /\ plansIdle
BudgetsTurn == BudgetsNext /\ goalsIdle /\ serverIdle /\ auditIdle /\ reportsIdle /\ plansIdle
ServerTurn  == ServerNext /\ goalsIdle /\ budgetsIdle /\ auditIdle /\ reportsIdle /\ plansIdle
AuditTurn   == ReconcileNext /\ goalsIdle /\ budgetsIdle /\ serverIdle /\ reportsIdle /\ plansIdle
ReportsTurn == ReportsNext /\ goalsIdle /\ budgetsIdle /\ serverIdle /\ auditIdle /\ plansIdle
PlansTurn   == PlansNext /\ goalsIdle /\ budgetsIdle /\ serverIdle /\ auditIdle /\ reportsIdle

ServicesInit == GoalsInit /\ BudgetsInit /\ ServerInit /\ ReconcileInit /\ ReportsInit /\ PlansInit
ServicesNext == GoalsTurn \/ BudgetsTurn \/ ServerTurn \/ AuditTurn \/ ReportsTurn \/ PlansTurn
ServicesSpec == ServicesInit /\ [][ServicesNext]_servicesVars /\ ServerFairness
-----------------------------------------------------------------------------
(* The types of all six components. *)
ServicesTypeOK ==
  GoalsTypeOK /\ BudgetsTypeOK /\ ServerTypeOK /\ ReconcileTypeOK /\ ReportsTypeOK
  /\ PlansTypeOK
=============================================================================
