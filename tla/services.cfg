CONSTANTS
  house = house
  car = car
  g1 = g1
  g2 = g2
  g3 = g3
  food = food
  salary = salary
  m1 = m1
  m2 = m2
  q1 = q1
  q2 = q2
  q3 = q3
  bank = bank
  card = card
  p1 = p1
  p2 = p2
  p3 = p3
  Goals = {house}
  GoalReqs = {g1, g2, g3}
  GoalAmounts = {0, 1, 2}
  Expenses = {food}
  Incomes = {salary}
  BudgetIds = {m1, m2}
  BudgetReqs = {q1, q2, q3}
  BudgetAmounts = {0, 1}
  NoWallet = NoWallet
  Wallets = {bank, card}
  Posters = {p1, p2, p3}
  RowOf <- ThreePostings
  PoolSizes = {1, 2}
  StartBalances <- Start
  Requests = {p1, p2}
  Rereads = {p1}
  Entries = {p1, p2, p3}
  EntryOf <- ThreeEntries
  OldRows <- Legacy
  Openings <- OneOpening
  Damages <- Drifts
  ZoneHours = 7
  ReportIds = {1, 2}
  ReportRows <- RowsToShow
  Categories = {food}
  BudgetLimit = 4
  Nows = {2028030111, 2028022916, 2027123118}
  DebtWallets = {card}
  Watched = bank
  Created = 2028022500
  Purchases <- SmallAndLarge
SPECIFICATION Spec
INVARIANTS ServicesTypeOK StatusTruth BudgetingSound AnswersTruthful NobodyDropped AuditSound SparklineReplays ViewsAgree RunsOut
PROPERTIES ChangesAsAsked PostsAtomically ShutdownEnds
CHECK_DEADLOCK FALSE
