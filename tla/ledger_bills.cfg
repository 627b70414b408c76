CONSTANTS
  bank = bank
  cash = cash
  card = card
  r1 = r1
  r2 = r2
  r3 = r3
  r4 = r4
  NoWallet = NoWallet
  Wallets = {bank, card}
  Reqs = {r1, r2, r3, r4}
  MaxTx = 3
  MaxInFlight = 2
  Ops = {"create", "update", "delete", "pay"}
  InitialWallets <- BankAndCard
  WalletInputs = {}
  WalletPatches = {}
  CreateInputs <- BillsAndMore
  UpdateInputs <- Moves
SPECIFICATION Spec
SYMMETRY ReqSymmetry
INVARIANTS ScheduleAgrees NoIncomeOnDebt
PROPERTIES PaidNeverRegresses PaymentsMatchSchedule
CHECK_DEADLOCK FALSE
