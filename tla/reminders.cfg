CONSTANTS
  r1 = r1
  r2 = r2
  r3 = r3
  rent = rent
  phone = phone
  bank = bank
  cash = cash
  NoWallet = NoWallet
  Wallets = {bank}
  Tmpls = {rent}
  Bills = {phone}
  Txs = {1, 2}
  Reqs = {r1, r2, r3}
  Ops = {"refresh", "confirm", "create", "delete", "read", "txDelete", "walletDelete", "billDelete"}
  Days = {20280130, 20280228}
  InitialTmpls <- NoTemplate
  InitialBills <- PhoneBill
  NewTmpls <- RentOrSalary
  TmplPatches = {}
  Amounts = {0, 1}
SPECIFICATION Spec
SYMMETRY ReqSymmetry
INVARIANTS ConfirmedOnce NoOrphans RefreshDelivers CarriedHolds BalancesPosted
PROPERTIES EventsKeepMarks
CHECK_DEADLOCK FALSE
