CONSTANTS
  r1 = r1
  r2 = r2
  r3 = r3
  rent = rent
  phone = phone
  bank = bank
  cash = cash
  NoWallet = NoWallet
  Wallets = {bank, cash}
  Tmpls = {rent}
  Bills = {}
  Txs = {1}
  Reqs = {r1, r2, r3}
  Ops = {"refresh", "confirm", "create", "update", "delete"}
  Days = {20280130, 20280228}
  InitialTmpls <- NoTemplate
  InitialBills <- NoBills
  NewTmpls <- RentOnly
  TmplPatches <- Patches
  Amounts = {0, 1}
SPECIFICATION FairSpec
INVARIANTS TypeOK TemplatesConsistent
PROPERTIES PostedWhileLive RequestsEnd
CHECK_DEADLOCK FALSE
