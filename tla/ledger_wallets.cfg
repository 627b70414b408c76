CONSTANTS
  bank = bank
  cash = cash
  card = card
  r1 = r1
  r2 = r2
  r3 = r3
  r4 = r4
  NoWallet = NoWallet
  Wallets = {bank, card, cash}
  Reqs = {r1, r2, r3, r4}
  MaxTx = 2
  MaxInFlight = 2
  Ops = {"delete", "create", "walletCreate", "walletUpdate", "walletDelete", "pay"}
  InitialWallets <- CardAndCash
  WalletInputs <- NewWallets
  WalletPatches <- KindPatches
  CreateInputs <- BillsAndMore
  UpdateInputs = {}
SPECIFICATION Spec
SYMMETRY ReqSymmetry
INVARIANTS ModelA NoDangling CarriedHolds
CHECK_DEADLOCK FALSE
