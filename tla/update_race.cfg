CONSTANTS
  bank = bank
  cash = cash
  card = card
  r1 = r1
  r2 = r2
  r3 = r3
  r4 = r4
  NoWallet = NoWallet
  Wallets = {bank, cash}
  Reqs = {r1, r2, r3, r4}
  MaxTx = 2
  MaxInFlight = 2
  Ops = {"create", "update", "delete"}
  InitialWallets <- TwoAssets
  WalletInputs = {}
  WalletPatches = {}
  CreateInputs <- Creates
  UpdateInputs <- Updates
SPECIFICATION Spec
SYMMETRY ReqSymmetry
INVARIANTS LedgerConsistent
CHECK_DEADLOCK FALSE
