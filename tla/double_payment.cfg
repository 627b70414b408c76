CONSTANTS
  bank = bank
  cash = cash
  card = card
  r1 = r1
  r2 = r2
  r3 = r3
  r4 = r4
  NoWallet = NoWallet
  Wallets = {bank, card}
  Reqs = {r1, r2, r3, r4}
  MaxTx = 4
  MaxInFlight = 2
  Ops = {"create", "pay"}
  InitialWallets <- BankAndCard
  WalletInputs = {}
  WalletPatches = {}
  CreateInputs <- Bills
  UpdateInputs = {}
SPECIFICATION Spec
SYMMETRY ReqSymmetry
PROPERTIES NoDoubleDeduction
CHECK_DEADLOCK FALSE
