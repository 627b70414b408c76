CONSTANTS
  bank = bank
  cash = cash
  card = card
  r1 = r1
  r2 = r2
  r3 = r3
  r4 = r4
  NoWallet = NoWallet
  Wallets = {bank, card, cash}
  Reqs = {r1, r2, r3, r4}
  MaxTx = 2
  MaxInFlight = 2
  Ops = {"create", "walletDelete"}
  InitialWallets <- CardAndCash
  WalletInputs = {}
  WalletPatches = {}
  CreateInputs <- BillsAndMore
  UpdateInputs = {}
SPECIFICATION Spec
SYMMETRY ReqSymmetry
PROPERTIES TransfersBlockDeletion
CHECK_DEADLOCK FALSE
