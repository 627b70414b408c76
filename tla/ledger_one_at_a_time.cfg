CONSTANTS
  bank = bank
  cash = cash
  card = card
  r1 = r1
  r2 = r2
  r3 = r3
  r4 = r4
  NoWallet = NoWallet
  Wallets = {bank, card, cash}
  Reqs = {r1, r2, r3, r4}
  MaxTx = 4
  MaxInFlight = 1
  Ops = {"create", "update", "delete", "walletCreate", "walletUpdate", "walletDelete", "pay"}
  InitialWallets <- CardAndCash
  WalletInputs <- NewWallets
  WalletPatches <- LimitPatches
  CreateInputs <- BillsAndMore
  UpdateInputs <- Moves
SPECIFICATION Spec
SYMMETRY ReqSymmetry
INVARIANTS LedgerConsistent
PROPERTIES TransferFunded PurchaseWithinLimit TransfersBlockDeletion
CHECK_DEADLOCK FALSE
