SPECIFICATION Spec
CONSTANTS
  opt = opt
  eq = eq
  None = None
  Clients = {p1, p2}
  Keys <- MCKeys
  AssetType <- MCAssetType
  Requests <- MCRequests
  Marks <- MCMarks
  StartingCash = 40000
  SlippageBps = 50
  PenaltyBps = 100
  MaxOrders = 3
SYMMETRY Symmetry
INVARIANTS
  CashNonNegative
  BooksMatchFills
  PnlBalances
  ShortsAreOpened
