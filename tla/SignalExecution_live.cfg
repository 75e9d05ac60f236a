SPECIFICATION FairSpec
CONSTANTS
  s1 = s1
  s2 = s2
  None = None
  Signals <- MCOneSignal
  Submitters = {r1, r2}
  Rejecters = {}
  Reconcilers = {c1}
  Quantities = {1}
  Collateral <- MCCollateral
  Ceiling <- MCCeiling
  CashBound <- MCOneSignal
  SeedCash = 4
  Paper = FALSE
  MaxAttempts = 2
  MaxBrokerOrders = 2
INVARIANT RecordedOrdersExist
PROPERTIES
  RequestsAreAnswered
