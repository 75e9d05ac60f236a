SPECIFICATION Spec
CONSTANTS
  s1 = s1
  s2 = s2
  None = None
  Signals <- MCOneSignal
  Submitters = {r1}
  Rejecters = {j1}
  Reconcilers = {}
  Quantities = {1}
  Collateral <- MCCollateral
  Ceiling <- MCCeiling
  CashBound <- MCOneSignal
  SeedCash = 2
  Paper = TRUE
  MaxAttempts = 2
  MaxBrokerOrders = 2
PROPERTY ExecutedFromTheQueue
