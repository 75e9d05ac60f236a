SPECIFICATION Spec
CONSTANTS
  s1 = s1
  s2 = s2
  None = None
  Signals <- MCOneSignal
  Submitters = {r1}
  Rejecters = {}
  Reconcilers = {}
  Quantities = {1}
  Collateral <- MCCollateral
  Ceiling <- MCCeiling
  CashBound <- MCOneSignal
  SeedCash = 2
  Paper = FALSE
  MaxAttempts = 2
  MaxBrokerOrders = 2
INVARIANT IdempotentSubmission
