SPECIFICATION SwitchFairSpec
CONSTANTS
  s1 = s1
  None = None
  Signals <- MCOneSignal
  Submitters = {r1}
  Rejecters = {}
  Reconcilers = {}
  Operators = {k1, k2}
  Quantities = {1}
  Collateral <- MCCollateral
  Ceiling <- MCCeiling
  CashBound <- MCOneSignal
  SeedCash = 2
  Paper = FALSE
  MaxAttempts = 2
  MaxBrokerOrders = 1
INVARIANT MarksAreConfirmed
PROPERTIES
  ImplementsPipeline
  OperatorsAreAnswered
