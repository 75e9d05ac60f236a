SPECIFICATION Spec
CONSTANTS
  s1 = s1
  s2 = s2
  None = None
  Signals <- MCSignals
  Submitters = {r1, r2}
  Rejecters = {j1}
  Reconcilers = {c1}
  Quantities = {1, 2}
  Collateral <- MCCollateral
  Ceiling <- MCCeiling
  CashBound <- MCCashBound
  SeedCash = 2
  Paper = TRUE
  MaxAttempts = 2
  MaxBrokerOrders = 3
SYMMETRY Symmetry
INVARIANTS
  NoOverdraft
  OneOrderPerSignal
  OrdersAreApproved
  OrderedSignalsAreClosed
  LocksBackOrders
PROPERTIES
  NoResurrection
  HaltTakesHold
  ImplementsDesk
