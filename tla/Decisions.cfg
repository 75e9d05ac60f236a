SPECIFICATION FairDecisionSpec
CONSTANTS
  a1 = a1
  a2 = a2
  long = long
  short = short
  s1 = s1
  s2 = s2
  u = u
  None = None
  Whole = 100
  AccountSeq <- MCAccounts
  Jobs = {j1, j2}
  Submitters = {r1}
  SignalOf <- MCSignals
  Quantities = {5, 6}
  Legs <- MCSymbols
  Underlying <- MCUnderlying
  MarketValue <- MCMarketValue
  Paper = FALSE
  Policy <- MCPolicy
  AccountType = "CASH"
  Tier = 2
  Nlv = 60
  Settled = 5
  LegQuotes <- MCQuotes
  MaxTrades = 1
  MaxFailures = 1
  StopMult = 150
  RiskReward = 200
  Absent = Absent
  Unit = 1000
  Period = 2
  Fast = 1
  Slow = 3
  Window = 2
  Lookback = 4
  MinBars = 5
  MinScore = 60
  LongWindow = 2
  ShortWindow = 1
  Brackets <- MCBrackets
  Instants <- MCInstants
  Cutoffs <- MCCutoffs
  Headrooms <- MCHeadrooms
  Ledgers <- MCLedgers
  Batches <- MCBatches
  BarSeries <- MCBarSeries
  ChainSeries <- MCChainSeries
  NoValue = NoValue
  Updates = {u1, u2}
  Requests <- MCRequests
  Environment <- MCEnvironment
  LiveCeiling = 2
  HardLimit = 50
INVARIANTS
  PositionsAreNotDoubled
  ApprovalsAreSound
  CeilingIsExact
  BracketsAreSized
  FuturesChecksAreSafe
  UnsettledIsUnusable
  BatchesAreSized
  IndicatorsAreBounded
  ScoresAreConsistent
  FeaturesTellTheNewest
  SequentialUpdatesAgree
PROPERTIES
  RowsFollowBroker
  FlipsAreConfirmed
