SPECIFICATION CalcSpec
CONSTANTS
  StopMult = 150
  RiskReward = 200
  Whole = 100
  Absent = Absent
  Unit = 1000
  Period = 2
  Fast = 1
  Slow = 3
  Window = 2
  Lookback = 4
  MinBars = 5
  MinScore = 60
  LongWindow = 2
  ShortWindow = 1
  Brackets <- MCBrackets
  Instants <- MCInstants
  Cutoffs <- MCCutoffs
  Headrooms <- MCHeadrooms
  Ledgers <- MCLedgers
  Batches <- MCBatches
  BarSeries <- MCBarSeries
  ChainSeries <- MCChainSeries
INVARIANT PageMatchesGuard
