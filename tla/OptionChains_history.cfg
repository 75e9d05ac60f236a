SPECIFICATION Spec
CONSTANTS
  u1 = u1
  u2 = u2
  c1 = c1
  c2 = c2
  None = None
  Underlyings = {u1, u2}
  Watch <- MCOne
  Contracts = {c1}
  Listed <- MCListed
  KeyOf <- MCKeyOf
  Vols = {2, 4}
  Market <- MCMarket
  Pulls = {p1}
  Nightly = nightly
  Script = script
  Lists <- MCLists
  Days <- MCDays
  DayLength = 1
  Close = 0
  Window = 1
  Limit = 2
  Threshold = 90
  Tries = 2
  MaxTime = 2
INVARIANTS
  EventsAreSpaced
PROPERTIES
  HistoryIsKept
  AnswersAreStored
  BackfillsAdvance
