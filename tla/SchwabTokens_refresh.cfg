SPECIFICATION FairSpec
CONSTANTS
  None = None
  Callers = {c1, c2, w1}
  Writers = {w1}
  Watchdogs = {d1}
  MaxIssued = 3
INVARIANTS
  RefreshesStoredToken
PROPERTIES
  TokensOnlyAdvance
  RetriesWithNewerToken
  CallsAreAnswered
