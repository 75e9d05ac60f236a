SPECIFICATION FairSpec
CONSTANTS
  k1 = k1
  k2 = k2
  a = a
  b = b
  Unset = Unset
  Keys <- MCKeys
  KeyOrder <- MCOrder
  Columns <- MCColumns
  Values <- MCValues
  Pages <- MCPages
  Changes <- MCChanges
  SeedPage <- MCSeedPage
  Seeds <- MCSeeds
  Editors = {e1, e2}
  MaxId = 2
PROPERTIES
  ImplementsBook
  HeatmapIsAnswered
