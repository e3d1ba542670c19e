SPECIFICATION DetectFairSpec
CONSTANTS
  m1 = m1
  m2 = m2
  r1 = r1
  Masters = {m1, m2}
  Replicas = {r1}
  Networks <- mcNetworks
  Size = 3
  NodeTimeout = 1
  Validity = 2
  UndoTime = 2
  MaxFlips = 2
PROPERTIES
  MarkNeedsRecentMajority
  FailSpreads
  FailClears
