SPECIFICATION MCSpec
CONSTANTS
  s1 = s1
  s2 = s2
  b1 = b1
  admin = admin
  I128Max = 1000000
  Sellers = {s1, s2}
  Buyers = {b1}
  Admin = admin
  Weights <- MCWeights
  Amounts = {2}
  Burns = {1}
  Covers = {2}
  AllocationLists <- MCAllocationLists
  InitialTokens <- MCInitialTokens
  PremiumBps = 10000
  ProtocolFeeBps = 2500
  AccScale = 6
  MaxRounding = 0
  MaxPositions = 2
  HiddenCovers = {2}
  HiddenPremiums = {0, 2}
  Figures <- MCFigures
INVARIANTS
  TranchedTypeOK
  TranchesAreReserve
  FullyFunded
  PremiumFunded
  HiddenBookBacked
PROPERTIES
  JuniorFirst
  NobodyDiluted
  LiveTrancheKeepsDeposits
  ExitsLeaveHiddenCover
SYMMETRY MCSymmetry
