SPECIFICATION RouterSpec
CONSTANTS
  s1 = s1
  s2 = s2
  b1 = b1
  b2 = b2
  admin = admin
  I128Max = 1000000
  Sellers = {s1, s2}
  Buyers = {b1, b2}
  Admin = admin
  Amounts = {2}
  Covers = {1}
  AllocationLists <- MCAllocationLists
  InitialTokens <- MCInitialTokens
  PremiumBps = 10000
  ProtocolFeeBps = 5000
  HaircutBps = 5000
  FloatFees = {5000}
  AccScale = 6
  MaxRounding = 0
  MaxPositions = 1
  WrapAmounts = {1}
  Grosses = {3}
  InitialBonds = 1
  DistFeeBps = 5000
  MaxNetRounding = 0
  SelfTransfers = TRUE
INVARIANTS
  PbondIsSupply
