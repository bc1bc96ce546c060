SPECIFICATION KeeperSpec
CONSTANTS
  s1 = s1
  s2 = s2
  b1 = b1
  admin = admin
  I128Max = 1000000
  Sellers = {s1, s2}
  Buyers = {b1}
  Admin = admin
  Amounts = {1, 2}
  Covers = {1, 2}
  Premiums = {0, 2}
  AllocationLists <- MCAllocationLists
  InitialTokens <- MCInitialTokens
  ProtocolFeeBps = 5000
  AccScale = 6
  MaxRounding = 0
  Figures = {0, 1, 2}
  MaxSales = 2
SYMMETRY MCSymmetry
INVARIANTS
  HiddenSolvency
  BookIsAggregate
  PoolsFunded
PROPERTIES
  ExitsLeaveCover
