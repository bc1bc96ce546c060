SPECIFICATION VaultSpec
CONSTANTS
  s1 = s1
  s2 = s2
  b1 = b1
  Sellers <- MCSellers
  Buyers <- MCBuyers
  Amounts <- MCAmounts
  Covers <- MCCovers
  Commitments <- MCCommitments
  AllocationLists <- MCAllocationLists
  InitialTokens = 3
  I128Max = 5
INVARIANTS
  VaultTypeOK
  Custody
  SellerBooks
  CoverBacked
PROPERTY
  WindowHoldsReserve
