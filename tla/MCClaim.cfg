SPECIFICATION FairClaimSpec
CONSTANTS
  s1 = s1
  b1 = b1
  b2 = b2
  h1 = h1
  ours = ours
  opaque = opaque
  Sellers = {s1}
  Buyers = {b1, b2}
  Amounts = {4}
  Covers = {1, 3}
  Commitments <- MCCommitments
  Openings <- MCOpenings
  AllocationLists = {}
  InitialTokens = 4
  I128Max = 100000
  U64Max = 100000
  Epochs = {1}
  Instruments = {ours}
  This = ours
  Config <- MCConfig
  OtherBooks = {}
  CouponAmounts = {1}
  MaxTime = 2
  MaxPayments = 1
  MaxBook = 2
  EarlyProving = FALSE
  Faithful = TRUE
  Grace = 1
INVARIANTS
  ClaimTypeOK
  OnePathPerEpoch
  NoDoublePay
  LateClaimsFunded
PROPERTIES
  NobodyWithholds
CHECK_DEADLOCK FALSE
