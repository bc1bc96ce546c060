SPECIFICATION SettlementSpec
CONSTANTS
  s1 = s1
  b1 = b1
  h1 = h1
  h2 = h2
  h3 = h3
  ours = ours
  theirs = theirs
  opaque = opaque
  Sellers <- MCSellers
  Buyers <- MCBuyers
  Amounts <- MCAmounts
  Covers <- MCCovers
  Commitments <- MCCommitments
  Openings <- MCOpenings
  AllocationLists = {}
  InitialTokens = 4
  I128Max = 100000
  U64Max = 100000
  Epochs <- TwoEpochs
  Instruments = {ours}
  This = ours
  Config <- TwiceScheduled
  OtherBooks = {}
  CouponAmounts = {2}
  MaxTime = 2
  MaxPayments = 1
  MaxBook = 2
  EarlyProving = TRUE
  Faithful = FALSE
INVARIANTS
  PaidExactlyReceipts
  ScheduledTwiceNeverSettles
PROPERTIES
  KeepsPromise
CHECK_DEADLOCK FALSE
