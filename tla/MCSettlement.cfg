SPECIFICATION FairSettlementSpec
CONSTANTS
  s1 = s1
  b1 = b1
  h1 = h1
  h2 = h2
  h3 = h3
  ours = ours
  theirs = theirs
  opaque = opaque
  Sellers <- MCSellers
  Buyers <- MCBuyers
  Amounts = {4}
  Covers = {2}
  Commitments <- MCOpenings
  Openings <- MCOpenings
  AllocationLists = {}
  InitialTokens = 4
  I128Max = 100000
  U64Max = 100000
  Epochs <- TwoEpochs
  Instruments <- MCInstruments
  This = ours
  Config <- MCConfig
  OtherBooks <- MCOtherBooks
  CouponAmounts = {2}
  MaxTime = 2
  MaxPayments = 1
  MaxBook = 1
  EarlyProving = FALSE
  Faithful = TRUE
INVARIANTS
  SettlementTypeOK
  NoOverpayment
  FirstDefaultFunded
PROPERTIES
  DefaultsSettle
CHECK_DEADLOCK FALSE
