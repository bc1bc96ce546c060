SPECIFICATION FamilySpec
CONSTANTS
  s1 = s1
  b1 = b1
  h1 = h1
  h2 = h2
  ours = ours
  north = north
  south = south
  Sellers = {s1}
  Buyers = {b1}
  Amounts = {4}
  Covers = {4}
  Commitments <- MCOpenings
  Openings <- MCOpenings
  AllocationLists = {}
  InitialTokens = 4
  I128Max = 100000
  U64Max = 100000
  Epochs = {1, 2}
  Instruments = {ours}
  This = ours
  Config <- MCConfig
  OtherBooks = {}
  CouponAmounts = {2}
  MaxTime = 2
  MaxPayments = 1
  MaxBook = 1
  EarlyProving = FALSE
  Faithful = TRUE
  Rules = {"credit_v2", "credit_v3", "weather_v1"}
  RecordDate <- MCRecordDate
  Terms <- MCTerms
  Stations = {north, south}
  Falls = {1, 3}
  MaxReadings = 2
INVARIANTS
  SignaturesHold
  DroughtPaidExactly
CHECK_DEADLOCK FALSE
