SPECIFICATION FactoriesSpec
CONSTANTS
  TypeIds = {"credit_v1"}
  TypeEntries <- MCTypeEntries
  InstrumentConfigs <- MCInstrumentConfigs
  Tokens = {"usdc"}
  ClaimTypeEntries <- MCClaimTypeEntries
  ClaimWasms <- MCClaimWasms
  TierIds = {"grade", "high"}
  Bands <- MCBands
  ProtectedConfigs <- MCProtectedConfigs
  TranchedConfigs <- MCTranchedConfigs
  YieldWasms <- MCYieldWasms
  TranchedWasms = {"tranched1", "tranched2"}
INVARIANTS
  PinnedToType
  IdNamesOneConfig
  TiersHold
CHECK_DEADLOCK FALSE
