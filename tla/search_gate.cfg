SPECIFICATION SearchSpec
CONSTANTS
  U64Max = 20000
  U128Max = 400000000
  Bps = 4
  FeePrecision = 40
  MaxFeeRate = 4
  PriceUnit = 100
  BaseFeeUnit = 1
  VariableFeeUnit = 16
  MaxBins = 4
  MantissaBits = 15
  WidestBits = 30
  RootMargin = 32
  NewtonRounds = 15
  MaxArrays = 2
  BinsPerArray = 2
  DefaultArrays <- MCDefaultArrays
  MaxTiers = 3
  Accounts <- FallingFeeAccounts
  Bounds <- FallingFeeBounds
  Trials <- MCTrials
  RoundingLoss = 2
  MaxExactOutput = 400
CHECK_DEADLOCK FALSE
INVARIANT MinimumDecides
