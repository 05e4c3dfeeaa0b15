SPECIFICATION SearchSpec
CONSTANTS
  U64Max = 2000
  U128Max = 4000000
  Bps = 40
  FeePrecision = 40
  MaxFeeRate = 4
  PriceUnit = 12
  BaseFeeUnit = 1
  VariableFeeUnit = 1600
  MaxBins = 4
  MantissaBits = 11
  WidestBits = 30
  RootMargin = 32
  NewtonRounds = 11
  MaxArrays = 2
  BinsPerArray = 2
  DefaultArrays <- MCDefaultArrays
  MaxTiers = 3
  Accounts <- MCAccounts
  Bounds <- MCBounds
  Trials <- MCTrials
  RoundingLoss = 2
  MaxExactOutput = 400
CHECK_DEADLOCK FALSE
INVARIANTS SearchTypeOK CurveIsProduction SelectedIsProduction NoProfitIsComplete NearOptimal PrefilterKeepsRoots SelectionsAgree SnapshotIsProduction ProbeChoosesAlike
PROPERTY ProbeIsKept
