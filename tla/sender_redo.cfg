SPECIFICATION SenderSpec
CONSTANTS
  TransactionCount = 2
  Tasks <- MCOrdinals
  directionFor <- Fixed
  Limit = 1
  MaxFaults = 1
PROPERTIES RecordedOrdinalIsDone
CHECK_DEADLOCK FALSE
