SPECIFICATION SenderFairSpec
CONSTANTS
  TransactionCount = 3
  Tasks <- MCOrdinals
  directionFor <- Fixed
  Limit = 2
  MaxFaults = 1
INVARIANTS SenderTypeOK BroadcastsBounded OneBroadcastPerRun RecordedOnce CompleteManifestIsWhole
PROPERTIES KeepsTheStore BatchCompletes
CHECK_DEADLOCK FALSE
