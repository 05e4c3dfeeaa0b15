SPECIFICATION MonitorFairSpec
CONSTANTS
  Requested <- MCRequested
  LastValid <- MCLastValid
  GroupSize = 1
  MaxHeight = 3
  MaxFailures = 1
INVARIANTS MonitorTypeOK ExpiredNeverLands OutcomeOnlyWhenConfirmed EndsWithAllDecided
PROPERTIES DecidedIsFinal MonitoringEnds
CHECK_DEADLOCK FALSE
