SPECIFICATION MonitorSpec
CONSTANTS
  Requested <- MCRequested
  LastValid <- MCLastValid
  GroupSize = 2
  MaxHeight = 3
  MaxFailures = 0
INVARIANTS ReportIsWhatLanded
CHECK_DEADLOCK FALSE
