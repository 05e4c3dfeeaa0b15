SPECIFICATION SingleFairSpec
CONSTANTS
  Directions <- MCDirections
  MaxFaults = 2
INVARIANTS SingleTypeOK GivenUpIsDead DoneHasTraded
PROPERTIES SingleEnds
CHECK_DEADLOCK FALSE
