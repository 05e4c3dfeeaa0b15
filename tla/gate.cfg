SPECIFICATION GateFairSpec
CONSTANTS
  t1 = t1
  t2 = t2
  t3 = t3
  t4 = t4
  t5 = t5
  Tasks <- MCTasks
  Limit = 2
INVARIANTS AtMostLimit PermitsNeverIdle
PROPERTIES EveryWaiterRuns
