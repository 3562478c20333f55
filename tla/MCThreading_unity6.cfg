SPECIFICATION FairSpec
CONSTANTS
  Main = Main
  w1 = w1
  w2 = w2
  k1 = k1
  k2 = k2
  Workers <- TwoWorkers
  Tasks <- TwoTasks
  Policies <- AllPolicies
  ChecksAttached = FALSE
INVARIANT RegisteredUntilExit
CHECK_DEADLOCK FALSE
