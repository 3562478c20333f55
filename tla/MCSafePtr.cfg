SPECIFICATION Spec
CONSTANTS
  t1 = t1
  t2 = t2
  h1 = h1
  h2 = h2
  h3 = h3
  b1 = b1
  b2 = b2
  o1 = o1
  o2 = o2
  Null = Null
  Threads <- TwoThreads
  Handles <- ThreeHandles
  Blocks <- TwoBlocks
  Objects <- TwoObjects
  Operations <- AllOperations
INVARIANTS
  TypeOK
  CountExact
  FreedByLastHolder
  HeldIsValid
PROPERTIES
  HeldObjectStable
  ImplementsSharedHold
CHECK_DEADLOCK FALSE
