CONSTANTS
  t1 = t1
  t2 = t2
  b1 = b1
  b2 = b2
  Threads <- MCThreads
  UnsafeThreads <- MCUnsafeThreads
  Blocks <- MCBlocks
  ObjectSize = 1
  Sizes <- MCSizes
  Fragile <- MCFragile
  Early = FALSE

SPECIFICATION Spec

INVARIANTS
  TypeOK
  OnlyMissingKills
  PublishedComplete
  FreedByItsAllocator
  UnsafeKeepsSizes

CHECK_DEADLOCK FALSE
