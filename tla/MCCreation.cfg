SPECIFICATION FairSpec
CONSTANTS
  t1 = t1
  t2 = t2
  Threads <- TwoThreads
  Assemblies <- TwoAssemblies
  Types <- AllTypes
  Creatable <- PlainTypes
  Asked <- OnlyA
  Cctors <- OnlyA
  LoadedAtStart = 0
  LogsAlone = TRUE
  MaxNested = 1
INVARIANTS
  TypeOK
  FirstMatch
  FailsOnlyWhenUnloaded
  CctorNotReentered
  ReadyWhenQuiet
PROPERTY CallsReturn
