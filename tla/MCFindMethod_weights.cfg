SPECIFICATION Spec
CONSTANTS
  t1 = t1
  t2 = t2
  Threads <- TwoThreads
  Classes <- SomeClasses
  Parent <- SomeParents
  Interfaces <- SomeInterfaces
  InterfaceTypes <- SomeInterfaceTypes
  EnumBase <- SomeEnums
  Object = 1
  Methods <- SomeMethods
  Queries <- DiscQueries
INVARIANT BestMatch
