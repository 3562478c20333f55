SPECIFICATION Spec
CONSTANTS
  null = null
  x = x
  y = y
  Values <- RefValues
  Default = null
  RefType = TRUE
  MaxCapacity = 5
  Indices <- SmallIndices
  Spans <- SomeSpans
  Unchecked = FALSE
CONSTRAINT VersionBound
VIEW Fields
INVARIANTS
  TypeOK
  NoStaleReferences
PROPERTIES
  ImplementsManagedList
  VersionTracksContents
