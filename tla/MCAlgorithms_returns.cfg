CONSTANTS
  Null = Null
  Memories <- MCMemories
  Borders <- MCBorders
  SomePatterns <- MCPatterns
  Texts <- MCTexts
  Codes <- MCCodes
  Copied <- MCCopied
  CodeAt = 1
  BufferAt = 30
  Words <- MCWords
  MemberCalls <- MCCalls
  Classes <- MCClasses
  Parent <- MCParents
  Interfaces <- MCInterfaces
  InterfaceTypes <- MCInterfaceTypes
  EnumBase <- MCEnums
  Object = 1
  Void = 6
  Methods <- MCMethods
  Properties <- MCProperties
  Fields <- MCFields
  Offsets <- MCOffsets
  Stub <- MCStub

SPECIFICATION Spec

INVARIANT ReturnsAreChecked

CHECK_DEADLOCK FALSE
