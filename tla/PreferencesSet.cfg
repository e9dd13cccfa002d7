SPECIFICATION Spec
CONSTANTS
  Unit = 4
  Epsilon = 3
  IntMin <- MCIntMin
  IntMax = 3
  MaxSafeInteger = 7
  nullptr <- MCnullptr
  Paths <- MCPaths
  Settable <- MCSettable
  Defaults <- MCDefaults
  Contents <- MCContents
  MaxDepth = 5
  Cloned <- Clone
INVARIANTS
  OwnValueReadBack
  GettersDoNotAssert
  TypeNamesTheMember
  OrderIsStrictWeak
PROPERTIES
  ImplementsPathStore
