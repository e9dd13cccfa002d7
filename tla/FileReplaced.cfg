SPECIFICATION Spec
CONSTANTS
  empty = empty
  large = large
  Writers = {w1, w2}
  Readers = {r1}
  Data = {empty, large}
  Size <- MCSize
  Temps <- MCTemps
  Dest <- MCDest
  ChunkSize = 1
  NoFile = NoFile
INVARIANTS
  DestinationIsWhole
  TempsAreOwned
PROPERTIES
  OnlyFailuresLeaveFiles
  ImplementsAtomicFile
