SPECIFICATION ReaderSpec
CONSTANTS
  Entries <- SmallEntries
  BufferSizes = {0, 1, 2, 5}
  Offsets <- NearOffsets
  AbsoluteLimit = 2
  SafetyBuffer = 1
INVARIANTS
  ReaderTypeOK
  PositionIsTold
  IntactNeverFails
PROPERTIES
  ReaderIsByteStream
