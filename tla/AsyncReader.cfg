SPECIFICATION FairSpec
CHECK_DEADLOCK FALSE
CONSTANTS
  Entries <- FewEntries
  BufferSizes = {}
  Offsets <- NoSeeks
  AbsoluteLimit = 2
  SafetyBuffer = 1
  Chunk = 2
  Capacities = {0, 1, 3}
INVARIANTS
  TypeOK
  NoByteLost
PROPERTIES
  ImplementsByteStream
  ParkedIsWoken
  ReadsToTheEnd
  ReaderIsReleased
