SPECIFICATION Spec
CONSTANTS
  Bytes = {"a", "b", "c", "0", "z"}
  Files <- MCFiles
  Zero = "0"
  Magic = "z"
  Fragments <- MCFragments
  Ranges <- MCRanges
  Layerings <- MCLayerings
  ReadSizes = {1, 2}
  Targets <- MCTargets
  WriteData <- MCWriteData
  MaxBytes = 2
  MaxWrites = 2
INVARIANTS
  CrcCoversContent
  DeliveredInOrder
  DraftIsWritten
  SourceIsRange
PROPERTIES
  FailuresAreQuiet
