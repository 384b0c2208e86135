SPECIFICATION Spec
CHECK_DEADLOCK FALSE
CONSTANTS
  Plain <- SomeCells
  Data <- TwoMembers
  Names <- SafeNames
  Unsafe <- NoNames
  Archives <- SmallArchives
  Junk <- SomeJunk
  Renames <- FewRenames
  Deletes <- FewDeletes
  CountLimit = 2
  FieldLimit = 40
  MaxCdSize = 20
  MaxCdBuffer = 9
  MaxCalls = 2
INVARIANTS
  DataUntouched
  SuccessIsEdited
  WrittenIsNewOrError
