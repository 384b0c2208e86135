SPECIFICATION Spec
CHECK_DEADLOCK FALSE
CONSTANTS
  Plain <- SomeCells
  Data <- TwoMembers
  Names <- AllNames
  Unsafe <- DotNames
  Archives <- OneArchive
  Junk <- NoJunk
  Renames <- FewRenames
  Deletes <- FewDeletes
  CountLimit = 2
  FieldLimit = 40
  MaxCdSize = 20
  MaxCdBuffer = 9
  MaxCalls = 1
INVARIANTS
  SuccessIsEdited
