SPECIFICATION CarefulSpec
CHECK_DEADLOCK FALSE
CONSTANTS
  a = a
  b = b
  d = d
  x = x
  y = y
  z = z
  c = c
  at = at
  pw = pw
  Names = {a, d}
  DirNames = {d}
  Contents = {x, y}
  Corrupt = Corrupt
  EmptyContent = y
  Comments = {c}
  Unshowable = {}
  Mtimes <- OddTime
  DosTimes = {2}
  Attrs = {at}
  DefaultAttrs = at
  Passwords = {pw}
  None = None
  Unset = Unset
  Damaged = Damaged
  MaxEntries = 2
  MaxStaged = 2
  MaxSessions = 1
  Modes <- FewModes
  Calls = {"open", "open_pathless", "file_add", "delete", "rename", "file_replace", "encryption", "comment", "mtime", "dostime", "password", "unchange", "unchange_all", "write_error", "discard"}
  InitialFiles <- NewOrEncrypted
INVARIANTS
  StagedKeysExist
PROPERTIES
  ImplementsEdit
