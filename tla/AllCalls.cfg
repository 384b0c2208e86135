SPECIFICATION Spec
CHECK_DEADLOCK FALSE
CONSTANTS
  a = a
  b = b
  d = d
  x = x
  y = y
  z = z
  c = c
  at = at
  pw = pw
  Names = {a, b}
  DirNames = {b}
  Contents = {x}
  Corrupt = Corrupt
  EmptyContent = x
  Comments = {c, z}
  Unshowable = {z}
  Mtimes <- OddTime
  DosTimes = {2}
  Attrs = {at}
  DefaultAttrs = at
  Passwords = {pw}
  None = None
  Unset = Unset
  Damaged = Damaged
  MaxEntries = 2
  MaxStaged = 1
  MaxSessions = 1
  Modes <- MixedModes
  Calls = {"open", "open_pathless", "file_add", "dir_add", "delete", "rename", "file_replace", "source_error", "encryption", "comment", "attrs", "mtime", "dostime", "compression", "archive_comment", "archive_flag", "password", "cancel", "unchange", "unchange_all", "unchange_archive", "write_error", "discard"}
  InitialFiles <- OldOrBroken
INVARIANTS
  TypeOK
  GettersShowStaged
PROPERTIES
  ReadOnlyNeverRewrites
  UnchangeRestoresOriginal
