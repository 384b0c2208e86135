SPECIFICATION Spec
CHECK_DEADLOCK FALSE
CONSTANTS
  note = note
  x = x
  y = y
  f = f
  z64 = z64
  Threads = {1, 2}
  Clients <- AClient
  N = 1
  OnDisk <- OneEntry
  MaxAdds = 1
  Comments = {note}
  None = None
  Unset = Unset
  FieldIds = {f, z64}
  Internal = {z64}
  Datas = {x}
  FieldIndexes = {0, 1}
  All = All
  Metas = {"encryption"}
  Flags = {"RDONLY", "WANT_TORRENTZIP"}
  Passwords = {x, y}
  UserStates = {1, 2}
  Precisions = {0, 5}
  CallbackCalls = {"get_comment", "stat", "set_comment", "register_other", "register_same"}
INVARIANTS
  SettersAgree
  CheckedEntriesExist
  FieldsFollow
  UserStatesAreFreedOnce
  CloseKeepsItsWord

  
