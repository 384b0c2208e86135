SPECIFICATION CarefulSpec
CONSTANTS
  Threads = {t1, t2}
  Handles = {h1, h2}
  NoHandle = NoHandle
  Payloads = {Empty, x}
  Empty = Empty
  NoDraft = NoDraft
  MaxRefs = 2
INVARIANTS
  TypeOK
  RefsAreCounted
  NothingDangles
  SessionsInStep
  DrainsAreWhole
PROPERTIES
  HeapEmpties
