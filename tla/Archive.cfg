SPECIFICATION Spec
CHECK_DEADLOCK FALSE
SYMMETRY Symmetric
CONSTANTS
  t1 = t1
  t2 = t2
  None = None
  Threads <- MCThreads
  Jobs <- MCJobs
  Salts = {s1}
  LargeThreshold = 5
  Twins = {"right", "twin"}
  SourceKinds = {"mmap", "file", "cursor", "arc"}
  Passwords = {"right", "wrong", "twin"}
  FastMax = 5
  PoolCapacity = 1
  ReadSize = 2
  MaxOpens = 2
  MaxFaults = 1
  Max16 = 3
  Max32 = 6
  MaxCdSize = 10
INVARIANTS
  WorkersLeaveNoTrace
  DirectoryReadsBack
  ReadBack
  SharedIsSound
