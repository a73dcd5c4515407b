SPECIFICATION WorkSpec
CONSTANTS
  Endings <- SmallEndings
  Sizes = {0, 3}
  MaxOps = 3
  MaxBlock = 2
  UsizeMax = 5
  None = None
  MaxRows = 3
  Offsets = {0, 1, 2, 3, 4}
  Limits = {0, 1, 2}
  BinaryLimit = 2
  Listing = 3
  Rewrites <- SmallRewrites
  Trees <- SmallTrees
  Counts = {0, 2, 9}
  GlobLimit = 1
  Timeouts <- SmallTimeouts
  ToolTimeouts = {0, 3, Absent}
  Absent = Absent
  DefaultTimeout = 1
  Buffer = 1
  MaxTime = 4
CHECK_DEADLOCK FALSE
INVARIANTS
  WorkTypeOK
  PatchReadsSnapshot
  EndingsKept
  HunksReadSnapshot
  PagesCover
  HintsHold
  
  AnsweredInTime
  FlagsAreTrue
