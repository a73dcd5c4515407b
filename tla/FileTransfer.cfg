SPECIFICATION Spec
CONSTANTS
  Uploads = {u1, u2}
  Tools = {w1, w2}
  Downloads = {d1}
  Chunks = 2
  None = None
  MaxCrashes = 1
SYMMETRY TransferSymmetry
CHECK_DEADLOCK FALSE
INVARIANTS
  TargetIsWhole
  NothingLost
  
  StatusIsTrue
  DownloadIsExact
