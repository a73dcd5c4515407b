SPECIFICATION Spec
CONSTANTS
  MaxRuns = 1
  Tasks = {t1, t2, t3}
  Modes = {"run", "stop", "remove"}
SYMMETRY TaskSymmetry
INVARIANTS
  NoPrematureExit
  NoOrphan
  LabelsCleared
  CompletedIsGone
