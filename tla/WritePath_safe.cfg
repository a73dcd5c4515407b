SPECIFICATION Spec
CONSTANTS
  Callers = {c1}
  Requests = {r1, r2}
  Readers = {p1}
  Edits = {e1}
  Files = {f1, f2}
  Kinds = {"patch", "create", "delete", "rename", "upload"}
  Missing = Missing
  Empty = Empty
  Nobody = Nobody
SYMMETRY WriteSymmetry
CHECK_DEADLOCK FALSE
INVARIANTS
  NoLostUpdate
  SeenIsReplaced
  AnswersAreTrue
