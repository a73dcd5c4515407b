SPECIFICATION FairSpec
CONSTANTS
  Callers = {c1}
  Requests = {r1, r2, r3}
  Readers = {}
  Edits = {}
  Files = {f1}
  Kinds = {"create", "upload"}
  Missing = Missing
  Empty = Empty
  Nobody = Nobody
CHECK_DEADLOCK FALSE
PROPERTIES
  EveryWriteAnswered
  OnlyUploadsBlock
