SPECIFICATION FairSpec
CONSTANTS
  Callers = {c1}
  Requests = {r1, r2}
  Readers = {}
  Edits = {}
  Files = {f1}
  Kinds = {"create", "upload"}
  Missing = Missing
  Empty = Empty
  Nobody = Nobody
CHECK_DEADLOCK FALSE
PROPERTY HostTimeoutApplies
