SPECIFICATION FairSpec
CONSTANTS
  Conns = {k1, k2}
  Ids = {Zero, a}
  Zero = Zero
  Rec = Rec
  Nobody = Nobody
  NoConn = NoConn
  Scenarios = {{"exit", "resize"}, {"control", "lock", "force"}, {"remove"}}
CHECK_DEADLOCK FALSE
INVARIANTS
  Accounted
  NoGhost
  LockHolds
  
PROPERTY ExitTold
