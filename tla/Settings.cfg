SPECIFICATION FairSpec
CONSTANTS
  Tasks = {t1, t2}
  Shells = {bash, fish}
  Kinds = {"set", "reload", "list"}
  AutoShell = bash
  Unset = Unset
  Missing = Missing
  Torn = Torn
  Nobody = Nobody
  HandMade <- Broken
  MaxSlots = 2
  MaxRequests = 2
  MaxFaults = 1
CHECK_DEADLOCK FALSE
INVARIANTS
  StaleIsExplained
  ServedIsConfigured
PROPERTIES
  ProfilesKept
  EveryRequestAnswered
