SPECIFICATION FairSpec
CONSTANTS
  MaxRuns = 1
  Tasks = {t1, t2}
  Modes = {"run", "stop", "list", "remove"}
PROPERTIES
  TimeoutEnforced
  ImplementsLifecycle
  EveryRequestAnswered
