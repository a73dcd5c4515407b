SPECIFICATION Spec
CONSTANTS
  MaxRuns = 1
  Tasks = {t1, t2}
  Modes = {"run", "stop"}
INVARIANT StopShowsStopped
