SPECIFICATION FairSpec
CONSTANTS
  MaxRuns = 1
  Tasks = {t1, t2}
  Modes = {"run", "attach", "remove"}
 
PROPERTY EveryRequestAnswered
