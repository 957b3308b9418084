SPECIFICATION FairScheduler
CONSTANTS
  MaxPid = 4
INVARIANTS
  RunsItself
PROPERTIES
  EachRuns
