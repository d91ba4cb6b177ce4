SPECIFICATION FairSpec
CONSTANTS
  MaxSteps = 3
  SaveSteps = 2
  ResumeFlags <- MCResume
  InitialTrees <- MCResumeTrees
  NoTree = NoTree
  NoDir = NoDir
  MaxRuns = 2
  MaxCrashes = 1
  MaxIOErrors = 1
  MaxForeign = 0
INVARIANTS
  UndisturbedRunsComplete
PROPERTIES
  RunEnds
CHECK_DEADLOCK FALSE
