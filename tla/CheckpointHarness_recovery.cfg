SPECIFICATION Spec
CONSTANTS
  MaxSteps = 2
  SaveSteps = 1
  ResumeFlags <- MCBothFlags
  InitialTrees <- MCForeignTrees
  NoTree = NoTree
  NoDir = NoDir
  MaxRuns = 2
  MaxCrashes = 1
  MaxIOErrors = 1
  MaxForeign = 1
INVARIANTS
  PublishedIsWhole
  ReportIsTrue
PROPERTIES
  LeavesOnlyByQuarantine
  ResumePointNeverRegresses
CHECK_DEADLOCK FALSE
