SPECIFICATION Spec
CONSTANTS
  Recipes = {r1, r2}
  MaxSteps = 2
  SaveSteps = 1
  SaveLimit = 1
  ResumeModes <- MCResumeModes
  SafeFlags <- MCSafe
  NoTree = NoTree
  NoIndex = NoIndex
  MaxTrainings = 3
  MaxExports = 1
  MaxStops = 2
INVARIANTS
  SealIsTrue
  MergedIsTrue
PROPERTIES
  ResumedIsWhole
  LatestNeverOverwrites
  ReadyMeansResumed
CHECK_DEADLOCK FALSE
