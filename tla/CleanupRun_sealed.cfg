SPECIFICATION Spec
CONSTANTS
  Names <- MCNames
  StepOf <- MCStepOf
  Root <- MCRoot
  Cleaners <- MCCleaners
  NoIndex = NoIndex
  Settings <- MCSettings
INVARIANTS
  SealIsHonest
  DeletionIsRecoverable
  KeepsTheNewest
PROPERTIES
  CleanReportMeansTrueIndex
  SkippedIsUntouched
CHECK_DEADLOCK FALSE
