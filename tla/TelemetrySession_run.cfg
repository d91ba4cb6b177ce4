SPECIFICATION Spec
CONSTANTS
  MaxSteps = 2
  SaveSteps = 2
  ResumeSteps <- MCResume
  Configs <- MCConfigs
  MaxErrors = 2
  MaxInterrupts = 1
INVARIANTS
  WindowRefsAreHonest
  SummaryIsTrue
  ManifestIsOfThisSession
CHECK_DEADLOCK FALSE
