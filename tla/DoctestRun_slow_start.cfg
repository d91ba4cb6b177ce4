SPECIFICATION FairSpec
CONSTANTS
  Pairs = {"p", "q"}
  References <- MCReferences
  MaxExamples = 1
  MaxFaults = 0
INVARIANTS
  IncorrectIsTheCandidates
CHECK_DEADLOCK FALSE
