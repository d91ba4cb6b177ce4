SPECIFICATION FairSpec
CONSTANTS
  Pairs = {"p", "q"}
  References <- MCReferences
  MaxExamples = 2
  MaxFaults = 1
INVARIANTS
  VerdictIsEarned
  InvalidIsNotTheCandidates
  CandidateStaysInside
PROPERTIES
  WorkerNeverOutlivesItsScore
  ScoreIsReturned
CHECK_DEADLOCK FALSE
