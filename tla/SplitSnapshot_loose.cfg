SPECIFICATION Spec
CONSTANTS
  Absent = Absent
  None = None
  Makers = {m1, m2}
  Anchors <- MCAnchors
  Scenarios <- MCLoose
  Tokenizers <- MCTokenizers
  Immutable = {"commit"}
  Length <- MCLength
  MaxSourceEdits = 0
  MaxTampers = 1
INVARIANTS
  PublishedIsAccepted
CHECK_DEADLOCK FALSE
