SPECIFICATION Spec
CONSTANTS
  Absent = Absent
  None = None
  Makers = {m1, m2}
  Anchors <- MCAnchors
  Scenarios <- MCScenarios
  Tokenizers <- MCTokenizers
  Immutable = {"commit"}
  Length <- MCLength
  MaxSourceEdits = 2
  MaxTampers = 1
INVARIANTS
  SourceVerdictIsTrue
  UntouchedIsAccepted
  LoadedRowsAreTrain
  SidecarIsTrue
PROPERTIES
  RelatedStayTogether
  PublishesAtomically
CHECK_DEADLOCK FALSE
