SPECIFICATION Spec
CONSTANTS
    Absent = Absent
    None = None
    Taken = Taken
    Length <- MCLength
    SelectionDigest <- MCSelectionDigest
    Scenarios <- MCScenarios
    MaxEdits = 2
INVARIANTS
  BudgetIsSpent
  RelatedRecordsStayTogether
  SelectedStaysIsolated
  PinsBelongTogether
CHECK_DEADLOCK FALSE
