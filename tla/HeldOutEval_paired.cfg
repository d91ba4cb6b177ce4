SPECIFICATION Spec
CONSTANTS
    None = None
    Missing = None
    Torn = Torn
    Link = Link
    Removed = Removed
    Scenarios <- MCScenarios
    DoctestScores <- MCDoctestScores
    DoctestPasses <- MCDoctestPasses
    MaxEdits = 2
    MaxRescores = 2
INVARIANTS
    AcceptedArtifactWasWhole
    AcceptedArtifactLoads
    ComparisonIsTrue
    FormattingDoesNotMatter
    RescoreCoversContract
    ValidatedPinIsOneManifest
CHECK_DEADLOCK FALSE
