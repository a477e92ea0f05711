CONSTANTS
  f1 = f1
  f2 = f2
  F = {f1, f2}
  NumReluOperationsBeforeSplit = 2
  UseConflictAnalysis = TRUE
  Queries <- AtMostOneKind
  ClosedPhases <- NoClosedPhase
  MaxGlpkFailures = 3
  MaxTightenings = 1
SPECIFICATION LpSpec
PROPERTIES
  SlacksUnlessTwoFailures
