CONSTANTS
  f1 = f1
  f2 = f2
  F = {f1, f2, f3}
  NumReluOperationsBeforeSplit = 1
  UseConflictAnalysis = TRUE
  Queries <- FewSolutions
  ClosedPhases <- CallerBounds
SPECIFICATION Spec
INVARIANTS
  UnsatSound
