CONSTANTS
  f1 = f1
  f2 = f2
  F = {f1, f2, f3, f4}
  NumReluOperationsBeforeSplit = 2
  UseConflictAnalysis = TRUE
  Queries <- FewSolutions
  ClosedPhases <- CallerBounds
SPECIFICATION Spec
INVARIANTS
  TypeOK
  SiblingsRefuted
  PopStaysJustified
  DissolvedSound
  StaleDepthHarmless
