SPECIFICATION Spec
CONSTANTS
  NumVariables = 7
  F <- AbsF
  B <- AbsB
  Aux = {5, 6}
  Equations <- AbsEquations
  Queries <- AbsQueries
  Updates <- AbsUpdates
  KeepBasics = {TRUE, FALSE}
INVARIANTS
  TableauForm
  EquationsHold
  NonBasicInBounds
  AcceptedIsSolution
  RefutationsRight
  LpWellFormed
  LpSolutionKept
CHECK_DEADLOCK FALSE
