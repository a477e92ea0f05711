SPECIFICATION Spec
CONSTANTS
  NumVariables = 7
  F <- NegF
  B <- NegB
  Aux = {5, 6}
  Equations <- NegEquations
  Queries <- NegQueries
  Updates <- NegUpdates
  KeepBasics = {TRUE}
INVARIANTS
  AcceptedIsSolution
CHECK_DEADLOCK FALSE
