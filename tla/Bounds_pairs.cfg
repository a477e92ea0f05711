CONSTANTS
  NumVariables = 4
  F <- TwoPairs
  B <- TwoB
  Values <- Small
  Preprocessed <- AtMostOneDissolved
  Queries <- AtMostOne
  UseConflictAnalysis = TRUE
SPECIFICATION Spec
INVARIANTS
  BoundsJustified
  AcceptedSound
  UnsatSound
  RestoreExact
PROPERTIES
  NeverLoosened
  ImplementsSearch
