CONSTANTS
  NumVariables = 5
  F <- TwoPairs
  B <- TwoB
  Values <- Small
  Preprocessed <- Thresholds
  UseConflictAnalysis = TRUE
  Queries <- NetworkQueries
  Equations <- AbsoluteValue
  Multipliers <- Units
SPECIFICATION RowSpec
INVARIANTS
  UnsatSound
