SPECIFICATION Spec
CONSTANTS
  Size = 4
  Modulus = 4
  MaxOperations = 2
  NULL = NULL
  Entry <- Addresses
  Weight <- Weights
  GlpkWeight <- GlpkWeights
  InitialBasic <- Basics
  Pairs <- OnePair
INVARIANTS TableauTypeOK ListsLinked CellsUnique CursorsLive SizesRight
PROPERTIES ImplementsMatrix LoopsEnd
CHECK_DEADLOCK FALSE
