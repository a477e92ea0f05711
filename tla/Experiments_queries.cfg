SPECIFICATION Spec
CONSTANTS
  LastLayer = 3
  LayerSize <- Layers
  Networks <- SomeNetworks
  InputRange <- Interval
  Delta = 1
  MaxSignals = 1
INVARIANTS
  EncodesNetwork
  SolutionsKept
  InitializeSucceeds
  ReadyToSolve
  LogIsRight
  RobustnessDecided
