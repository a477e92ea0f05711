SPECIFICATION Spec
CONSTANTS
  LastLayer = 3
  LayerSize <- Layers
  Networks <- SomeNetworks
  InputRange <- Interval
  Delta = 1
  MaxSignals = 0
INVARIANTS
  UnsatMeansRobust
