SPECIFICATION ScopeSpec
CONSTANTS
  SIZE = 4
  Items <- Samples
  CLOCK = 8
  CHANNELS = 1
  STEPS = {1}
  RUNS = {2}
PROPERTY LossTold
