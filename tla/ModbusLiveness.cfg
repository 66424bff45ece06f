CONSTANTS
  Room = 1
  Preamble = 1
  Word = 1
  Trailer = 1
  Reply = 2
  Depth = 3
  Channels = {1}
  MaxRun = 2
  Stalls = FALSE
SPECIFICATION LiveSpec
PROPERTIES ReplySent DeafnessEnds ScopeStops
