CONSTANTS
  Room = 1
  Preamble = 1
  Word = 1
  Trailer = 1
  Reply = 1
  Depth = 2
  Channels = {1}
  MaxRun = 2
  Stalls = FALSE
SPECIFICATION Spec
PROPERTY ResetWaits
