CONSTANTS
  Room = 3
  Preamble = 3
  Word = 2
  Trailer = 2
  Reply = 4
  Depth = 3
  Channels = {1, 2}
  MaxRun = 2
  Stalls = FALSE
SPECIFICATION Spec
INVARIANTS TypeOK OneTalker SendingIsDriven
PROPERTIES ReplySpared ReplyFirst
