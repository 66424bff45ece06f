SPECIFICATION Spec
CONSTANTS
  SIZE = 4
  Items = {0}
  Zero = 0
  IndexFirst = TRUE
PROPERTIES
  RxIsQueue
  TxIsQueue
