SPECIFICATION Spec
CONSTANTS
  SIZE = 3
  Items = {0, 1}
  Zero = 0
  IndexFirst = FALSE
INVARIANTS
  TypeOK
PROPERTIES
  RxIsQueue
  TxIsQueue
