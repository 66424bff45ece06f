SPECIFICATION Spec
CONSTANTS
  u1 = u1
  u2 = u2
  Units = {u1, u2}
  Faulty = {3}
  HostCmds <- AnyCmds
  DiagCmds <- OneChannel
  ERRORS_MAX = 1
  Forwarding = FALSE
  LevelIrq = FALSE
INVARIANTS
  TypeOK
  OutputsSettle
  DiagUntripped
  FaultHasCause
  ReadyIsFit
  HalvesAgree
  RunsFresh
PROPERTIES
  FaultHeld
  RunArmed
