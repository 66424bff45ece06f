SPECIFICATION Spec
CONSTANTS
  u1 = u1
  u2 = u2
  Units = {u1}
  Faulty = {3}
  HostCmds <- AnyCmds
  DiagCmds <- OneChannel
  ERRORS_MAX = 2
  Forwarding = TRUE
  LevelIrq = TRUE
INVARIANTS
  ModeInv
