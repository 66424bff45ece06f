SPECIFICATION FairSpec
CONSTANTS
  u1 = u1
  u2 = u2
  Units = {u1}
  Faulty = {3}
  HostCmds <- OneCmd
  DiagCmds <- NoDiagGates
  ERRORS_MAX = 1
  Forwarding = FALSE
  LevelIrq = TRUE
PROPERTIES
  OverloadCaught
  FaultCutsOutputs
  ReachesRun
