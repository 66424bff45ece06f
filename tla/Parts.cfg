SPECIFICATION PartsSpec
CONSTANTS
  Count = 5
  Table <- MCTable
  BITS = 2
  Polled = TRUE
  Chip = TRUE
  Faulty = TRUE
  Defaults <- MCDefaults
  Passwords = {1717, 0}
  Shipped <- MCShipped
  MAX_READ = 4
  MAX_WRITE = 2
  MAX_PDU = 12
  Hosts <- MCHosts
  LOG_MAX = 3
  Causes = {"BUS_MAX", "IMAX"}
  FLT = "FLT"
  NOERR = "NOERR"
  SIZE = 3
  Items <- Samples
  CLOCK = 4
  CHANNELS = 2
  STEPS = {1, 2}
  RUNS = {2}
  TIMES = 16
  SYSTICK = 2
  PERIOD = 1
  WINDOWS = {1, 2, 3}
  FIRST = 2
  SPAN = 6
  LATE = 4
INVARIANTS
  PartsTypeOK
  LimitsHeld
  DescribedWhole
  StatusTrue
  LogConsistent
  LogSpeaks
  Aligned
  NeverEarly
PROPERTIES
  AccessHeld
  WritesTold
  ClockTold
  LogIsAtomic
