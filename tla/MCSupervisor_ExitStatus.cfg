\* A child's exit status against the loop's exits (kernels that drop a zombie from tasks).
CONSTANTS
  CpuLimit = 2
  RealLimit = 2
  MemLimit = 2
  OutputLimit = 1
  DevWhitelist = TRUE
  CgOptions = TRUE
  PassExitcode = FALSE
  SpawnErrors <- MCSpawnErrors
  ExitCodes <- MCExitCodes
  ChildSignals <- MCChildSignals
  ZombieListed = FALSE
  MaxCpu = 3
  MaxMem = 2
  MaxOut = 2
  MaxTime = 2

SPECIFICATION Spec

PROPERTY ExitStatusReported

\* lrun terminates: a finished run has no successor state.
CHECK_DEADLOCK FALSE
