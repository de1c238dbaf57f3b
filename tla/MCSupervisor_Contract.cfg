\* All four limits set, each reachable within its counter's bound; with
\* --pass-exitcode lrun leaves with the status of the child.
CONSTANTS
  CpuLimit = 2
  RealLimit = 2
  MemLimit = 2
  OutputLimit = 1
  DevWhitelist = TRUE
  CgOptions = TRUE
  PassExitcode = TRUE
  SpawnErrors <- MCSpawnErrors
  ExitCodes <- MCExitCodes
  ChildSignals <- MCChildSignals
  ZombieListed = FALSE
  MaxCpu = 3
  MaxMem = 2
  MaxOut = 2
  MaxTime = 2

SPECIFICATION Spec

PROPERTY ContractSpec

\* lrun terminates: a finished run has no successor state.
CHECK_DEADLOCK FALSE
