CONSTANTS
    Argvs <- MCArgvs
    Callers <- MCCallers
    Cwd <- MCCwd
    Accessible <- MCAccessible
    Bits <- MCBits
INIT Init
NEXT Next
INVARIANT RootOnlyRejected
CHECK_DEADLOCK FALSE
