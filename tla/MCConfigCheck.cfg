CONSTANTS
    Argvs <- MCArgvs
    Callers <- MCCallers
    Cwd <- MCCwd
    Accessible <- MCAccessible
    Bits <- MCBits
INIT Init
NEXT Next
INVARIANT TypeOK BindsCheckedReadable NonRootConfined
CHECK_DEADLOCK FALSE
