---------------------------- MODULE MCSupervisor ----------------------------
(***************************************************************************)
(* Small instances of Supervisor for TLC.                                  *)
(***************************************************************************)
EXTENDS Supervisor

\* Two failure returns of Cgroup::spawn: exit codes 10 and 11.
MCSpawnErrors == {0, -1}

\* A clean exit and a failing one.
MCExitCodes == {0, 1}

\* A crash (SIGSEGV) and a SIGXCPU the command raises itself.
MCChildSignals == {11, 24}

\* The value init_default_config gives an unset limit.
MCUnset == -1
=============================================================================
