---------------------------- MODULE LrunContract ----------------------------
(***************************************************************************)
(* What one run of lrun promises its caller (spec: "When the command      *)
(* terminates (or is killed for exceeding a limit), the supervisor reports *)
(* accounting data and the child's exit disposition on a dedicated status  *)
(* channel"; exit status 0 means the report was written).                  *)
(*                                                                         *)
(* lrun prepares the command's cgroup and starts the command, watches it,  *)
(* writes at most one status report, and exits with a status, or fails    *)
(* before it starts the command.  The report says the command finished    *)
(* only once it has ended; otherwise it names a limit.  An error or a      *)
(* caught signal ends the run with a nonzero status and no report.  Until  *)
(* lrun watches, and on its way out before a report, a signal may kill it. *)
(*                                                                         *)
(* The module Supervisor, which follows main, run_command and             *)
(* clean_cg_exit, implements this specification.                           *)
(***************************************************************************)
EXTENDS Naturals

VARIABLES
    stage,     \* where the run is
    cmd,       \* the command: "none" (not started), "running", "ended"
    reports,   \* how many status reports were written
    verdict,   \* what the report says: "unset", "finished" or "exceeded"
    status     \* the exit status lrun leaves (its low eight bits)

vars == <<stage, cmd, reports, verdict, status>>

Stages == {"prepare", "watch", "exit", "done", "dead", "failed"}

TypeOK ==
    /\ stage \in Stages
    /\ cmd \in {"none", "running", "ended"}
    /\ reports \in Nat
    /\ verdict \in {"unset", "finished", "exceeded"}
    /\ status \in 0..255

Init ==
    /\ stage = "prepare"
    /\ cmd = "none"
    /\ reports = 0
    /\ verdict = "unset"
    /\ status = 0

\* The command is started.
Start ==
    /\ stage = "prepare"
    /\ cmd = "none"
    /\ cmd' = "running"
    /\ UNCHANGED <<stage, reports, verdict, status>>

\* lrun starts watching the command it started.
Watch ==
    /\ stage = "prepare"
    /\ cmd # "none"
    /\ stage' = "watch"
    /\ UNCHANGED <<cmd, reports, verdict, status>>

\* Preparing fails before the command starts, and lrun stops on the spot.
Fatal ==
    /\ stage = "prepare"
    /\ cmd = "none"
    /\ stage' = "failed"
    /\ UNCHANGED <<cmd, reports, verdict, status>>

\* Preparing fails: lrun leaves with a nonzero status and no report.
Fail ==
    /\ stage = "prepare"
    /\ stage' = "exit"
    /\ status' \in 1..255
    /\ UNCHANGED <<cmd, reports, verdict>>

\* The report is written: a finished run only once the command has ended.
Report(v) ==
    /\ stage = "watch"
    /\ v = "finished" => cmd # "running"
    /\ reports' = reports + 1
    /\ verdict' = v
    /\ stage' = "exit"
    /\ status' \in 0..255
    /\ UNCHANGED cmd

\* A caught signal ends the watch with a nonzero status and no report.
Abort ==
    /\ stage = "watch"
    /\ stage' = "exit"
    /\ status' \in 1..255
    /\ UNCHANGED <<cmd, reports, verdict>>

\* lrun leaves: whatever is left of the command is killed.
Leave ==
    /\ stage = "exit"
    /\ stage' = "done"
    /\ cmd' = IF cmd = "running" THEN "ended" ELSE cmd
    /\ UNCHANGED <<reports, verdict, status>>

\* A signal kills lrun before it watches, or on its way out without a report.
Die ==
    /\ stage \in {"prepare", "exit"}
    /\ reports = 0
    /\ stage' = "dead"
    /\ UNCHANGED <<cmd, reports, verdict, status>>

\* The command ends on its own or is killed by the kernel.
End ==
    /\ cmd = "running"
    /\ cmd' = "ended"
    /\ UNCHANGED <<stage, reports, verdict, status>>

Next ==
    \/ Start \/ Watch \/ Fatal \/ Fail \/ \E v \in {"finished", "exceeded"} : Report(v)
    \/ Abort \/ Leave \/ Die \/ End

\* The steps lrun takes once nothing but itself holds it up: it prepares,
\* it ends the watch of a command that has ended, and it leaves.
Progress ==
    \/ Start \/ Watch \/ Fatal \/ Fail \/ Leave
    \/ cmd = "ended" /\ (Abort \/ \E v \in {"finished", "exceeded"} : Report(v))

SafeSpec == Init /\ [][Next]_vars

\* lrun goes on by itself; the command may run forever, and so may the watch.
Spec == SafeSpec /\ WF_vars(Progress)

-----------------------------------------------------------------------------
(* Properties *)

\* At most one status report is written; a report saying the command
\* finished is backed by its end; and status 0 after lrun leaves means the
\* report was written.
Honest ==
    /\ reports <= 1
    /\ verdict = "finished" => cmd = "ended"
    /\ stage = "done" /\ status = 0 => reports = 1

\* The inductive invariant of Honest.
ContractInv ==
    /\ TypeOK
    /\ stage \in {"prepare", "watch"} => reports = 0 /\ status = 0 /\ verdict = "unset"
    /\ stage \in {"prepare", "failed"} => reports = 0
    /\ stage \in {"watch"} => cmd # "none"
    /\ reports <= 1
    /\ reports = 0 <=> verdict = "unset"
    /\ verdict = "finished" => cmd = "ended"
    /\ stage \in {"exit", "done"} /\ status = 0 => reports = 1
====
