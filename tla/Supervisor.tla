----------------------------- MODULE Supervisor -----------------------------
(***************************************************************************)
(* The lrun supervisor (src/src/lrun.cc, main from create_cgroup on):      *)
(* cgroup creation and setup, spawning the child, installing the signal    *)
(* handlers, the monitoring loop of run_command, the status report on fd 3 *)
(* and clean_cg_exit.  The loop is split at every sample it takes, so that *)
(* the child, the kernel and signal senders can act between two samples,   *)
(* as they do in the running program.                                      *)
(*                                                                         *)
(* Quantities are abstract units: cpu time and wall time in sampling       *)
(* ticks, memory and output in blocks.  Time is counted from start_time    *)
(* (run_command line 850); nothing before it is read by the code.          *)
(***************************************************************************)
EXTENDS Integers, Sequences

CONSTANTS
  CpuLimit,       \* config.cpu_time_limit   (<= 0: unset, the code uses -1)
  RealLimit,      \* config.real_time_limit  (<= 0: unset)
  MemLimit,       \* config.memory_limit     (<= 0: unset)
  OutputLimit,    \* config.output_limit     (<= 0: unset)
  DevWhitelist,   \* config.enable_devices_whitelist
  CgOptions,      \* config.cgroup_options is not empty
  PassExitcode,   \* config.pass_exitcode
  SpawnErrors,    \* the values <= 0 Cgroup::spawn may return on failure
  ExitCodes,      \* exit codes the child may exit with
  ChildSignals,   \* signals that may end the child on its own (crash, raise)
  ZombieListed,   \* the kernel still lists a zombie in the cgroup's tasks
  MaxCpu, MaxMem, MaxOut, MaxTime   \* bounds of the counters

ASSUME LimitsAssumption ==
  /\ {CpuLimit, RealLimit, MemLimit, OutputLimit} \subseteq Int
  /\ MaxCpu \in Nat /\ MaxMem \in Nat /\ MaxOut \in Nat /\ MaxTime \in Nat

ASSUME BoundsAssumption == MemLimit <= MaxMem

ASSUME ConfigAssumption ==
  /\ {DevWhitelist, CgOptions, PassExitcode, ZombieListed} \subseteq BOOLEAN
  /\ SpawnErrors \subseteq Int /\ \A p \in SpawnErrors : p <= 0
  /\ ExitCodes \subseteq 0..255
  /\ ChildSignals \subseteq 1..126

SIGKILL == 9
SIGXCPU == 24
SIGXFSZ == 25

(***************************************************************************)
(* The wait status as the kernel encodes it, and the <sys/wait.h> macros   *)
(* run_command applies to it.                                              *)
(***************************************************************************)
ExitedStatus(c) == c * 256
KilledStatus(s) == s
WTERMSIG(st) == st % 128
WEXITSTATUS(st) == (st \div 256) % 256
WIFEXITED(st) == WTERMSIG(st) = 0
WIFSIGNALED(st) == WTERMSIG(st) \in 1..126

\* The values of exceeded_limit, and what the EXCEED line may show.  Empty
\* stands for the empty string exceeded_limit starts as.
Empty == "empty"
Limits == {"CPU_TIME", "REAL_TIME", "MEMORY", "OUTPUT"}
Exceeds == {Empty} \cup Limits

Report == [memory : Int, cputime : Int, realtime : Int, signaled : {0, 1},
           exitcode : 0..255, termsig : 0..127, exceed : {"none"} \cup Limits]

LoopLabels == {"signal", "wait", "cpu", "real", "mem", "zombie", "output", "empty"}
Final == {"done", "dead", "fatal"}

VARIABLES
  pc,         \* where the supervisor is
  owned,      \* config.cgname is empty: lrun created the cgroup and destroys it
  pidns,      \* config.enable_pidns: the child is init of a PID namespace
  cg,         \* the cgroup directory: "none", "present" or "removed"
  handlers,   \* setup_signal_handlers has run
  sigFlag,    \* signal_triggered # 0
  child,      \* "none", "running", "zombie" (exited, not reaped), "reaped"
  cstat,      \* the wait status the child exited with
  orphans,    \* descendants of the child remain in the cgroup
  cpu,        \* cpuacct.usage
  peak,       \* memory.max_usage_in_bytes
  out,        \* the output count of the cgroup's tasks
  clock,      \* now() - start_time
  stat,       \* run_command's stat
  running,    \* run_command's loop flag
  exceeded,   \* run_command's exceeded_limit
  fd3,        \* the records written to fd 3
  exitCode    \* the code passed to clean_cg_exit

vars == <<pc, owned, pidns, cg, handlers, sigFlag, child, cstat, orphans,
          cpu, peak, out, clock, stat, running, exceeded, fd3, exitCode>>

cgVars == <<cg, owned, pidns>>
childVars == <<child, cstat, orphans, cpu, peak, out>>
loopVars == <<stat, running, exceeded, fd3, exitCode>>

TypeOK ==
  /\ pc \in {"create", "setup", "spawn", "arm", "report", "cleanup"} \cup LoopLabels \cup Final
  /\ owned \in BOOLEAN /\ pidns \in BOOLEAN
  /\ cg \in {"none", "present", "removed"}
  /\ handlers \in BOOLEAN /\ sigFlag \in BOOLEAN
  /\ child \in {"none", "running", "zombie", "reaped"}
  /\ cstat \in Nat
  /\ orphans \in BOOLEAN
  /\ cpu \in 0..MaxCpu /\ peak \in 0..MaxMem /\ out \in 0..MaxOut
  /\ clock \in 0..MaxTime
  /\ stat \in Nat
  /\ running \in BOOLEAN
  /\ exceeded \in Exceeds
  /\ fd3 \in Seq(Report)
  /\ exitCode \in Int

Init ==
  /\ pc = "create"
  /\ owned \in BOOLEAN
  /\ pidns \in BOOLEAN
  /\ cg = "none"
  /\ handlers = FALSE /\ sigFlag = FALSE
  /\ child = "none" /\ cstat = 0 /\ orphans = FALSE
  /\ cpu = 0 /\ peak = 0 /\ out = 0 /\ clock = 0
  /\ stat = 0 /\ running = TRUE /\ exceeded = Empty /\ fd3 = <<>>
  /\ exitCode = 0

-----------------------------------------------------------------------------
(* Supervisor steps *)

\* clean_cg_exit is entered with the given code.
GoClean(code) == pc' = "cleanup" /\ exitCode' = code

\* create_cgroup: Cgroup::create(cgname), FATAL when it is not valid.
CreateCgroup ==
  /\ pc = "create"
  /\ \/ cg' = "present" /\ pc' = "setup"
     \/ cg' = "none" /\ pc' = "fatal"
  /\ UNCHANGED <<owned, pidns, handlers, sigFlag, childVars, clock, loopVars>>

\* The cgroup writes setup_cgroup may see fail, each with its exit code.
SetupFailures ==
  (IF DevWhitelist THEN {1} ELSE {}) \cup (IF MemLimit > 0 THEN {2} ELSE {})
    \cup (IF CgOptions THEN {7} ELSE {}) \cup {4}

\* setup_cgroup: device whitelist, memory limit, swappiness and oom_control
\* (failing quietly), cgroup options, killall and reset_usages.
SetupCgroup ==
  /\ pc = "setup"
  /\ \/ pc' = "spawn" /\ UNCHANGED exitCode
     \/ \E code \in SetupFailures : GoClean(code)
  /\ cpu' = 0 /\ peak' = 0
  /\ UNCHANGED <<cgVars, handlers, sigFlag, child, cstat, orphans, out, clock,
                 stat, running, exceeded, fd3>>

\* Mutant of Spawn: a spawn error exits with -pid.
SpawnExitNeg ==
  /\ pc = "spawn"
  /\ \/ /\ pc' = "arm" /\ child' = "running"
        /\ UNCHANGED exitCode
     \/ GoClean(5) /\ UNCHANGED child
     \/ \E p \in SpawnErrors : GoClean(-p) /\ UNCHANGED child
  /\ UNCHANGED <<cgVars, handlers, sigFlag, cstat, orphans, cpu, peak, out,
                 clock, stat, running, exceeded, fd3>>

\* run_command up to cg.spawn: FD_CLOEXEC on fd 3 (exit 5 on a failure other
\* than EBADF), then spawn; pid <= 0 exits with 10 - pid.
Spawn ==
  /\ pc = "spawn"
  /\ \/ /\ pc' = "arm" /\ child' = "running"
        /\ UNCHANGED exitCode
     \/ GoClean(5) /\ UNCHANGED child
     \/ \E p \in SpawnErrors : GoClean(10 - p) /\ UNCHANGED child
  /\ UNCHANGED <<cgVars, handlers, sigFlag, cstat, orphans, cpu, peak, out,
                 clock, stat, running, exceeded, fd3>>

\* setup_signal_handlers, nice(-5), start_time and deadline.
Arm ==
  /\ pc = "arm"
  /\ handlers' = TRUE
  /\ pc' = "signal"
  /\ UNCHANGED <<cgVars, sigFlag, childVars, clock, loopVars>>

Deadline == IF RealLimit > 0 THEN RealLimit ELSE -1

\* Loop top: a signal caught by signal_handler ends the run with code 4.
CheckSignal ==
  /\ pc = "signal"
  /\ IF sigFlag THEN GoClean(4) ELSE pc' = "wait" /\ UNCHANGED exitCode
  /\ UNCHANGED <<cgVars, handlers, sigFlag, childVars, clock, stat, running, exceeded, fd3>>

\* Mutant of WaitPid: only a child that exited normally ends the loop.
WaitPidExitedOnly ==
  /\ pc = "wait"
  /\ IF child = "zombie"
       THEN /\ child' = "reaped"
            /\ stat' = IF WIFEXITED(cstat) THEN cstat ELSE 0
            /\ pc' = IF WIFEXITED(cstat) THEN "report" ELSE "cpu"
       ELSE /\ stat' = 0 /\ pc' = "cpu" /\ UNCHANGED child
  /\ UNCHANGED <<cgVars, handlers, sigFlag, cstat, orphans, cpu, peak, out,
                 clock, running, exceeded, fd3, exitCode>>

\* waitpid(pid, &stat, WNOHANG): a reaped child ends the loop (without
\* WUNTRACED every status it returns is WIFEXITED or WIFSIGNALED); otherwise
\* stat is cleared.
WaitPid ==
  /\ pc = "wait"
  /\ IF child = "zombie"
       THEN /\ child' = "reaped" /\ stat' = cstat
            /\ pc' = "report"
       ELSE /\ stat' = 0 /\ pc' = "cpu" /\ UNCHANGED child
  /\ UNCHANGED <<cgVars, handlers, sigFlag, cstat, orphans, cpu, peak, out,
                 clock, running, exceeded, fd3, exitCode>>

\* A check of the loop that breaks with tag when cond holds.
LoopCheck(label, cond, tag, next) ==
  /\ pc = label
  /\ IF cond THEN exceeded' = tag /\ pc' = "report"
             ELSE pc' = next /\ UNCHANGED exceeded
  /\ UNCHANGED <<cgVars, handlers, sigFlag, childVars, clock, stat, running, fd3, exitCode>>

CheckCpu == LoopCheck("cpu", CpuLimit > 0 /\ cpu >= CpuLimit, "CPU_TIME", "real")

CheckReal == LoopCheck("real", Deadline > 0 /\ clock >= Deadline, "REAL_TIME", "mem")

\* Mutant of CheckMemory: the peak compared one block below the limit.
CheckMemoryEarly == LoopCheck("mem", peak >= MemLimit - 1 /\ MemLimit > 0, "MEMORY", "zombie")

CheckMemory == LoopCheck("mem", peak >= MemLimit /\ MemLimit > 0, "MEMORY", "zombie")

\* Mutant of CheckZombie: the state letter misread, every child taken for a zombie.
CheckZombieMisread ==
  /\ pc = "zombie"
  /\ running' = FALSE
  /\ IF child = "zombie" THEN child' = "reaped" /\ stat' = cstat
                          ELSE UNCHANGED <<child, stat>>
  /\ pc' = "output"
  /\ UNCHANGED <<cgVars, handlers, sigFlag, cstat, orphans, cpu, peak, out,
                 clock, exceeded, fd3, exitCode>>

\* get_process_state(pid) == 'Z': the loop ends after this iteration and
\* waitpid reaps the child once more.
CheckZombie ==
  /\ pc = "zombie"
  /\ IF child = "zombie"
       THEN running' = FALSE /\ child' = "reaped" /\ stat' = cstat
       ELSE UNCHANGED <<running, child, stat>>
  /\ pc' = "output"
  /\ UNCHANGED <<cgVars, handlers, sigFlag, cstat, orphans, cpu, peak, out,
                 clock, exceeded, fd3, exitCode>>

\* Mutant of CheckOutput: the output limit tested with >= instead of >.
CheckOutputGe == LoopCheck("output", OutputLimit > 0 /\ out >= OutputLimit, "OUTPUT", "empty")

CheckOutput == LoopCheck("output", OutputLimit > 0 /\ out > OutputLimit, "OUTPUT", "empty")

\* The cgroup's task set as Cgroup::empty sees it.
TasksEmpty ==
  /\ ~orphans
  /\ child # "running"
  /\ ~(ZombieListed /\ child = "zombie")

\* cg.empty() ends the loop after this iteration; then usleep and loop test.
CheckEmpty ==
  /\ pc = "empty"
  /\ running' = (running /\ ~TasksEmpty)
  /\ pc' = IF running' THEN "signal" ELSE "report"
  /\ UNCHANGED <<cgVars, handlers, sigFlag, childVars, clock, stat, exceeded, fd3, exitCode>>

\* The checks after the loop, in the order run_command makes them; each one
\* that holds overwrites exceeded_limit and clamps the figure it reports.
PostMemHit == MemLimit > 0 /\ peak >= MemLimit
PostCpuHit == (WIFSIGNALED(stat) /\ WTERMSIG(stat) = SIGXCPU) \/ (CpuLimit > 0 /\ cpu >= CpuLimit)
PostFszHit == WIFSIGNALED(stat) /\ WTERMSIG(stat) = SIGXFSZ
\* Mutant of PostRealHit: the wall time is not checked after the loop.
PostRealHitDropped == FALSE

PostRealHit == RealLimit > 0 /\ clock >= RealLimit

FinalTag ==
  IF PostRealHit THEN "REAL_TIME" ELSE IF PostFszHit THEN "OUTPUT"
  ELSE IF PostCpuHit THEN "CPU_TIME" ELSE IF PostMemHit THEN "MEMORY"
  ELSE exceeded

\* The EXCEED field: an empty exceeded_limit is printed as "none".
\* Mutant of ExceedName: an empty tag printed as it is.
ExceedNameRaw(tag) == tag

ExceedName(tag) == IF tag = Empty THEN "none" ELSE tag

\* The record snprintf formats into status_report.
StatusRecord ==
  [memory |-> IF PostMemHit THEN MemLimit ELSE peak,
   cputime |-> IF PostCpuHit THEN CpuLimit ELSE cpu,
   realtime |-> IF PostRealHit THEN RealLimit ELSE clock,
   signaled |-> IF WIFSIGNALED(stat) THEN 1 ELSE 0,
   exitcode |-> WEXITSTATUS(stat),
   termsig |-> WTERMSIG(stat),
   exceed |-> ExceedName(FinalTag)]

\* After the loop: the record written to fd 3, then clean_cg_exit with 0 or,
\* with --pass-exitcode, the child's exit status.
WriteReport ==
  /\ pc = "report"
  /\ fd3' = Append(fd3, StatusRecord)
  /\ GoClean(IF PassExitcode THEN WEXITSTATUS(stat) ELSE 0)
  /\ UNCHANGED <<cgVars, handlers, sigFlag, childVars, clock, stat, running, exceeded>>

\* clean_cg_exit: destroy an owned cgroup, killall a borrowed one, exit.
\* Killing the tasks leaves the child a zombie of SIGKILL.
CleanCgExit ==
  /\ pc = "cleanup"
  /\ cg' = IF owned THEN "removed" ELSE cg
  /\ orphans' = FALSE
  /\ IF child = "running"
       THEN child' = "zombie" /\ cstat' = KilledStatus(SIGKILL)
       ELSE UNCHANGED <<child, cstat>>
  /\ pc' = "done"
  /\ UNCHANGED <<owned, pidns, handlers, sigFlag, cpu, peak, out, clock, loopVars>>

-----------------------------------------------------------------------------
(* The environment: signals to lrun, the child, the kernel, the clock. *)

\* A signal (HUP, INT, TERM, ...) to lrun: caught once setup_signal_handlers
\* has run, otherwise its default action terminates lrun on the spot.
ExternalSignal ==
  /\ pc \notin Final
  /\ IF handlers THEN sigFlag' = TRUE /\ UNCHANGED pc
                 ELSE pc' = "dead" /\ UNCHANGED sigFlag
  /\ UNCHANGED <<cgVars, handlers, childVars, clock, loopVars>>

\* The child ends with wait status st; as init of a PID namespace its death
\* takes its descendants with it.
ChildEnds(st) ==
  /\ child' = "zombie" /\ cstat' = st
  /\ orphans' = (orphans /\ ~pidns)

ChildStep ==
  /\ child = "running"
  /\ \/ cpu < MaxCpu /\ cpu' = cpu + 1 /\ UNCHANGED <<child, cstat, orphans, peak, out>>
     \/ /\ peak < (IF MemLimit > 0 THEN MemLimit ELSE MaxMem)
        /\ peak' = peak + 1 /\ UNCHANGED <<child, cstat, orphans, cpu, out>>
     \/ out < MaxOut /\ out' = out + 1 /\ UNCHANGED <<child, cstat, orphans, cpu, peak>>
     \/ orphans' = TRUE /\ UNCHANGED <<child, cstat, cpu, peak, out>>
     \/ \E c \in ExitCodes : ChildEnds(ExitedStatus(c)) /\ UNCHANGED <<cpu, peak, out>>
     \/ \E s \in ChildSignals : ChildEnds(KilledStatus(s)) /\ UNCHANGED <<cpu, peak, out>>
  /\ UNCHANGED <<pc, cgVars, handlers, sigFlag, clock, loopVars>>

\* Descendants left in the cgroup exit.
OrphansExit ==
  /\ orphans
  /\ orphans' = FALSE
  /\ UNCHANGED <<pc, cgVars, handlers, sigFlag, child, cstat, cpu, peak, out, clock, loopVars>>

\* The kernel enforces what setup_cgroup and the rlimits configured: RLIMIT_CPU
\* (ceil of the cpu limit), the memory cgroup's OOM killer, RLIMIT_FSIZE.
KernelKill ==
  /\ child = "running"
  /\ \/ CpuLimit > 0 /\ cpu >= CpuLimit /\ \E s \in {SIGXCPU, SIGKILL} : ChildEnds(KilledStatus(s))
     \/ MemLimit > 0 /\ peak = MemLimit /\ ChildEnds(KilledStatus(SIGKILL))
     \/ OutputLimit > 0 /\ out >= OutputLimit /\ ChildEnds(KilledStatus(SIGXFSZ))
  /\ UNCHANGED <<pc, cgVars, handlers, sigFlag, cpu, peak, out, clock, loopVars>>

\* Wall time passes while lrun watches the child.
Tick ==
  /\ handlers /\ pc \notin Final
  /\ clock < MaxTime
  /\ clock' = clock + 1
  /\ UNCHANGED <<pc, cgVars, handlers, sigFlag, childVars, loopVars>>

-----------------------------------------------------------------------------

SupervisorStep ==
  \/ CreateCgroup \/ SetupCgroup \/ Spawn \/ Arm
  \/ CheckSignal \/ WaitPid \/ CheckCpu \/ CheckReal \/ CheckMemory
  \/ CheckZombie \/ CheckOutput \/ CheckEmpty \/ WriteReport \/ CleanCgExit

Environment == ExternalSignal \/ ChildStep \/ OrphansExit \/ KernelKill \/ Tick

Next == SupervisorStep \/ Environment

\* lrun runs on its own: its steps are weakly fair.  The child, the kernel,
\* the clock and whoever sends signals are not.
Spec == Init /\ [][Next]_vars /\ WF_vars(SupervisorStep)

-----------------------------------------------------------------------------
(* Properties *)

\* A step of the supervisor that writes the status record, and that record.
ReportStep == pc = "report" /\ pc' = "cleanup"
Written == fd3'[Len(fd3')]

ChildSignaledBy(s) == WIFSIGNALED(stat) /\ WTERMSIG(stat) = s

\* Every EXCEED tag lrun writes is backed by the run: the cpu counter or a
\* SIGXCPU death for CPU_TIME, the memory peak for MEMORY, the output count or
\* a SIGXFSZ death for OUTPUT, the wall clock for REAL_TIME.  The tag is set by
\* the loop from one sample and rewritten after it from later ones.
ExceedSound ==
  \A i \in DOMAIN fd3 :
    /\ fd3[i].exceed = "CPU_TIME" =>
         (CpuLimit > 0 /\ cpu >= CpuLimit) \/ ChildSignaledBy(SIGXCPU)
    /\ fd3[i].exceed = "MEMORY" => MemLimit > 0 /\ peak >= MemLimit
    /\ fd3[i].exceed = "OUTPUT" =>
         (OutputLimit > 0 /\ out > OutputLimit) \/ ChildSignaledBy(SIGXFSZ)
    /\ fd3[i].exceed = "REAL_TIME" => RealLimit > 0 /\ clock >= RealLimit

\* Why ExceedSound holds in every state, not only in those TLC visits.  The
\* cpu and memory counters are reset by setup_cgroup (reset_usages) before
\* run_command starts, so no tag is set before the loop; the record is
\* written once, from the report step, after which nothing the loop reads
\* is changed again; and a tag the loop sets stays backed by its counter,
\* which only grows after the reset.
Phase ==
  /\ pc \in {"create", "setup", "spawn", "arm"} => exceeded = Empty
  /\ pc \in LoopLabels \cup {"report"} => handlers
  /\ fd3 # <<>> => pc \in {"cleanup", "done"} /\ handlers

\* Each tag the loop can set is backed by the sample that set it.
TagBacked ==
  /\ exceeded = "CPU_TIME" => CpuLimit > 0 /\ cpu >= CpuLimit
  /\ exceeded = "MEMORY" => MemLimit > 0 /\ peak >= MemLimit
  /\ exceeded = "OUTPUT" => OutputLimit > 0 /\ out > OutputLimit
  /\ exceeded = "REAL_TIME" => RealLimit > 0 /\ clock >= RealLimit

\* The loop flag is cleared, and the loop left without a tag, only once the
\* child has terminated: the zombie probe, waitpid and cg.empty() are the
\* only ways out of run_command's loop that set no tag.
EndBacked ==
  /\ pc \in {"create", "setup", "spawn", "arm"} => running
  /\ ~running => child # "running"
  /\ pc = "report" /\ exceeded = Empty => child # "running"

\* The inductive strengthening of ExceedSound and FinishedWhenNone: the tag exceeded_limit holds
\* in run_command is backed by the counter its loop check read, no tag is
\* set before the usage counters are reset, and fd 3 is written only on the
\* way to clean_cg_exit.
IInv == TypeOK /\ Phase /\ TagBacked /\ EndBacked /\ ExceedSound

LimitReached ==
  \/ CpuLimit > 0 /\ cpu >= CpuLimit
  \/ MemLimit > 0 /\ peak >= MemLimit
  \/ RealLimit > 0 /\ clock >= RealLimit

\* A run that reached its cpu, memory or wall-time limit is never reported
\* with EXCEED none, however the loop ended (reaped child, zombie, empty
\* cgroup or a limit noticed by an earlier sample).
ReportComplete ==
  [][(ReportStep /\ LimitReached) => Written.exceed # "none"]_vars

\* A record with EXCEED none, which says the command ran to its end, is only
\* written once the child process has terminated.
FinishedWhenNone ==
  [][ReportStep /\ Written.exceed = "none" => child # "running"]_vars

\* The status lrun's parent sees: exit(3) in clean_cg_exit keeps the low
\* eight bits of the code.
ExitStatus == exitCode % 256

\* lrun exits with status 0 only after it wrote the status record to fd 3:
\* every setup, spawn and signal path ends with a nonzero status once the
\* code is cut to eight bits (spec section 7: 0 means the report was written).
ZeroExitReported == pc = "done" /\ ExitStatus = 0 => fd3 # << >>

\* Once the child has terminated, lrun goes on to exit, whatever descendants
\* it left behind and however much (or little) time passes.
ChildExitEnds == child \in {"zombie", "reaped"} ~> pc \in Final

\* A record with EXCEED none shows the wait status of the child, which has
\* terminated by then (spec: child termination is always reported, and its
\* exit disposition is on the status channel).
ExitStatusReported ==
  [][ReportStep /\ Written.exceed = "none" =>
       /\ Written.signaled = (IF WIFSIGNALED(cstat) THEN 1 ELSE 0)
       /\ Written.exitcode = WEXITSTATUS(cstat)
       /\ Written.termsig = WTERMSIG(cstat)]_vars

ExceedAttribution ==
  [][ReportStep =>
       Written.exceed = ExceedName(IF ChildSignaledBy(SIGXCPU) THEN "CPU_TIME"
                                   ELSE IF ChildSignaledBy(SIGXFSZ) THEN "OUTPUT"
                                   ELSE exceeded)]_vars

\* CPUTIME reports cpu seconds the command used: never negative, never more
\* than cpuacct.usage.
CpuTimeSane == \A i \in DOMAIN fd3 : 0 <= fd3[i].cputime /\ fd3[i].cputime <= cpu

-----------------------------------------------------------------------------
(* Refinement: one run of lrun implements the contract of LrunContract.    *)
(* create_cgroup to setup_signal_handlers prepare the run, run_command's    *)
(* loop and report step watch it, clean_cg_exit is the way out.  The child *)
(* is the command; the records on fd 3 are the reports; the status is the  *)
(* code passed to clean_cg_exit, cut to eight bits.                        *)

RunStage ==
    CASE pc \in {"create", "setup", "spawn", "arm"} -> "prepare"
      [] pc \in LoopLabels \cup {"report"} -> "watch"
      [] pc = "cleanup" -> "exit"
      [] pc = "fatal" -> "failed"
      [] pc = "done" -> "done"
      [] OTHER -> "dead"

CmdState ==
    CASE child = "none" -> "none"
      [] child = "running" -> "running"
      [] OTHER -> "ended"

Verdict ==
    IF fd3 = << >> THEN "unset"
    ELSE IF fd3[1].exceed = "none" THEN "finished" ELSE "exceeded"

\* The child exists exactly from the spawn on: setup_cgroup and the spawn
\* run before it, and the handlers, the loop and the report after it.
ChildPhase ==
    /\ pc \in {"create", "setup", "spawn"} => child = "none"
    /\ pc \in {"arm", "report"} \cup LoopLabels => child # "none"

Contract == INSTANCE LrunContract
              WITH stage <- RunStage, cmd <- CmdState, reports <- Len(fd3),
                   verdict <- Verdict, status <- ExitStatus

\* The supervisor keeps lrun's contract with its caller: it writes at most one
\* status report, says the command finished only once the child has ended,
\* exits with a nonzero status on every path without a report, and leaves
\* the watch of a child that has ended.
ContractSpec == Contract!Spec
=============================================================================
