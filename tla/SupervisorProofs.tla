-------------------------- MODULE SupervisorProofs --------------------------
(***************************************************************************)
(* Proofs about the lrun supervisor model, for every value of the          *)
(* constants that satisfies the module's assumptions.                      *)
(***************************************************************************)
EXTENDS Supervisor, TLAPS

USE LimitsAssumption, BoundsAssumption, ConfigAssumption
USE DEF LoopLabels, Final, Exceeds, Limits, Empty

\* The wait-status macros map a status to the ranges the record prints.
LEMMA StatusDecode ==
  ASSUME NEW st \in Nat
  PROVE  /\ WTERMSIG(st) \in 0..127
         /\ WEXITSTATUS(st) \in 0..255
         /\ WIFSIGNALED(st) \in BOOLEAN
  BY DEF WTERMSIG, WEXITSTATUS, WIFSIGNALED

\* The statuses a child may end with are wait statuses: natural numbers.
LEMMA ChildStatusType ==
  /\ \A c \in ExitCodes : ExitedStatus(c) \in Nat
  /\ \A sg \in ChildSignals : KilledStatus(sg) \in Nat
<1>1. \A c \in ExitCodes : c \in 0..255
  BY ConfigAssumption
<1>2. \A sg \in ChildSignals : sg \in 1..126
  BY ConfigAssumption
<1>3. QED
  BY <1>1, <1>2 DEF ExitedStatus, KilledStatus

\* The record WriteReport appends has the type of a status record.
LEMMA StatusRecordType ==
  TypeOK => StatusRecord \in Report
<1> SUFFICES ASSUME TypeOK PROVE StatusRecord \in Report
  OBVIOUS
<1>1. stat \in Nat
  BY DEF TypeOK
<1>2. FinalTag \in Exceeds
  BY DEF TypeOK, FinalTag, Exceeds
<1>3. ExceedName(FinalTag) \in {"none"} \cup Limits
  BY <1>2 DEF ExceedName, Exceeds
<1>4. QED
  BY <1>1, <1>3, StatusDecode
  DEF StatusRecord, Report, TypeOK

(***************************************************************************)
(* TypeOK split in two: the flags, which Zenon handles, and the rest, for  *)
(* the SMT solver (which cannot derive x \in BOOLEAN from x = FALSE).      *)
(***************************************************************************)
FlagsOK ==
  /\ owned \in BOOLEAN /\ pidns \in BOOLEAN /\ handlers \in BOOLEAN
  /\ sigFlag \in BOOLEAN /\ orphans \in BOOLEAN /\ running \in BOOLEAN

DataOK ==
  /\ pc \in {"create", "setup", "spawn", "arm", "report", "cleanup"} \cup LoopLabels \cup Final
  /\ cg \in {"none", "present", "removed"}
  /\ child \in {"none", "running", "zombie", "reaped"}
  /\ cstat \in Nat
  /\ cpu \in 0..MaxCpu /\ peak \in 0..MaxMem /\ out \in 0..MaxOut
  /\ clock \in 0..MaxTime
  /\ stat \in Nat
  /\ exceeded \in Exceeds
  /\ fd3 \in Seq(Report)
  /\ exitCode \in Int

LEMMA TypeSplit == TypeOK <=> FlagsOK /\ DataOK
  BY Zenon DEF TypeOK, FlagsOK, DataOK

\* No step gives a flag a value other than TRUE or FALSE.
LEMMA FlagsStep == TypeOK /\ [Next]_vars => FlagsOK'
<1> SUFFICES ASSUME TypeOK, [Next]_vars PROVE FlagsOK'
  OBVIOUS
<1> USE DEF TypeOK, FlagsOK, cgVars, childVars, loopVars
<1>1. CASE CreateCgroup
  BY <1>1, Zenon DEF CreateCgroup
<1>2. CASE SetupCgroup
  BY <1>2, Zenon DEF SetupCgroup, GoClean
<1>3. CASE Spawn
  BY <1>3, Zenon DEF Spawn, GoClean
<1>4. CASE Arm
  BY <1>4, Zenon DEF Arm
<1>5. CASE CheckSignal
  BY <1>5, Zenon DEF CheckSignal, GoClean
<1>6. CASE WaitPid
  BY <1>6, Zenon DEF WaitPid
<1>7. CASE CheckCpu \/ CheckReal \/ CheckMemory \/ CheckOutput
  BY <1>7, Zenon DEF CheckCpu, CheckReal, CheckMemory, CheckOutput, LoopCheck
<1>8. CASE CheckZombie
  BY <1>8, Zenon DEF CheckZombie
<1>9. CASE CheckEmpty
  BY <1>9, Zenon DEF CheckEmpty
<1>10. CASE WriteReport
  BY <1>10, Zenon DEF WriteReport, GoClean
<1>11. CASE CleanCgExit
  BY <1>11, Zenon DEF CleanCgExit
<1>12. CASE ExternalSignal
  BY <1>12, Zenon DEF ExternalSignal
<1>13. CASE ChildStep
  BY <1>13, Zenon DEF ChildStep, ChildEnds
<1>14. CASE OrphansExit
  BY <1>14, Zenon DEF OrphansExit
<1>15. CASE KernelKill
  BY <1>15, Zenon DEF KernelKill, ChildEnds
<1>16. CASE Tick
  BY <1>16, Zenon DEF Tick
<1>17. CASE UNCHANGED vars
  BY <1>17, Zenon DEF vars
<1>18. QED
  BY <1>1, <1>2, <1>3, <1>4, <1>5, <1>6, <1>7, <1>8, <1>9, <1>10, <1>11,
     <1>12, <1>13, <1>14, <1>15, <1>16, <1>17
  DEF Next, SupervisorStep, Environment

\* No step takes a counter out of its bounds, a label out of its set, or
\* writes a record of another shape to fd 3.
LEMMA DataStep == TypeOK /\ [Next]_vars => DataOK'
<1> SUFFICES ASSUME TypeOK, [Next]_vars PROVE DataOK'
  OBVIOUS
<1> USE DEF TypeOK, DataOK, cgVars, childVars, loopVars
<1>1. CASE CreateCgroup
  BY <1>1 DEF CreateCgroup
<1>2. CASE SetupCgroup
  BY <1>2 DEF SetupCgroup, SetupFailures, GoClean
<1>3. CASE Spawn
  BY <1>3 DEF Spawn, GoClean
<1>4. CASE Arm
  BY <1>4 DEF Arm
<1>5. CASE CheckSignal
  BY <1>5 DEF CheckSignal, GoClean
<1>6. CASE WaitPid
  BY <1>6 DEF WaitPid
<1>7. CASE CheckCpu \/ CheckReal \/ CheckMemory \/ CheckOutput
  <2>1. CASE CheckCpu
    BY <2>1 DEF CheckCpu, LoopCheck
  <2>2. CASE CheckReal
    BY <2>2 DEF CheckReal, LoopCheck
  <2>3. CASE CheckMemory
    BY <2>3 DEF CheckMemory, LoopCheck
  <2>4. CASE CheckOutput
    BY <2>4 DEF CheckOutput, LoopCheck
  <2>5. QED
    BY <1>7, <2>1, <2>2, <2>3, <2>4
<1>8. CASE CheckZombie
  BY <1>8 DEF CheckZombie
<1>9. CASE CheckEmpty
  BY <1>9 DEF CheckEmpty
<1>10. CASE WriteReport
  <2>1. fd3' \in Seq(Report)
    BY <1>10, StatusRecordType DEF WriteReport
  <2>2. exitCode' \in Int
    <3>1. WEXITSTATUS(stat) \in Int
      BY DEF WEXITSTATUS
    <3>2. QED
      BY <1>10, <3>1 DEF WriteReport, GoClean
  <2>3. QED
    BY <1>10, <2>1, <2>2 DEF WriteReport, GoClean
<1>11. CASE CleanCgExit
  BY <1>11 DEF CleanCgExit, KilledStatus, SIGKILL
<1>12. CASE ExternalSignal
  BY <1>12 DEF ExternalSignal
<1>13. CASE ChildStep
  <2>1. \A st \in Nat : ChildEnds(st) /\ UNCHANGED <<cpu, peak, out>>
                         /\ UNCHANGED <<pc, cgVars, handlers, sigFlag, clock, loopVars>>
                         => DataOK'
    BY DEF ChildEnds
  <2>2. \A c \in ExitCodes : ExitedStatus(c) \in Nat
    BY ChildStatusType
  <2>3. \A sg \in ChildSignals : KilledStatus(sg) \in Nat
    BY ChildStatusType
  <2>4. CASE \E c \in ExitCodes : ChildEnds(ExitedStatus(c)) /\ UNCHANGED <<cpu, peak, out>>
    BY <1>13, <2>1, <2>2, <2>4 DEF ChildStep
  <2>5. CASE \E sg \in ChildSignals : ChildEnds(KilledStatus(sg)) /\ UNCHANGED <<cpu, peak, out>>
    BY <1>13, <2>1, <2>3, <2>5 DEF ChildStep
  <2>6. CASE cpu < MaxCpu /\ cpu' = cpu + 1 /\ UNCHANGED <<child, cstat, orphans, peak, out>>
    BY <1>13, <2>6 DEF ChildStep
  <2>7. CASE /\ peak < (IF MemLimit > 0 THEN MemLimit ELSE MaxMem)
             /\ peak' = peak + 1 /\ UNCHANGED <<child, cstat, orphans, cpu, out>>
    BY <1>13, <2>7 DEF ChildStep
  <2>8. CASE out < MaxOut /\ out' = out + 1 /\ UNCHANGED <<child, cstat, orphans, cpu, peak>>
    BY <1>13, <2>8 DEF ChildStep
  <2>9. CASE orphans' = TRUE /\ UNCHANGED <<child, cstat, cpu, peak, out>>
    BY <1>13, <2>9 DEF ChildStep
  <2>10. QED
    BY <1>13, <2>4, <2>5, <2>6, <2>7, <2>8, <2>9 DEF ChildStep
<1>14. CASE OrphansExit
  BY <1>14 DEF OrphansExit
<1>15. CASE KernelKill
  BY <1>15 DEF KernelKill, ChildEnds, KilledStatus, SIGKILL, SIGXCPU, SIGXFSZ
<1>16. CASE Tick
  BY <1>16 DEF Tick
<1>17. CASE UNCHANGED vars
  BY <1>17 DEF vars
<1>18. QED
  BY <1>1, <1>2, <1>3, <1>4, <1>5, <1>6, <1>7, <1>8, <1>9, <1>10, <1>11,
     <1>12, <1>13, <1>14, <1>15, <1>16, <1>17
  DEF Next, SupervisorStep, Environment

\* lrun starts in a well-typed state.
LEMMA InitTypeOK == Init => TypeOK
<1> SUFFICES ASSUME Init PROVE TypeOK
  OBVIOUS
<1>1. FlagsOK
  BY Zenon DEF Init, FlagsOK
<1>2. DataOK
  BY DEF Init, DataOK
<1>3. QED
  BY <1>1, <1>2, TypeSplit

\* Every state lrun reaches has each variable in its type: TypeOK holds
\* initially and every step of lrun, the child, the kernel, the clock and
\* signal senders preserves it.
THEOREM TypeCorrect == Spec => []TypeOK
<1>1. Init => TypeOK
  BY InitTypeOK
<1>2. TypeOK /\ [Next]_vars => TypeOK'
  BY FlagsStep, DataStep, Zenon DEF TypeOK, FlagsOK, DataOK
<1>3. QED
  BY <1>1, <1>2, PTL DEF Spec

-----------------------------------------------------------------------------
(***************************************************************************)
(* ExceedSound, through its strengthening IInv.                            *)
(***************************************************************************)

\* A step that leaves stat, exceeded_limit and fd 3 alone and lets no
\* counter decrease keeps every loop tag and every written tag backed.
LEMMA Persist ==
  ASSUME TypeOK, TagBacked, ExceedSound,
         cpu' \in Int, peak' \in Int, out' \in Int, clock' \in Int,
         cpu' >= cpu, peak' >= peak, out' >= out, clock' >= clock,
         stat' = stat, exceeded' = exceeded, fd3' = fd3
  PROVE  TagBacked' /\ ExceedSound'
<1>1. TagBacked'
  BY DEF TypeOK, TagBacked
<1>2. ExceedSound'
  BY DEF TypeOK, ExceedSound, ChildSignaledBy
<1>3. QED
  BY <1>1, <1>2

\* The tag run_command prints after its post-loop checks is backed by the
\* state it prints it in.
LEMMA FinalTagSound ==
  ASSUME TypeOK, TagBacked
  PROVE  LET e == ExceedName(FinalTag) IN
           /\ e = "CPU_TIME" =>
                (CpuLimit > 0 /\ cpu >= CpuLimit) \/ ChildSignaledBy(SIGXCPU)
           /\ e = "MEMORY" => MemLimit > 0 /\ peak >= MemLimit
           /\ e = "OUTPUT" =>
                (OutputLimit > 0 /\ out > OutputLimit) \/ ChildSignaledBy(SIGXFSZ)
           /\ e = "REAL_TIME" => RealLimit > 0 /\ clock >= RealLimit
<1>1. ExceedName(FinalTag) # "none" => ExceedName(FinalTag) = FinalTag
  BY DEF ExceedName
<1>2. FinalTag = "CPU_TIME" =>
        (CpuLimit > 0 /\ cpu >= CpuLimit) \/ ChildSignaledBy(SIGXCPU)
  BY DEF FinalTag, PostRealHit, PostFszHit, PostCpuHit, PostMemHit,
         ChildSignaledBy, TagBacked
<1>3. FinalTag = "MEMORY" => MemLimit > 0 /\ peak >= MemLimit
  BY DEF FinalTag, PostRealHit, PostFszHit, PostCpuHit, PostMemHit, TagBacked
<1>4. FinalTag = "OUTPUT" =>
        (OutputLimit > 0 /\ out > OutputLimit) \/ ChildSignaledBy(SIGXFSZ)
  BY DEF FinalTag, PostRealHit, PostFszHit, PostCpuHit, PostMemHit,
         ChildSignaledBy, TagBacked
<1>5. FinalTag = "REAL_TIME" => RealLimit > 0 /\ clock >= RealLimit
  BY DEF FinalTag, PostRealHit, PostFszHit, PostCpuHit, PostMemHit, TagBacked
<1>6. QED
  BY <1>1, <1>2, <1>3, <1>4, <1>5

\* No step sets a tag before the counters are reset, writes fd 3 twice, or
\* leaves a tag or a written record without the sample that backs it.
LEMMA CoreStep == IInv /\ [Next]_vars => Phase' /\ TagBacked' /\ ExceedSound'
<1> SUFFICES ASSUME IInv, [Next]_vars PROVE Phase' /\ TagBacked' /\ ExceedSound'
  OBVIOUS
<1>0. TypeOK /\ Phase /\ TagBacked /\ ExceedSound
  BY DEF IInv
<1> USE DEF cgVars, childVars, loopVars
<1>2. CASE CreateCgroup
  <2>1. TagBacked' /\ ExceedSound'
    BY <1>0, <1>2, Persist DEF CreateCgroup, TypeOK
  <2>2. Phase'
    BY <1>0, <1>2 DEF CreateCgroup, Phase
  <2>3. QED
    BY <2>1, <2>2
<1>3. CASE Spawn
  <2>1. TagBacked' /\ ExceedSound'
    BY <1>0, <1>3, Persist DEF Spawn, GoClean, TypeOK
  <2>2. Phase'
    BY <1>0, <1>3 DEF Spawn, GoClean, Phase
  <2>3. QED
    BY <2>1, <2>2
<1>4. CASE Arm
  <2>1. TagBacked' /\ ExceedSound'
    BY <1>0, <1>4, Persist DEF Arm, TypeOK
  <2>2. Phase'
    BY <1>0, <1>4 DEF Arm, Phase
  <2>3. QED
    BY <2>1, <2>2
<1>5. CASE CheckSignal
  <2>1. TagBacked' /\ ExceedSound'
    BY <1>0, <1>5, Persist DEF CheckSignal, GoClean, TypeOK
  <2>2. Phase'
    BY <1>0, <1>5 DEF CheckSignal, GoClean, Phase
  <2>3. QED
    BY <2>1, <2>2
<1>6. CASE CheckEmpty
  <2>1. TagBacked' /\ ExceedSound'
    BY <1>0, <1>6, Persist DEF CheckEmpty, TypeOK
  <2>2. Phase'
    BY <1>0, <1>6 DEF CheckEmpty, Phase
  <2>3. QED
    BY <2>1, <2>2
<1>7. CASE CleanCgExit
  <2>1. TagBacked' /\ ExceedSound'
    BY <1>0, <1>7, Persist DEF CleanCgExit, TypeOK
  <2>2. Phase'
    BY <1>0, <1>7 DEF CleanCgExit, Phase
  <2>3. QED
    BY <2>1, <2>2
<1>8. CASE ExternalSignal
  <2>1. TagBacked' /\ ExceedSound'
    BY <1>0, <1>8, Persist DEF ExternalSignal, TypeOK
  <2>2. Phase'
    BY <1>0, <1>8 DEF ExternalSignal, Phase
  <2>3. QED
    BY <2>1, <2>2
<1>9. CASE ChildStep
  <2>1. TagBacked' /\ ExceedSound'
    BY <1>0, <1>9, Persist DEF ChildStep, ChildEnds, TypeOK
  <2>2. Phase'
    BY <1>0, <1>9 DEF ChildStep, ChildEnds, Phase
  <2>3. QED
    BY <2>1, <2>2
<1>10. CASE OrphansExit
  <2>1. TagBacked' /\ ExceedSound'
    BY <1>0, <1>10, Persist DEF OrphansExit, TypeOK
  <2>2. Phase'
    BY <1>0, <1>10 DEF OrphansExit, Phase
  <2>3. QED
    BY <2>1, <2>2
<1>11. CASE KernelKill
  <2>1. TagBacked' /\ ExceedSound'
    BY <1>0, <1>11, Persist DEF KernelKill, ChildEnds, TypeOK
  <2>2. Phase'
    BY <1>0, <1>11 DEF KernelKill, ChildEnds, Phase
  <2>3. QED
    BY <2>1, <2>2
<1>12. CASE Tick
  <2>1. TagBacked' /\ ExceedSound'
    BY <1>0, <1>12, Persist DEF Tick, TypeOK
  <2>2. Phase'
    BY <1>0, <1>12 DEF Tick, Phase
  <2>3. QED
    BY <2>1, <2>2
<1>13. CASE UNCHANGED vars
  <2>1. TagBacked' /\ ExceedSound'
    BY <1>0, <1>13, Persist DEF vars, TypeOK
  <2>2. Phase'
    BY <1>0, <1>13 DEF vars, Phase
  <2>3. QED
    BY <2>1, <2>2
<1>14. CASE SetupCgroup
  <2>1. exceeded = Empty /\ fd3 = <<>>
    BY <1>0, <1>14 DEF SetupCgroup, Phase
  <2>2. TagBacked' /\ ExceedSound'
    BY <2>1, <1>14 DEF SetupCgroup, TagBacked, ExceedSound
  <2>3. Phase'
    BY <2>1, <1>14 DEF SetupCgroup, GoClean, Phase
  <2>4. QED
    BY <2>2, <2>3
<1>15. CASE WaitPid
  <2>1. fd3 = <<>>
    BY <1>0, <1>15 DEF WaitPid, Phase
  <2>2. TagBacked' /\ ExceedSound'
    BY <1>0, <2>1, <1>15 DEF WaitPid, TagBacked, ExceedSound
  <2>3. Phase'
    BY <1>0, <2>1, <1>15 DEF WaitPid, Phase
  <2>4. QED
    BY <2>2, <2>3
<1>16. CASE CheckZombie
  <2>1. fd3 = <<>>
    BY <1>0, <1>16 DEF CheckZombie, Phase
  <2>2. TagBacked' /\ ExceedSound'
    BY <1>0, <2>1, <1>16 DEF CheckZombie, TagBacked, ExceedSound
  <2>3. Phase'
    BY <1>0, <2>1, <1>16 DEF CheckZombie, Phase
  <2>4. QED
    BY <2>2, <2>3
<1>17. CASE CheckCpu \/ CheckReal \/ CheckMemory \/ CheckOutput
  <2>1. fd3 = <<>> /\ fd3' = <<>>
    BY <1>0, <1>17 DEF CheckCpu, CheckReal, CheckMemory, CheckOutput, LoopCheck, Phase
  <2>2. ExceedSound'
    BY <2>1 DEF ExceedSound
  <2>3. Phase'
    BY <1>0, <2>1, <1>17 DEF CheckCpu, CheckReal, CheckMemory, CheckOutput, LoopCheck, Phase
  <2>4. TagBacked'
    <3>1. CASE CheckCpu
      BY <1>0, <3>1 DEF CheckCpu, LoopCheck, TagBacked
    <3>2. CASE CheckReal
      BY <1>0, <3>2 DEF CheckReal, Deadline, LoopCheck, TagBacked
    <3>3. CASE CheckMemory
      BY <1>0, <3>3 DEF CheckMemory, LoopCheck, TagBacked
    <3>4. CASE CheckOutput
      BY <1>0, <3>4 DEF CheckOutput, LoopCheck, TagBacked
    <3>5. QED
      BY <1>17, <3>1, <3>2, <3>3, <3>4
  <2>5. QED
    BY <2>2, <2>3, <2>4
<1>18. CASE WriteReport
  <2>1. fd3 = <<>>
    BY <1>0, <1>18 DEF WriteReport, Phase
  <2>2. fd3' = <<StatusRecord>>
    BY <2>1, <1>18 DEF WriteReport
  <2>3. StatusRecord.exceed = ExceedName(FinalTag)
    BY DEF StatusRecord
  <2>4. UNCHANGED <<cpu, peak, out, clock, stat, exceeded, handlers>>
    BY <1>18 DEF WriteReport
  <2>5. ExceedSound'
    BY <1>0, <2>2, <2>3, <2>4, FinalTagSound DEF ExceedSound, ChildSignaledBy
  <2>6. TagBacked'
    BY <1>0, <2>4 DEF TagBacked
  <2>7. handlers
    BY <1>0, <1>18 DEF WriteReport, Phase
  <2>8. Phase'
    BY <1>18, <2>4, <2>7 DEF WriteReport, GoClean, Phase
  <2>9. QED
    BY <2>5, <2>6, <2>8
<1>19. QED
  BY <1>2, <1>3, <1>4, <1>5, <1>6, <1>7, <1>8, <1>9, <1>10, <1>11, <1>12, <1>13, <1>14, <1>15, <1>16, <1>17, <1>18
  DEF Next, SupervisorStep, Environment

\* No step clears the loop flag, or leaves the loop without a tag, while
\* the child still runs; no step makes a terminated child run again.
LEMMA EndStep == IInv /\ [Next]_vars => EndBacked'
<1> SUFFICES ASSUME IInv, [Next]_vars PROVE EndBacked'
  OBVIOUS
<1>0. TypeOK /\ Phase /\ EndBacked
  BY DEF IInv
<1> USE DEF cgVars, childVars, loopVars
<1>1. CASE CreateCgroup
  BY <1>0, <1>1 DEF CreateCgroup, EndBacked
<1>2. CASE SetupCgroup
  BY <1>0, <1>2 DEF SetupCgroup, GoClean, EndBacked
<1>3. CASE Spawn
  BY <1>0, <1>3 DEF Spawn, GoClean, EndBacked
<1>4. CASE Arm
  BY <1>0, <1>4 DEF Arm, EndBacked
<1>5. CASE CheckSignal
  BY <1>0, <1>5 DEF CheckSignal, GoClean, EndBacked
<1>6. CASE WaitPid
  BY <1>0, <1>6 DEF WaitPid, EndBacked
<1>7. CASE CheckCpu
  BY <1>0, <1>7 DEF CheckCpu, LoopCheck, EndBacked
<1>8. CASE CheckReal
  BY <1>0, <1>8 DEF CheckReal, LoopCheck, EndBacked
<1>9. CASE CheckMemory
  BY <1>0, <1>9 DEF CheckMemory, LoopCheck, EndBacked
<1>10. CASE CheckZombie
  BY <1>0, <1>10 DEF CheckZombie, EndBacked
<1>11. CASE CheckOutput
  BY <1>0, <1>11 DEF CheckOutput, LoopCheck, EndBacked
<1>12. CASE CheckEmpty
  BY <1>0, <1>12 DEF CheckEmpty, TasksEmpty, EndBacked
<1>13. CASE WriteReport
  BY <1>0, <1>13 DEF WriteReport, GoClean, EndBacked
<1>14. CASE CleanCgExit
  BY <1>0, <1>14 DEF CleanCgExit, EndBacked
<1>15. CASE ExternalSignal
  BY <1>0, <1>15 DEF ExternalSignal, EndBacked
<1>16. CASE ChildStep
  BY <1>0, <1>16 DEF ChildStep, ChildEnds, EndBacked
<1>17. CASE OrphansExit
  BY <1>0, <1>17 DEF OrphansExit, EndBacked
<1>18. CASE KernelKill
  BY <1>0, <1>18 DEF KernelKill, ChildEnds, EndBacked
<1>19. CASE Tick
  BY <1>0, <1>19 DEF Tick, EndBacked
<1>20. CASE UNCHANGED vars
  BY <1>0, <1>20 DEF vars, EndBacked
<1>21. QED
  BY <1>1, <1>2, <1>3, <1>4, <1>5, <1>6, <1>7, <1>8, <1>9, <1>10, <1>11, <1>12, <1>13, <1>14, <1>15, <1>16, <1>17, <1>18, <1>19, <1>20
  DEF Next, SupervisorStep, Environment

\* Every step of lrun and of its environment keeps IInv.
LEMMA IInvStep == IInv /\ [Next]_vars => IInv'
<1> SUFFICES ASSUME IInv, [Next]_vars PROVE IInv'
  OBVIOUS
<1>1. TypeOK'
  BY FlagsStep, DataStep, Zenon DEF IInv, TypeOK, FlagsOK, DataOK
<1>2. Phase' /\ TagBacked' /\ ExceedSound'
  BY CoreStep
<1>3. EndBacked'
  BY EndStep
<1>4. QED
  BY <1>1, <1>2, <1>3 DEF IInv

\* IInv holds in every state lrun reaches.
THEOREM IInvHolds == Spec => []IInv
<1>1. Init => IInv
  <2> SUFFICES ASSUME Init PROVE IInv
    OBVIOUS
  <2>1. TypeOK
    BY InitTypeOK
  <2>2. Phase /\ TagBacked /\ EndBacked /\ ExceedSound
    BY DEF Init, Phase, TagBacked, EndBacked, ExceedSound
  <2>3. QED
    BY <2>1, <2>2 DEF IInv
<1>2. QED
  BY <1>1, IInvStep, PTL DEF Spec

\* Every EXCEED tag lrun writes to fd 3 is backed by the run it reports
\* on (ExceedSound), for every configuration: the loop's tag by the sample
\* that set it, the post-loop tags by the samples and the wait status that
\* run_command reads after the loop.
THEOREM ExceedSoundHolds == Spec => []ExceedSound
<1>1. IInv => ExceedSound
  BY DEF IInv
<1>2. QED
  BY <1>1, IInvHolds, PTL

-----------------------------------------------------------------------------
(***************************************************************************)
(* The report step.                                                        *)
(***************************************************************************)

\* Only WriteReport goes from the report label to clean_cg_exit.
LEMMA ReportStepIsWrite ==
  ASSUME [Next]_vars, ReportStep
  PROVE  WriteReport
<1> USE DEF ReportStep
<1>1. ~CreateCgroup /\ ~SetupCgroup /\ ~Spawn /\ ~Arm /\ ~CheckSignal
  BY DEF CreateCgroup, SetupCgroup, Spawn, Arm, CheckSignal
<1>2. ~WaitPid /\ ~CheckCpu /\ ~CheckReal /\ ~CheckMemory /\ ~CheckZombie
  BY DEF WaitPid, CheckCpu, CheckReal, CheckMemory, CheckZombie, LoopCheck
<1>3. ~CheckOutput /\ ~CheckEmpty /\ ~CleanCgExit
  BY DEF CheckOutput, LoopCheck, CheckEmpty, CleanCgExit
<1>4. ~ExternalSignal /\ ~ChildStep /\ ~OrphansExit /\ ~KernelKill /\ ~Tick
  BY DEF ExternalSignal, ChildStep, OrphansExit, KernelKill, Tick
<1>5. ~UNCHANGED vars
  BY DEF vars
<1>6. QED
  BY <1>1, <1>2, <1>3, <1>4, <1>5 DEF Next, SupervisorStep, Environment

\* The record a report step writes is the one StatusRecord formats.
LEMMA WrittenRecord ==
  ASSUME TypeOK, WriteReport
  PROVE  Written = StatusRecord
BY DEF TypeOK, WriteReport, Written

\* A run that reached its cpu, memory or wall-time limit is never reported
\* with EXCEED none (ReportComplete), for every configuration: the checks
\* run_command makes after its loop catch every limit the counters reached,
\* whichever of waitpid, the zombie probe or cg.empty() ended the loop.
THEOREM ReportCompleteHolds == Spec => ReportComplete
<1>1. TypeOK /\ [Next]_vars =>
        [(ReportStep /\ LimitReached) => Written.exceed # "none"]_vars
  <2> SUFFICES ASSUME TypeOK, [Next]_vars, ReportStep, LimitReached
               PROVE  Written.exceed # "none"
    OBVIOUS
  <2>1. WriteReport
    BY ReportStepIsWrite
  <2>2. Written.exceed = ExceedName(FinalTag)
    BY <2>1, WrittenRecord DEF StatusRecord
  <2>3. FinalTag \in Limits
    BY DEF LimitReached, FinalTag, PostRealHit, PostFszHit, PostCpuHit, PostMemHit
  <2>4. QED
    BY <2>2, <2>3 DEF ExceedName
<1>2. QED
  BY <1>1, TypeCorrect, PTL DEF Spec, ReportComplete

\* A record with EXCEED none is written only once the child process has
\* terminated (FinishedWhenNone), for every configuration: the loop is left
\* without a tag only through waitpid, the zombie probe or an empty cgroup.
THEOREM FinishedWhenNoneHolds == Spec => FinishedWhenNone
<1>1. IInv /\ [Next]_vars =>
        [ReportStep /\ Written.exceed = "none" => child # "running"]_vars
  <2> SUFFICES ASSUME IInv, [Next]_vars, ReportStep, Written.exceed = "none"
               PROVE  child # "running"
    OBVIOUS
  <2>1. WriteReport
    BY ReportStepIsWrite
  <2>2. ExceedName(FinalTag) = "none"
    BY <2>1, WrittenRecord DEF IInv, StatusRecord
  <2>3. exceeded = Empty
    <3>1. FinalTag = Empty
      BY <2>2 DEF ExceedName, IInv, TypeOK, FinalTag
    <3>2. QED
      BY <3>1 DEF FinalTag
  <2>4. QED
    BY <2>1, <2>3 DEF IInv, EndBacked, WriteReport
<1>2. QED
  BY <1>1, IInvHolds, PTL DEF Spec, FinishedWhenNone

-----------------------------------------------------------------------------
(***************************************************************************)
(* ZeroExitReported, the exit status of clean_cg_exit.                     *)
(***************************************************************************)

\* Its strengthening: the code clean_cg_exit is entered with, cut to eight
\* bits, is 0 only once the record is on fd 3.
ExitBacked == pc \in {"cleanup", "done"} /\ ExitStatus = 0 => fd3 # << >>

\* Every code lrun enters clean_cg_exit with before the loop is nonzero in
\* its low eight bits when 10 - pid is, for each spawn error pid.
LEMMA EarlyCodes ==
  ASSUME \A p \in SpawnErrors : (10 - p) % 256 # 0
  PROVE  /\ \A c \in SetupFailures \cup {4, 5} : c % 256 # 0
         /\ \A p \in SpawnErrors : (10 - p) % 256 # 0
  BY DEF SetupFailures

\* A step that enters clean_cg_exit from a label before the report does so
\* with one of those codes; every other step keeps pc out of the cleanup
\* labels or leaves pc, fd 3 and the exit code alone.
LEMMA ExitStep ==
  ASSUME \A p \in SpawnErrors : (10 - p) % 256 # 0,
         TypeOK, ExitBacked, [Next]_vars
  PROVE  ExitBacked'
<1> USE DEF ExitBacked, ExitStatus
<1>1. CASE SetupCgroup
  BY <1>1, EarlyCodes DEF SetupCgroup, GoClean
<1>2. CASE Spawn
  BY <1>2, EarlyCodes DEF Spawn, GoClean
<1>3. CASE CheckSignal
  BY <1>3 DEF CheckSignal, GoClean
<1>4. CASE WriteReport
  BY <1>4 DEF WriteReport, TypeOK
<1>5. CASE CleanCgExit
  BY <1>5 DEF CleanCgExit, loopVars
<1>6. CASE CreateCgroup \/ Arm \/ WaitPid \/ CheckZombie \/ CheckEmpty
  BY <1>6 DEF CreateCgroup, Arm, WaitPid, CheckZombie, CheckEmpty
<1>7. CASE CheckCpu \/ CheckReal \/ CheckMemory \/ CheckOutput
  BY <1>7 DEF CheckCpu, CheckReal, CheckMemory, CheckOutput, LoopCheck
<1>8. CASE ExternalSignal
  BY <1>8 DEF ExternalSignal, loopVars
<1>9. CASE ChildStep \/ OrphansExit \/ KernelKill \/ Tick
  BY <1>9 DEF ChildStep, OrphansExit, KernelKill, Tick, loopVars
<1>10. CASE UNCHANGED vars
  BY <1>10 DEF vars
<1>11. QED
  BY <1>1, <1>2, <1>3, <1>4, <1>5, <1>6, <1>7, <1>8, <1>9, <1>10
     DEF Next, SupervisorStep, Environment

\* lrun exits with status 0 only after it wrote its record to fd 3
\* (ZeroExitReported), for every configuration whose spawn errors pid leave
\* 10 - pid nonzero in its low eight bits: the setup failures, a failed
\* FD_CLOEXEC, a spawn error and a caught signal all exit nonzero.
THEOREM ZeroExitReportedHolds ==
  ASSUME \A p \in SpawnErrors : (10 - p) % 256 # 0
  PROVE  Spec => []ZeroExitReported
<1>1. Init => ExitBacked
  BY DEF Init, ExitBacked
<1>2. TypeOK /\ ExitBacked /\ [Next]_vars => ExitBacked'
  BY ExitStep
<1>3. ExitBacked => ZeroExitReported
  BY DEF ExitBacked, ZeroExitReported
<1>4. QED
  BY <1>1, <1>2, <1>3, TypeCorrect, PTL DEF Spec
====
