------------------------ MODULE SupervisorRefinement ------------------------
(***************************************************************************)
(* The supervisor implements the contract of one lrun run (LrunContract),  *)
(* for every configuration whose spawn errors pid leave 10 - pid nonzero   *)
(* in its low eight bits.                                                  *)
(***************************************************************************)
EXTENDS SupervisorProofs

USE LimitsAssumption, BoundsAssumption, ConfigAssumption
USE DEF LoopLabels, Final, Exceeds, Limits, Empty, RunStage, CmdState

\* ChildPhase holds initially and is kept by every step: only the spawn
\* creates the child, and nothing makes it disappear.
LEMMA ChildPhaseStep == TypeOK /\ ChildPhase /\ [Next]_vars => ChildPhase'
<1> SUFFICES ASSUME TypeOK, ChildPhase, [Next]_vars PROVE ChildPhase'
  OBVIOUS
<1> USE DEF ChildPhase, cgVars, childVars, loopVars
<1>1. CASE CreateCgroup \/ SetupCgroup \/ Spawn \/ Arm \/ CheckSignal
  BY <1>1 DEF CreateCgroup, SetupCgroup, Spawn, Arm, CheckSignal, GoClean
<1>2. CASE WaitPid \/ CheckZombie \/ CheckEmpty \/ WriteReport \/ CleanCgExit
  BY <1>2 DEF WaitPid, CheckZombie, CheckEmpty, WriteReport, CleanCgExit, GoClean
<1>3. CASE CheckCpu \/ CheckReal \/ CheckMemory \/ CheckOutput
  BY <1>3 DEF CheckCpu, CheckReal, CheckMemory, CheckOutput, LoopCheck
<1>4. CASE ExternalSignal \/ OrphansExit \/ Tick
  BY <1>4 DEF ExternalSignal, OrphansExit, Tick
<1>5. CASE ChildStep \/ KernelKill
  BY <1>5 DEF ChildStep, KernelKill, ChildEnds
<1>6. CASE UNCHANGED vars
  BY <1>6 DEF vars
<1>7. QED
  BY <1>1, <1>2, <1>3, <1>4, <1>5, <1>6 DEF Next, SupervisorStep, Environment

\* A step that moves neither the stage nor the child, and leaves fd 3 and
\* the exit code alone, is a stutter of the contract.
LEMMA Stutter ==
  ASSUME RunStage' = RunStage, CmdState' = CmdState,
         fd3' = fd3, exitCode' = exitCode
  PROVE  UNCHANGED Contract!vars
  BY DEF Contract!vars, Verdict, ExitStatus

\* A code of eight bits is its own low byte.
LEMMA LowByte == ASSUME NEW x \in 0..255 PROVE x % 256 = x
  OBVIOUS

\* Entering clean_cg_exit from the preparation with an early code is the
\* contract's Fail, and from the watch with the signal code its Abort.
LEMMA EarlyExit ==
  ASSUME \A p \in SpawnErrors : (10 - p) % 256 # 0,
         NEW code \in SetupFailures \cup {4, 5} \cup {10 - p : p \in SpawnErrors},
         GoClean(code), fd3' = fd3, child' = child
  PROVE  /\ RunStage' = "exit"
         /\ ExitStatus' \in 1..255
         /\ UNCHANGED <<CmdState, Len(fd3), Verdict>>
<1>1. code \in Int /\ code % 256 # 0
  BY EarlyCodes, ConfigAssumption DEF SetupFailures
<1>2. QED
  BY <1>1 DEF GoClean, ExitStatus, Verdict

\* Every step of the supervisor, the child, the kernel and the clock is a
\* step of the contract or leaves it alone.
LEMMA ContractStep ==
  ASSUME \A p \in SpawnErrors : (10 - p) % 256 # 0,
         IInv, ChildPhase, [Next]_vars
  PROVE  [Contract!Next]_Contract!vars
<1> USE DEF IInv, cgVars, childVars, loopVars
<1>1. CASE CreateCgroup
  <2>1. CASE pc' = "setup"
    BY <1>1, <2>1, Stutter DEF CreateCgroup
  <2>2. CASE pc' = "fatal"
    BY <1>1, <2>2 DEF CreateCgroup, ChildPhase, Contract!Next, Contract!Fatal,
       Verdict, ExitStatus
  <2>3. QED
    BY <1>1, <2>1, <2>2 DEF CreateCgroup
<1>2. CASE SetupCgroup
  <2>1. CASE pc' = "spawn" /\ UNCHANGED exitCode
    BY <1>2, <2>1, Stutter DEF SetupCgroup
  <2>2. CASE \E code \in SetupFailures : GoClean(code)
    <3>1. PICK code \in SetupFailures : GoClean(code)
      BY <2>2
    <3>2. Contract!Fail
      BY <1>2, <3>1, EarlyExit DEF SetupCgroup, Contract!Fail
    <3>3. QED
      BY <3>2 DEF Contract!Next
  <2>3. QED
    BY <1>2, <2>1, <2>2 DEF SetupCgroup
<1>3. CASE Spawn
  <2>1. CASE pc' = "arm" /\ child' = "running" /\ UNCHANGED exitCode
    <3>1. Contract!Start
      BY <1>3, <2>1 DEF Spawn, ChildPhase, Contract!Start, Verdict, ExitStatus
    <3>2. QED
      BY <3>1 DEF Contract!Next
  <2>2. CASE \E code \in {5} \cup {10 - p : p \in SpawnErrors} :
                GoClean(code) /\ UNCHANGED child
    <3>1. PICK code \in {5} \cup {10 - p : p \in SpawnErrors} :
                GoClean(code) /\ UNCHANGED child
      BY <2>2
    <3>2. code \in SetupFailures \cup {4, 5} \cup {10 - p : p \in SpawnErrors}
      OBVIOUS
    <3>3. Contract!Fail
      BY <1>3, <3>1, <3>2, EarlyExit DEF Spawn, Contract!Fail
    <3>4. QED
      BY <3>3 DEF Contract!Next
  <2>3. QED
    BY <1>3, <2>1, <2>2 DEF Spawn
<1>4. CASE Arm
  <2>1. Contract!Watch
    BY <1>4 DEF Arm, ChildPhase, Contract!Watch, Verdict, ExitStatus
  <2>2. QED
    BY <2>1 DEF Contract!Next
<1>5. CASE CheckSignal
  <2>1. CASE sigFlag
    <3>1. Contract!Abort
      BY <1>5, <2>1, EarlyExit DEF CheckSignal, Contract!Abort
    <3>2. QED
      BY <3>1 DEF Contract!Next
  <2>2. CASE ~sigFlag
    BY <1>5, <2>2, Stutter DEF CheckSignal
  <2>3. QED
    BY <2>1, <2>2
<1>6. CASE WaitPid \/ CheckZombie \/ CheckEmpty
  BY <1>6, Stutter DEF WaitPid, CheckZombie, CheckEmpty
<1>7. CASE CheckCpu \/ CheckReal \/ CheckMemory \/ CheckOutput
  BY <1>7, Stutter DEF CheckCpu, CheckReal, CheckMemory, CheckOutput, LoopCheck
<1>8. CASE WriteReport
  <2>1. fd3 = << >> /\ fd3' = <<StatusRecord>>
    <3>1. fd3 = << >>
      BY <1>8 DEF WriteReport, Phase
    <3>2. QED
      BY <1>8, <3>1 DEF WriteReport
  <2>2. DEFINE v == IF StatusRecord.exceed = "none" THEN "finished" ELSE "exceeded"
  <2>3. Verdict' = v /\ Len(fd3') = Len(fd3) + 1
    BY <2>1 DEF Verdict
  <2>4. v = "finished" => child # "running"
    <3>1. SUFFICES ASSUME StatusRecord.exceed = "none" PROVE child # "running"
      OBVIOUS
    <3>2. FinalTag = Empty
      BY <3>1 DEF StatusRecord, ExceedName, TypeOK, FinalTag
    <3>3. exceeded = Empty
      BY <3>2 DEF FinalTag
    <3>4. QED
      BY <1>8, <3>3 DEF WriteReport, EndBacked
  <2>5. ExitStatus' \in 0..255
    <3>1. stat \in Nat
      BY DEF TypeOK
    <3>2. WEXITSTATUS(stat) \in 0..255
      BY <3>1, StatusDecode
    <3>3. exitCode' = IF PassExitcode THEN WEXITSTATUS(stat) ELSE 0
      BY <1>8 DEF WriteReport, GoClean
    <3>4. exitCode' \in 0..255
      <4>1. CASE PassExitcode
        BY <3>2, <3>3, <4>1
      <4>2. CASE ~PassExitcode
        BY <3>3, <4>2
      <4>3. QED
        BY <4>1, <4>2
    <3>5. ExitStatus' = exitCode' % 256
      BY DEF ExitStatus
    <3>6. exitCode' % 256 = exitCode'
      BY <3>4, LowByte, Zenon
    <3>7. QED
      BY <3>4, <3>5, <3>6
  <2>6. Contract!Report(v)
    BY <1>8, <2>3, <2>4, <2>5 DEF WriteReport, GoClean, Contract!Report
  <2>7. QED
    BY <2>6 DEF Contract!Next
<1>9. CASE CleanCgExit
  <2>1. Contract!Leave
    BY <1>9 DEF CleanCgExit, Contract!Leave, Verdict, ExitStatus
  <2>2. QED
    BY <2>1 DEF Contract!Next
<1>10. CASE ExternalSignal
  <2>1. CASE handlers
    BY <1>10, <2>1, Stutter DEF ExternalSignal
  <2>2. CASE ~handlers
    <3>1. pc \in {"create", "setup", "spawn", "arm", "cleanup"} /\ fd3 = << >>
      BY <1>10, <2>2 DEF ExternalSignal, Phase, TypeOK
    <3>2. Contract!Die
      BY <1>10, <2>2, <3>1 DEF ExternalSignal, Contract!Die, Verdict, ExitStatus
    <3>3. QED
      BY <3>2 DEF Contract!Next
  <2>3. QED
    BY <2>1, <2>2
<1>11. CASE ChildStep \/ KernelKill
  <2>1. CASE child' = child
    BY <1>11, <2>1, Stutter DEF ChildStep, KernelKill
  <2>2. CASE child' # child
    <3>1. child = "running" /\ child' = "zombie"
      BY <1>11, <2>2 DEF ChildStep, KernelKill, ChildEnds
    <3>2. Contract!End
      BY <1>11, <3>1 DEF ChildStep, KernelKill, Contract!End, Verdict, ExitStatus
    <3>3. QED
      BY <3>2 DEF Contract!Next
  <2>3. QED
    BY <2>1, <2>2
<1>12. CASE OrphansExit \/ Tick
  BY <1>12, Stutter DEF OrphansExit, Tick
<1>13. CASE UNCHANGED vars
  BY <1>13, Stutter DEF vars
<1>14. QED
  BY <1>1, <1>2, <1>3, <1>4, <1>5, <1>6, <1>7, <1>8, <1>9, <1>10, <1>11, <1>12, <1>13
  DEF Next, SupervisorStep, Environment

\* The supervisor implements the safety part of lrun's contract: every
\* behaviour of main, run_command and clean_cg_exit, with the child, the
\* kernel, the clock and the signals, seen through RunStage, CmdState, the
\* records on fd 3 and the exit status, is a behaviour of LrunContract.
THEOREM ContractRefinement ==
  ASSUME \A p \in SpawnErrors : (10 - p) % 256 # 0
  PROVE  Spec => Contract!SafeSpec
<1>1. Init => Contract!Init /\ ChildPhase
  BY DEF Init, Contract!Init, ChildPhase, Verdict, ExitStatus
<1>2. TypeOK /\ ChildPhase /\ [Next]_vars => ChildPhase'
  BY ChildPhaseStep
<1>3. IInv /\ ChildPhase /\ [Next]_vars => [Contract!Next]_Contract!vars
  BY ContractStep
<1>4. QED
  BY <1>1, <1>2, <1>3, IInvHolds, PTL DEF Spec, Contract!SafeSpec, IInv

CP == INSTANCE LrunContractProofs
        WITH stage <- RunStage, cmd <- CmdState, reports <- Len(fd3),
             verdict <- Verdict, status <- ExitStatus

\* lrun writes at most one status record to fd 3, records a finished
\* command only once the child has ended, and leaves with status 0 only
\* after its record: the contract's honesty, carried over to main,
\* run_command and clean_cg_exit by the refinement.
COROLLARY ContractHonest ==
  ASSUME \A p \in SpawnErrors : (10 - p) % 256 # 0
  PROVE  Spec => []Contract!Honest
<1>1. Contract!SafeSpec => []Contract!Honest
  <2>1. Contract!SafeSpec => CP!SafeSpec
    <3>1. Contract!Init => CP!Init
      BY DEF CP!Init, Contract!Init
    <3>2. [Contract!Next]_Contract!vars => [CP!Next]_CP!vars
      BY DEF CP!Next, Contract!Next, CP!vars, Contract!vars, CP!Start,
         Contract!Start, CP!Watch, Contract!Watch, CP!Fatal, Contract!Fatal,
         CP!Fail, Contract!Fail, CP!Report, Contract!Report, CP!Abort,
         Contract!Abort, CP!Leave, Contract!Leave, CP!Die, Contract!Die, CP!End,
         Contract!End
    <3>3. QED
      BY <3>1, <3>2, PTL DEF CP!SafeSpec, Contract!SafeSpec
  <2>2. CP!Honest => Contract!Honest
    BY DEF CP!Honest, Contract!Honest
  <2>3. QED
    BY <2>1, <2>2, CP!HonestHolds, PTL
<1>2. Spec => Contract!SafeSpec
  BY ContractRefinement
<1>3. QED
  BY <1>1, <1>2, PTL
====
