------------------------- MODULE SharedCgroupProofs -------------------------
(***************************************************************************)
(* Proofs about lrun processes sharing a --cgname, for every set of lruns  *)
(* and every bound of the usage counter.                                   *)
(***************************************************************************)
EXTENDS SharedCgroup, TLAPS

USE SharedAssumption

\* lrun's steps and the environment's, one lrun at a time.
LEMMA NextSplit ==
  ASSUME [Next]_vars
  PROVE  \/ \E p \in Lruns : Create(p) \/ Lock(p) \/ Setup(p) \/ Spawn(p)
         \/ \E p \in Lruns : Arm(p) \/ Watch(p) \/ Cleanup(p) \/ Die(p)
         \/ \E p \in Lruns : Use(p) \/ ChildExit(p)
         \/ UNCHANGED vars
  BY DEF Next, LrunStep

\* IInv holds initially.
LEMMA InitIInv == Init => IInv
  BY DEF Init, IInv, TypeOK, LockHeld, Accounting, TasksOwn, Unguarded, Final

\* Every step keeps IInv: the lock keeps two lruns out of setup_cgroup and
\* the loop at once, setup_cgroup's killall and reset_usages clear the
\* group for the holder, and only the holder's child joins the group.
LEMMA IInvStep == IInv /\ [Next]_vars => IInv'
<1> SUFFICES ASSUME IInv, [Next]_vars PROVE IInv'
  OBVIOUS
<1> USE DEF IInv, TypeOK, LockHeld, Accounting, TasksOwn, Unguarded, Final
<1>1. ASSUME NEW p \in Lruns, Create(p) PROVE IInv'
  BY <1>1 DEF Create
<1>2. ASSUME NEW p \in Lruns, Lock(p) PROVE IInv'
  BY <1>2 DEF Lock
<1>3. ASSUME NEW p \in Lruns, Setup(p) PROVE IInv'
  BY <1>3 DEF Setup
<1>4. ASSUME NEW p \in Lruns, Spawn(p) PROVE IInv'
  BY <1>4 DEF Spawn
<1>5. ASSUME NEW p \in Lruns, Arm(p) PROVE IInv'
  BY <1>5 DEF Arm
<1>6. ASSUME NEW p \in Lruns, Watch(p) PROVE IInv'
  BY <1>6 DEF Watch
<1>7. ASSUME NEW p \in Lruns, Cleanup(p) PROVE IInv'
  BY <1>7 DEF Cleanup
<1>8. ASSUME NEW p \in Lruns, Die(p) PROVE IInv'
  BY <1>8 DEF Die
<1>9. ASSUME NEW p \in Lruns, Use(p) PROVE IInv'
  BY <1>9 DEF Use
<1>10. ASSUME NEW p \in Lruns, ChildExit(p) PROVE IInv'
  BY <1>10 DEF ChildExit
<1>11. CASE UNCHANGED vars
  BY <1>11 DEF vars
<1>12. QED
  BY <1>1, <1>2, <1>3, <1>4, <1>5, <1>6, <1>7, <1>8, <1>9, <1>10, <1>11, NextSplit

\* The type invariant and the strengthening hold in every reachable state.
THEOREM IInvHolds == Spec => []IInv
  BY InitIInv, IInvStep, PTL DEF Spec

\* While a lrun watches its child, the shared cgroup holds no task of another
\* run and its usage counter is the run's own (SharedAccounting), for any
\* number of lruns sharing the --cgname: main's flock and setup_cgroup's
\* killall and reset_usages keep the runs apart, even across lruns killed
\* before they could clean up.
THEOREM SharedAccountingHolds == Spec => []SharedAccounting
<1>1. IInv => SharedAccounting
  BY DEF IInv, Accounting, SharedAccounting
<1>2. QED
  BY <1>1, IInvHolds, PTL

-----------------------------------------------------------------------------
(* Refinement of the lease *)

\* A step of lrun p moves p's lease stage alone.
LEMMA StageMove ==
  ASSUME NEW p \in Lruns, NEW l, TypeOK, ph' = [ph EXCEPT ![p] = l]
  PROVE  LeaseStage' = [LeaseStage EXCEPT ![p] = StageOf(l)]
  BY DEF LeaseStage, TypeOK

\* Each step of the lruns, their children and the kernel is a step of the
\* lease or leaves it unchanged.  flock is the lease's Acquire; setup_cgroup's
\* killall is its Clear; the spawn is its Start, possible because the group
\* was emptied by killall (Accounting); clean_cg_exit and a death give the
\* lease back, which the dying lrun holds (LockHeld).
LEMMA LeaseStepMaps == IInv /\ [Next]_vars => [Lease!Next]_Lease!vars
<1> SUFFICES ASSUME IInv, [Next]_vars PROVE [Lease!Next]_Lease!vars
  OBVIOUS
<1> USE DEF IInv, TypeOK, LockHeld, Accounting, Unguarded, Final, StageOf,
            Lease!Next, Lease!LeaseStep, Lease!vars, Lease!Owning
<1>1. ASSUME NEW p \in Lruns, Create(p) PROVE [Lease!Next]_Lease!vars
  <2>1. PICK l \in {"lock", "fatal"} : ph' = [ph EXCEPT ![p] = l]
    BY <1>1 DEF Create
  <2>2. Lease!Enter(p)
    BY <1>1, <2>1, StageMove DEF Create, Lease!Enter, LeaseStage
  <2>3. QED
    BY <2>2
<1>2. ASSUME NEW p \in Lruns, Lock(p) PROVE [Lease!Next]_Lease!vars
  <2>1. Lease!Acquire(p)
    BY <1>2, StageMove DEF Lock, Lease!Acquire, LeaseStage
  <2>2. QED
    BY <2>1
<1>3. ASSUME NEW p \in Lruns, Setup(p) PROVE [Lease!Next]_Lease!vars
  <2>1. CASE ph' = [ph EXCEPT ![p] = "cleanup"] /\ UNCHANGED <<tasks, usage, own>>
    <3>1. LeaseStage' = LeaseStage
      BY <1>3, <2>1, StageMove DEF Setup, LeaseStage
    <3>2. QED
      BY <1>3, <2>1, <3>1 DEF Setup
  <2>2. CASE tasks' = {} /\ \E l \in {"spawn", "cleanup"} : ph' = [ph EXCEPT ![p] = l]
    <3>1. Lease!Clear(p)
      BY <1>3, <2>2, StageMove DEF Setup, Lease!Clear, LeaseStage
    <3>2. QED
      BY <3>1
  <2>3. QED
    BY <1>3, <2>1, <2>2 DEF Setup
<1>4. ASSUME NEW p \in Lruns, Spawn(p) PROVE [Lease!Next]_Lease!vars
  <2>1. CASE tasks' = tasks \cup {p} /\ ph' = [ph EXCEPT ![p] = "arm"]
    <3>1. Lease!Start(p)
      BY <1>4, <2>1, StageMove DEF Spawn, Lease!Start, LeaseStage
    <3>2. QED
      BY <3>1
  <2>2. CASE ph' = [ph EXCEPT ![p] = "cleanup"] /\ UNCHANGED tasks
    <3>1. Lease!Stop(p)
      BY <1>4, <2>2, StageMove DEF Spawn, Lease!Stop, LeaseStage
    <3>2. QED
      BY <3>1
  <2>3. QED
    BY <1>4, <2>1, <2>2 DEF Spawn
<1>5. ASSUME NEW p \in Lruns, Arm(p) PROVE [Lease!Next]_Lease!vars
  <2>1. LeaseStage' = LeaseStage
    BY <1>5, StageMove DEF Arm, LeaseStage
  <2>2. QED
    BY <1>5, <2>1 DEF Arm
<1>6. ASSUME NEW p \in Lruns, Watch(p) PROVE [Lease!Next]_Lease!vars
  <2>1. Lease!Stop(p)
    BY <1>6, StageMove DEF Watch, Lease!Stop, LeaseStage
  <2>2. QED
    BY <2>1
<1>7. ASSUME NEW p \in Lruns, Cleanup(p) PROVE [Lease!Next]_Lease!vars
  <2>1. Lease!Release(p)
    BY <1>7, StageMove DEF Cleanup, Lease!Release, LeaseStage
  <2>2. QED
    BY <2>1
<1>8. ASSUME NEW p \in Lruns, Die(p) PROVE [Lease!Next]_Lease!vars
  <2>1. CASE ph[p] \in {"create", "lock"}
    <3>1. holder # p /\ UNCHANGED holder
      BY <1>8, <2>1 DEF Die
    <3>2. LeaseStage' = [LeaseStage EXCEPT ![p] = "gone"]
      <4>1. ph' = [ph EXCEPT ![p] = "dead"]
        BY <1>8 DEF Die
      <4>2. StageOf("dead") = "gone"
        BY DEF StageOf
      <4>3. QED
        BY <4>1, <4>2, StageMove
    <3>3. Lease!Abandon(p)
      BY <1>8, <2>1, <3>1, <3>2 DEF Die, Lease!Abandon, LeaseStage
    <3>4. QED
      BY <3>3
  <2>2. CASE ph[p] \notin {"create", "lock"}
    <3>1. Lease!Release(p)
      BY <1>8, <2>2, StageMove DEF Die, Lease!Release, LeaseStage
    <3>2. QED
      BY <3>1
  <2>3. QED
    BY <2>1, <2>2
<1>9. ASSUME NEW p \in Lruns, Use(p) PROVE [Lease!Next]_Lease!vars
  BY <1>9 DEF Use, LeaseStage
<1>10. ASSUME NEW p \in Lruns, ChildExit(p) PROVE [Lease!Next]_Lease!vars
  <2>1. Lease!Exit(p)
    BY <1>10 DEF ChildExit, Lease!Exit, LeaseStage
  <2>2. QED
    BY <2>1
<1>11. CASE UNCHANGED vars
  BY <1>11 DEF vars, LeaseStage
<1>12. QED
  BY <1>1, <1>2, <1>3, <1>4, <1>5, <1>6, <1>7, <1>8, <1>9, <1>10, <1>11, NextSplit

\* The lruns sharing a --cgname implement the safety part of the lease:
\* every behaviour of main, setup_cgroup, clean_cg_exit, the children and
\* the kernel, seen through LeaseStage, is a behaviour of CgroupLease.
THEOREM LeaseRefinement == Spec => Lease!SafeSpec
<1>1. Init => Lease!Init
  BY DEF Init, Lease!Init, LeaseStage, StageOf
<1>2. QED
  BY <1>1, LeaseStepMaps, IInvHolds, PTL DEF Spec, Lease!SafeSpec

LP == INSTANCE CgroupLeaseProofs WITH stage <- LeaseStage, group <- tasks

\* While a lrun measures its command, the shared group holds no task of
\* another lrun and no other lrun is between flock and its exit: the lease's
\* isolation, carried over to main, setup_cgroup and clean_cg_exit by the
\* refinement.
COROLLARY LeaseIsolation == Spec => []Lease!Isolation
<1>1. Lease!SafeSpec => []Lease!Isolation
  <2>1. Lease!SafeSpec => LP!SafeSpec
    BY PTL DEF LP!SafeSpec, Lease!SafeSpec, LP!Init, Lease!Init, LP!Next,
       Lease!Next, LP!vars, Lease!vars, LP!LeaseStep, Lease!LeaseStep,
       LP!Enter, Lease!Enter, LP!Acquire, Lease!Acquire, LP!Clear, Lease!Clear,
       LP!Start, Lease!Start, LP!Stop, Lease!Stop, LP!Release, Lease!Release,
       LP!Abandon, Lease!Abandon, LP!Exit, Lease!Exit, LP!Owning, Lease!Owning
  <2>2. LP!Isolation => Lease!Isolation
    BY DEF LP!Isolation, Lease!Isolation, LP!Owning, Lease!Owning
  <2>3. QED
    BY <2>1, <2>2, LP!IsolationHolds, SharedAssumption, PTL
<1>2. QED
  BY <1>1, LeaseRefinement
====
