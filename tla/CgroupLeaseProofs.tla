------------------------- MODULE CgroupLeaseProofs --------------------------
(***************************************************************************)
(* The lease of a shared cgroup isolates each measured command, for every  *)
(* set of lruns.                                                           *)
(***************************************************************************)
EXTENDS CgroupLease, TLAPS

\* LeaseInv holds initially.
LEMMA InitLeaseInv == Init => LeaseInv
  BY DEF Init, LeaseInv, TypeOK, Owning

\* Every step of the lease keeps LeaseInv: only a lrun that finds the lease
\* free takes it, only the holder empties and fills the group, and a lrun
\* gives the lease back only when it ends.  None must name no lrun, as
\* SharedCgroup assumes.
LEMMA LeaseInvStep ==
  ASSUME None \notin Lruns
  PROVE  LeaseInv /\ [Next]_vars => LeaseInv'
<1> SUFFICES ASSUME LeaseInv, [Next]_vars PROVE LeaseInv'
  OBVIOUS
<1> USE DEF LeaseInv, TypeOK, Owning
<1>1. ASSUME NEW p \in Lruns, Enter(p) PROVE LeaseInv'
  BY <1>1 DEF Enter
<1>2. ASSUME NEW p \in Lruns, Acquire(p) PROVE LeaseInv'
  BY <1>2 DEF Acquire
<1>3. ASSUME NEW p \in Lruns, Clear(p) PROVE LeaseInv'
  BY <1>3 DEF Clear
<1>4. ASSUME NEW p \in Lruns, Start(p) PROVE LeaseInv'
  BY <1>4 DEF Start
<1>5. ASSUME NEW p \in Lruns, Stop(p) PROVE LeaseInv'
  BY <1>5 DEF Stop
<1>6. ASSUME NEW p \in Lruns, Release(p) PROVE LeaseInv'
  BY <1>6 DEF Release
<1>7. ASSUME NEW p \in Lruns, Abandon(p) PROVE LeaseInv'
  BY <1>7 DEF Abandon
<1>8. ASSUME NEW p \in Lruns, Exit(p) PROVE LeaseInv'
  BY <1>8 DEF Exit
<1>9. CASE UNCHANGED vars
  BY <1>9 DEF vars
<1>10. QED
  BY <1>1, <1>2, <1>3, <1>4, <1>5, <1>6, <1>7, <1>8, <1>9 DEF Next, LeaseStep

\* LeaseInv holds in every state of the lease, when None names no lrun.
THEOREM LeaseInvHolds ==
  ASSUME None \notin Lruns
  PROVE  SafeSpec => []LeaseInv
  BY InitLeaseInv, LeaseInvStep, PTL DEF SafeSpec

\* While a lrun measures its command, the group holds no task of another
\* lrun and no other lrun holds the lease: the promise main's flock and
\* setup_cgroup's killall make to lruns sharing a --cgname.
THEOREM IsolationHolds ==
  ASSUME None \notin Lruns
  PROVE  SafeSpec => []Isolation
<1>1. LeaseInv => Isolation
  BY DEF LeaseInv, Isolation, Owning
<1>2. QED
  BY <1>1, LeaseInvHolds, PTL
====
