---------------------------- MODULE CgroupLease -----------------------------
(***************************************************************************)
(* What a shared --cgname promises the lrun processes that name it.  The   *)
(* spec: the cgroup's name is unique among live supervisors, "enforced by  *)
(* a file lock on the cgroup's subsystem directory", which "serializes     *)
(* supervisors that share a name".                                        *)
(* The group is leased to one lrun at a time.  The holder empties it       *)
(* before it starts its command, and while the command is measured the     *)
(* group holds nothing but that command's tasks.  A lrun gives the lease   *)
(* back when it ends, cleaning the group or (when it is killed) not.       *)
(*                                                                         *)
(* The module SharedCgroup, which follows main, setup_cgroup and           *)
(* clean_cg_exit, implements this specification.                           *)
(***************************************************************************)
CONSTANTS
    Lruns,    \* the lrun processes naming the group
    None      \* nobody holds the lease

VARIABLES
    stage,    \* stage[p]: where lrun p is with the lease
    holder,   \* the lrun holding the lease, or None
    group     \* the lruns whose tasks are in the group

vars == <<stage, holder, group>>

\* The stages in which a lrun holds the lease: it holds the group, it has
\* emptied it and is ready to start its command, or it measures the command.
Owning == {"held", "ready", "measuring"}

TypeOK ==
    /\ stage \in [Lruns -> {"idle", "waiting", "gone"} \cup Owning]
    /\ holder \in Lruns \cup {None}
    /\ group \subseteq Lruns

Init ==
    /\ stage = [p \in Lruns |-> "idle"]
    /\ holder = None
    /\ group = {}

\* A lrun finds the group and queues for it, or gives up on it.
Enter(p) ==
    /\ stage[p] = "idle"
    /\ \E s \in {"waiting", "gone"} : stage' = [stage EXCEPT ![p] = s]
    /\ UNCHANGED <<holder, group>>

\* The lease goes to a waiting lrun when nobody holds it.
Acquire(p) ==
    /\ stage[p] = "waiting"
    /\ holder = None
    /\ holder' = p
    /\ stage' = [stage EXCEPT ![p] = "held"]
    /\ UNCHANGED group

\* The holder empties the group, and is then ready to start, or not.
Clear(p) ==
    /\ stage[p] = "held"
    /\ group' = {}
    /\ \E s \in {"held", "ready"} : stage' = [stage EXCEPT ![p] = s]
    /\ UNCHANGED holder

\* The holder starts its command in the empty group.
Start(p) ==
    /\ stage[p] = "ready"
    /\ group = {}
    /\ group' = {p}
    /\ stage' = [stage EXCEPT ![p] = "measuring"]
    /\ UNCHANGED holder

\* The holder stops measuring, or does not start.
Stop(p) ==
    /\ stage[p] \in {"ready", "measuring"}
    /\ stage' = [stage EXCEPT ![p] = "held"]
    /\ UNCHANGED <<holder, group>>

\* The holder ends and gives the lease back, with the group emptied or, when
\* it is killed, as it is.
Release(p) ==
    /\ stage[p] \in Owning
    /\ stage' = [stage EXCEPT ![p] = "gone"]
    /\ holder' = None
    /\ group' = {} \/ group' = group

\* A lrun that does not hold the lease ends.
Abandon(p) ==
    /\ stage[p] \in {"idle", "waiting"}
    /\ stage' = [stage EXCEPT ![p] = "gone"]
    /\ UNCHANGED <<holder, group>>

\* A task of the group exits.
Exit(q) ==
    /\ q \in group
    /\ group' = group \ {q}
    /\ UNCHANGED <<stage, holder>>

LeaseStep(p) ==
    Enter(p) \/ Acquire(p) \/ Clear(p) \/ Start(p) \/ Stop(p) \/ Release(p)

Next == \E p \in Lruns : LeaseStep(p) \/ Abandon(p) \/ Exit(p)

\* The steps of the lease, without fairness.
SafeSpec == Init /\ [][Next]_vars

\* Each lrun goes on with the lease; nothing forces it to abandon it.
Spec == SafeSpec /\ \A p \in Lruns : WF_vars(LeaseStep(p))

-----------------------------------------------------------------------------
(* Properties *)

\* While a lrun measures its command, the group holds nothing of another lrun,
\* and no other lrun holds the lease.
Isolation ==
    \A p \in Lruns : stage[p] = "measuring" =>
        /\ group \subseteq {p}
        /\ \A q \in Lruns \ {p} : stage[q] \notin Owning

\* The inductive invariant of Isolation: an owner holds the lease, and a lrun
\* ready to start has an empty group.
LeaseInv ==
    /\ TypeOK
    /\ \A p \in Lruns : stage[p] \in Owning => holder = p
    /\ \A p \in Lruns : stage[p] = "ready" => group = {}
    /\ \A p \in Lruns : stage[p] = "measuring" => group \subseteq {p}
====
