---------------------------- MODULE SharedCgroup ----------------------------
(***************************************************************************)
(* Several lrun processes started with the same --cgname share one         *)
(* borrowed cgroup.  main (src/src/lrun.cc lines 993-1016) takes a flock   *)
(* on the cgroup's directory after create_cgroup and holds it until the    *)
(* process ends; setup_cgroup kills what is left in the group and resets   *)
(* its usage counters (lines 802-809); clean_cg_exit kills the group's     *)
(* tasks (lines 690-700).  A lrun killed by a signal before its handlers   *)
(* are installed, or by SIGKILL at any time, loses the lock with its life  *)
(* and leaves its child in the group.                                      *)
(*                                                                         *)
(* The loop of run_command is the module Supervisor; here it is one step   *)
(* that ends it (the child's exit, a limit or a caught signal).  The       *)
(* group's tasks are named by the lrun whose child they are, and its cpu  *)
(* counter is one number; own[p] is a history variable: the usage of p's  *)
(* child since p reset the counter.                                        *)
(***************************************************************************)
EXTENDS Integers, FiniteSets

CONSTANTS
    Lruns,    \* the lrun processes sharing the --cgname
    MaxUse,   \* bound of the cgroup's cpu counter
    None      \* no lrun holds the lock

ASSUME SharedAssumption == MaxUse \in Nat /\ None \notin Lruns

VARIABLES
    ph,       \* ph[p]: where lrun p is in main
    holder,   \* the lrun holding the flock, or None
    tasks,    \* the lruns whose child is in the cgroup
    usage,    \* the cgroup's cpu usage counter
    own       \* own[p]: usage by p's child since p's reset_usages

vars == <<ph, holder, tasks, usage, own>>

\* The labels before setup_signal_handlers: a signal kills lrun there.
Unguarded == {"create", "lock", "setup", "spawn", "arm"}
Final == {"done", "dead", "fatal"}

TypeOK ==
    /\ ph \in [Lruns -> Unguarded \cup {"loop", "cleanup"} \cup Final]
    /\ holder \in Lruns \cup {None}
    /\ tasks \subseteq Lruns
    /\ usage \in 0..MaxUse
    /\ own \in [Lruns -> 0..MaxUse]

Init ==
    /\ ph = [p \in Lruns |-> "create"]
    /\ holder = None
    /\ tasks = {}
    /\ usage = 0
    /\ own = [p \in Lruns |-> 0]

\* create_cgroup, lines 753-764: Cgroup::create reuses the named group, or
\* lrun dies with FATAL.
Create(p) ==
    /\ ph[p] = "create"
    /\ ph' = [ph EXCEPT ![p] = "lock"] \/ ph' = [ph EXCEPT ![p] = "fatal"]
    /\ UNCHANGED <<holder, tasks, usage, own>>

\* Mutant of Lock: the lock taken without waiting for its holder.
LockNoWait(p) ==
    /\ ph[p] = "lock"
    /\ holder' = p
    /\ ph' = [ph EXCEPT ![p] = "setup"]
    /\ UNCHANGED <<tasks, usage, own>>

\* fs::ScopedFileLock cg_lock(cg.subsys_path()), line 1010: flock blocks
\* while another lrun holds the lock.
Lock(p) ==
    /\ ph[p] = "lock"
    /\ holder = None
    /\ holder' = p
    /\ ph' = [ph EXCEPT ![p] = "setup"]
    /\ UNCHANGED <<tasks, usage, own>>

\* Mutant of Setup: no killall before the counters are reset.
SetupNoKillall(p) ==
    /\ ph[p] = "setup"
    /\ \/ ph' = [ph EXCEPT ![p] = "cleanup"] /\ UNCHANGED <<tasks, usage, own>>
       \/ /\ usage' = 0 /\ own' = [own EXCEPT ![p] = 0]
          /\ ph' = [ph EXCEPT ![p] = "spawn"]
          /\ UNCHANGED tasks
    /\ UNCHANGED holder

\* setup_cgroup, lines 766-815: a failing device whitelist, memory limit or
\* cgroup option goes to clean_cg_exit before killall; otherwise killall,
\* then reset_usages, whose failure goes to clean_cg_exit with 4.
Setup(p) ==
    /\ ph[p] = "setup"
    /\ \/ ph' = [ph EXCEPT ![p] = "cleanup"] /\ UNCHANGED <<tasks, usage, own>>
       \/ /\ tasks' = {}
          /\ usage' = 0 /\ own' = [own EXCEPT ![p] = 0]
          /\ ph' = [ph EXCEPT ![p] = "spawn"]
       \/ /\ tasks' = {}
          /\ ph' = [ph EXCEPT ![p] = "cleanup"]
          /\ UNCHANGED <<usage, own>>
    /\ UNCHANGED holder

\* run_command up to cg.spawn (lines 817-841): the child joins the group, or
\* FD_CLOEXEC or the spawn fails and lrun goes to clean_cg_exit.
Spawn(p) ==
    /\ ph[p] = "spawn"
    /\ \/ tasks' = tasks \cup {p} /\ ph' = [ph EXCEPT ![p] = "arm"]
       \/ ph' = [ph EXCEPT ![p] = "cleanup"] /\ UNCHANGED tasks
    /\ UNCHANGED <<holder, usage, own>>

\* setup_signal_handlers, line 844, and the loop of run_command, which ends
\* in clean_cg_exit (module Supervisor).
Arm(p) ==
    /\ ph[p] = "arm"
    /\ ph' = [ph EXCEPT ![p] = "loop"]
    /\ UNCHANGED <<holder, tasks, usage, own>>

Watch(p) ==
    /\ ph[p] = "loop"
    /\ ph' = [ph EXCEPT ![p] = "cleanup"]
    /\ UNCHANGED <<holder, tasks, usage, own>>

\* clean_cg_exit on a borrowed group, lines 690-700: killall, then exit,
\* which releases the flock.
Cleanup(p) ==
    /\ ph[p] = "cleanup"
    /\ tasks' = {}
    /\ ph' = [ph EXCEPT ![p] = "done"]
    /\ holder' = IF holder = p THEN None ELSE holder
    /\ UNCHANGED <<usage, own>>

Die(p) ==
    /\ ph[p] \in Unguarded \/ ph[p] \in {"loop", "cleanup"}
    /\ ph' = [ph EXCEPT ![p] = "dead"]
    /\ holder' = IF holder = p THEN None ELSE holder
    /\ UNCHANGED <<tasks, usage, own>>

\* A task of the group uses cpu time, or the child of q exits.
Use(q) ==
    /\ q \in tasks
    /\ usage < MaxUse
    /\ usage' = usage + 1
    /\ own' = [own EXCEPT ![q] = @ + 1]
    /\ UNCHANGED <<ph, holder, tasks>>

ChildExit(q) ==
    /\ q \in tasks
    /\ tasks' = tasks \ {q}
    /\ UNCHANGED <<ph, holder, usage, own>>

LrunStep(p) ==
    Create(p) \/ Lock(p) \/ Setup(p) \/ Spawn(p) \/ Arm(p) \/ Watch(p) \/ Cleanup(p)

Next ==
    \E p \in Lruns : LrunStep(p) \/ Die(p) \/ Use(p) \/ ChildExit(p)

\* Each lrun runs on its own and its loop ends (a wall-time limit bounds it);
\* signals, SIGKILL and the children get no fairness.
Spec == Init /\ [][Next]_vars /\ \A p \in Lruns : WF_vars(LrunStep(p))

-----------------------------------------------------------------------------
(* Properties *)

\* While a lrun watches its child, the shared group holds no task of
\* another run, and the usage counter it reads is its own child's: a run
\* that died before it, or one that starts after it, never shows up in its
\* accounting.
SharedAccounting ==
    \A p \in Lruns :
        ph[p] \in {"arm", "loop"} => tasks \subseteq {p} /\ usage = own[p]

LockHeld ==
    \A p \in Lruns : ph[p] \in {"setup", "spawn", "arm", "loop", "cleanup"} <=> holder = p
Accounting ==
    \A p \in Lruns :
        /\ ph[p] = "spawn" => tasks = {} /\ usage = own[p]
        /\ ph[p] \in {"arm", "loop"} => tasks \subseteq {p} /\ usage = own[p]
TasksOwn == \A q \in tasks : own[q] <= usage
IInv == TypeOK /\ LockHeld /\ Accounting /\ TasksOwn

-----------------------------------------------------------------------------
(* Refinement: the lruns implement the lease of module CgroupLease.  A lrun *)
(* is idle before create_cgroup, waits in flock, holds the group in        *)
(* setup_cgroup and clean_cg_exit, is ready to start between killall and  *)
(* spawn, and measures from spawn to the end of the loop.                  *)

StageOf(l) ==
    CASE l = "create" -> "idle"
      [] l = "lock" -> "waiting"
      [] l \in {"setup", "cleanup"} -> "held"
      [] l = "spawn" -> "ready"
      [] l \in {"arm", "loop"} -> "measuring"
      [] OTHER -> "gone"

LeaseStage == [p \in Lruns |-> StageOf(ph[p])]

Lease == INSTANCE CgroupLease WITH stage <- LeaseStage, group <- tasks

====
