\* Three lruns on one borrowed cgroup; the counter reaches 2.
CONSTANTS
    l1 = l1
    l2 = l2
    l3 = l3
    Lruns <- MCLruns
    MaxUse = 2
    None = None

SPECIFICATION Spec

INVARIANT SharedAccounting
INVARIANT IInv
 

\* Every lrun ends: a run whose lruns all ended has no successor state.
CHECK_DEADLOCK FALSE
