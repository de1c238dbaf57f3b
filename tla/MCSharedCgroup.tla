--------------------------- MODULE MCSharedCgroup ---------------------------
(* Three lrun processes sharing one --cgname. *)
EXTENDS SharedCgroup

CONSTANTS l1, l2, l3

MCLruns == {l1, l2, l3}
====
