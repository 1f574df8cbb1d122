---- MODULE MC_Ipc ----
(***************************************************************************)
(* The two objects that exist together, or one after the other.            *)
(***************************************************************************)
EXTENDS Ipc

MCPlans == {<<"queue", "mutex">>, <<"event", "sem">>}
====
