---- MODULE MC_Sched ----
(***************************************************************************)
(* Values for the constants of Sched: the rows of kernel_main's task table *)
(* (policy, priority), restricted by each configuration to some tasks.     *)
(***************************************************************************)
EXTENDS Sched

MCClass(t) ==
    CASE t = 0 -> "IDLE"
      [] t = 2 -> "BATCH"
      [] t \in {4, 5} -> "RR"
      [] t = 6 -> "FIFO"
      [] t = 9 -> "DEADLINE"
      [] OTHER -> "NORMAL"
MCPolicy == [t \in Tasks |-> MCClass(t)]
MCPrio   == [t \in Tasks |-> IF t = 6 THEN 4 ELSE IF t \in {4, 5} THEN 6 ELSE 10]
====
