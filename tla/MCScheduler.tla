---------------------------- MODULE MCScheduler ----------------------------
(***************************************************************************)
(* Instances of Scheduler for TLC: three threads, of which one is a kernel *)
(* thread and two belong to processes.                                     *)
(***************************************************************************)
EXTENDS Scheduler

CONSTANTS t1, t2, t3, d2, d3

Threads == {t1, t2, t3}
Directories == [t \in Threads |-> IF t = t1 THEN NoDirectory ELSE IF t = t2 THEN d2 ELSE d3]
StackTops == [t \in Threads |-> IF t = t1 THEN 5 ELSE IF t = t2 THEN 10 ELSE 15]

=============================================================================
