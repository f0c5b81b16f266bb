---------------------------- MODULE VirtualCpus ----------------------------
(***************************************************************************)
(* What preemptive scheduling promises its threads: each of them has a     *)
(* processor of its own.  A thread finds its registers as it left them,    *)
(* however often it is interrupted, and it is ended only after it stopped. *)
(***************************************************************************)
EXTENDS Naturals

CONSTANT Thread

VARIABLES
  progress,  \* what each thread that is not ended has done
  stopped    \* the threads that are done

vars == <<progress, stopped>>

Init ==
  /\ progress = [t \in Thread |-> 0]
  /\ stopped = {}

Step(t) ==
  /\ t \in DOMAIN progress
  /\ progress' = [progress EXCEPT ![t] = @ + 1]
  /\ UNCHANGED stopped

Stop(t) ==
  /\ stopped' = stopped \cup {t}
  /\ UNCHANGED progress

End(t) ==
  /\ t \in stopped
  /\ progress' = [u \in DOMAIN progress \ {t} |-> progress[u]]
  /\ UNCHANGED stopped

Next == \E t \in Thread : Step(t) \/ Stop(t) \/ End(t)

Spec == Init /\ [][Next]_vars

=============================================================================
