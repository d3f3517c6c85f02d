---------------------------- MODULE OneShotRuntime ----------------------------
(***************************************************************************)
(* What the runtime lifecycle promises for one task execution, without      *)
(* workers, leases or a provider: at most one workload instance is ever     *)
(* started ("Runtime failures never create another execution or invoke the  *)
(* provider again", service/task_execution_reconcile.go), it may stop at    *)
(* any time and never comes back, and the execution is closed only when     *)
(* nothing runs, after which nothing ever starts.                           *)
(***************************************************************************)
VARIABLES started,   \* the instances that were ever started
          alive,     \* a started instance is running
          closed     \* the execution's cleanup is done

avars == <<started, alive, closed>>

AInit == started = {} /\ alive = FALSE /\ closed = FALSE

Start == /\ started = {} /\ ~closed
         /\ \E i \in started' : started' = {i}
         /\ alive' = TRUE /\ UNCHANGED closed

Stop == alive /\ alive' = FALSE /\ UNCHANGED <<started, closed>>

Close == ~alive /\ ~closed /\ closed' = TRUE /\ UNCHANGED <<started, alive>>

ANext == Start \/ Stop \/ Close

ASpec == AInit /\ [][ANext]_avars
=============================================================================
