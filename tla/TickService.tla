------------------------------ MODULE TickService ------------------------------
(***************************************************************************)
(* What runSchedulerCycle of src/lib/scheduler.ts promises to those who    *)
(* ask for a cycle: its state is the cycles in flight and whether the      *)
(* scheduler is open.  Where the test tools are on (exclusive), a cycle    *)
(* begins only when none is in flight, and while the scheduler is closed   *)
(* only somebody at the panel can ask for one; elsewhere the worker        *)
(* endpoint may begin one at any moment.  Whatever is in flight ends, or   *)
(* is lost with the process.                                               *)
(***************************************************************************)
EXTENDS Integers

CONSTANT CycleSource  \* who may ask for a cycle

VARIABLES
  exclusive,  \* one cycle at a time
  open,       \* the scheduler runs
  active      \* active[s]: the cycles in flight that s asked for

vars == <<exclusive, open, active>>

Idle == \A s \in CycleSource : active[s] = 0

Init ==
  /\ exclusive \in BOOLEAN
  /\ open = FALSE
  /\ active = [s \in CycleSource |-> 0]

Begin(s) ==
  /\ exclusive => Idle /\ (open \/ s = "run-now")
  /\ ~exclusive => s = "worker"
  /\ active' = [active EXCEPT ![s] = @ + 1]
  /\ UNCHANGED <<exclusive, open>>

End(s) ==
  /\ active[s] > 0
  /\ active' = [active EXCEPT ![s] = @ - 1]
  /\ UNCHANGED <<exclusive, open>>

\* The scheduler of a process without test tools cannot be opened.
OpenOrClose ==
  /\ exclusive
  /\ open' = ~open
  /\ UNCHANGED <<exclusive, active>>

\* The process ends, and with it everything it was doing.
Die ==
  /\ open' = FALSE
  /\ active' = [s \in CycleSource |-> 0]
  /\ UNCHANGED exclusive

Next ==
  \/ \E s \in CycleSource : Begin(s) \/ End(s)
  \/ OpenOrClose
  \/ Die

Spec == Init /\ [][Next]_vars
================================================================================
