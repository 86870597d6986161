----------------------------- MODULE MCScheduler -----------------------------
(* Small instances of Scheduler for TLC. *)
EXTENDS SchedulerProps

CONSTANTS j1, w1

\* No callback is tied to a thread; j1 is tied to w1.
FreePins == [j \in Jobs |-> AnyThread]
PinJ1    == [j \in Jobs |-> IF j = j1 THEN w1 ELSE AnyThread]
==============================================================================
