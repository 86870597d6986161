------------------------------- MODULE JobPool -------------------------------
(***************************************************************************)
(* What the scheduler promises its users, with no threads, queues or       *)
(* fibers: a callback handed to pushtask is run once, on one of Capacity   *)
(* threads; while it waits for an event it occupies no thread, and it goes *)
(* on after the event; Stop returns only when no callback is unfinished.   *)
(***************************************************************************)
EXTENDS Naturals, FiniteSets

CONSTANTS Jobs, Capacity

VARIABLES status, closed

InStatus(s) == {j \in Jobs : status[j] = s}

PoolInit ==
    /\ status = [j \in Jobs |-> "new"]
    /\ closed = FALSE

Change(j, from, to) ==
    /\ ~closed /\ status[j] = from
    /\ status' = [status EXCEPT ![j] = to]
    /\ UNCHANGED closed

Submit(j)  == Change(j, "new", "queued")
StartJob(j) == /\ Cardinality(InStatus("running")) < Capacity
               /\ Change(j, "queued", "running")
Suspend(j) == Change(j, "running", "waiting")
Wake(j)    == Change(j, "waiting", "queued")
Finish(j)  == Change(j, "running", "done")

Close ==
    /\ ~closed
    /\ InStatus("new") \cup InStatus("done") = Jobs
    /\ closed' = TRUE
    /\ UNCHANGED status

PoolNext ==
    \/ \E j \in Jobs : Submit(j) \/ StartJob(j) \/ Suspend(j) \/ Wake(j)
                       \/ Finish(j)
    \/ Close

PoolSpec == PoolInit /\ [][PoolNext]_<<status, closed>>
==============================================================================
