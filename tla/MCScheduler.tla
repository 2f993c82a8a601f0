----------------------------- MODULE MCScheduler -----------------------------
(* A synchronous job and a coroutine on a pool of one thread, which a      *)
(* cancelled loop of the synchronous job can leave occupied.               *)
EXTENDS Scheduler

Jobs == {"daily", "probe"}
OneJob == {"daily"}
Probe == {"probe"}
NoJob == {}
=============================================================================
