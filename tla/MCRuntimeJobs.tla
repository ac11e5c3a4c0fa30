--------------------------- MODULE MCRuntimeJobs ---------------------------
(* A small instance of RuntimeJobs for TLC: processes that share one worker *)
(* id (the default of settings.py), one job's full set of commands.         *)
EXTENDS RuntimeJobs

CONSTANTS j1, w1, w2

MCWorkerIds == {"runtime-local"}
MCWorkerId == [w \in Workers |-> "runtime-local"]

Cmd(i, j, t, a) == [id |-> i, job |-> j, type |-> t, action |-> a]
OneJobCommands ==
  {Cmd(1, j1, "workflow.run", "approve"), Cmd(2, j1, "job.cancel", "approve"),
   Cmd(3, j1, "job.resume", "approve"), Cmd(4, j1, "job.resume", "revise")}
=============================================================================
