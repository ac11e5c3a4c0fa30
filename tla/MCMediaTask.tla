----------------------------- MODULE MCMediaTask -----------------------------
(* Small instances of MediaTask for TLC: one video job and all the commands   *)
(* that matter to it.                                                         *)
EXTENDS MediaTask

CONSTANTS j1, w1, w2

MCWorkerId == [w \in Workers |-> "runtime-local"]
MCWorkerIds == {"runtime-local"}

Cmd(i, t, a) == [id |-> i, job |-> j1, type |-> t, action |-> a]
RunCancelResume ==
  {Cmd(1, "workflow.run", "approve"), Cmd(2, "job.cancel", "approve"),
   Cmd(3, "job.resume", "approve"), Cmd(4, "job.resume", "reconcile")}
RunCancel == {Cmd(1, "workflow.run", "approve"), Cmd(2, "job.cancel", "approve")}
=============================================================================
