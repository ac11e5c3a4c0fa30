--------------------------- MODULE MCJobProtocol ---------------------------
(* Small instances of JobProtocol for TLC: two jobs of one project that write *)
(* the same document.                                                       *)
EXTENDS JobProtocol

CONSTANTS j1, j2, p1, d1, d2, w1

MCWorkerId == [w \in Workers |-> "runtime-local"]
MCWorkerIds == {"runtime-local"}
MCProjectOf == [j \in Jobs |-> p1]
MCDocumentOf == [j \in Jobs |-> d1]
MCOwnDocument == [j \in Jobs |-> IF j = j1 THEN d1 ELSE d2]
MCHomeOf == [d \in Documents |-> p1]

Cmd(i, j, t, a) == [id |-> i, job |-> j, type |-> t, action |-> a]
Run(i, j) == Cmd(i, j, "workflow.run", "approve")
Cancel(i, j) == Cmd(i, j, "job.cancel", "approve")
Resume(i, j, a) == Cmd(i, j, "job.resume", a)

OwnDocuments == {Run(1, j1), Run(2, j2), Cancel(4, j2), Resume(5, j1, "approve")}
OneJob == {Run(1, j1), Cancel(2, j1), Resume(3, j1, "approve"), Resume(4, j1, "revise")}
TwoJobs == {Run(1, j1), Run(2, j2), Cancel(3, j1),
            Resume(5, j1, "approve"), Resume(6, j1, "revise")}
TwoWriters == {Run(1, j1), Run(2, j2), Cancel(3, j2), Resume(4, j2, "approve")}
TwoRuns == {Run(1, j1), Run(2, j2)}
=============================================================================
