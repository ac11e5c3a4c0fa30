CONSTANTS
  j1 = j1
  w1 = w1
  w2 = w2
  Jobs = {j1}
  ContentJobs = {j1}
  Workers = {w1, w2}
  WorkerIds <- MCWorkerIds
  WorkerId <- MCWorkerId
  Commands <- OneJobCommands
  NoJob = NoJob
  NoWorker = NoWorker
  MaxAttempts = 2
  MaxLosses = 2
  MaxRecords = 2
SPECIFICATION FairSpec
INVARIANTS
  LogTellsStatus
  TerminalSeals
  OneHolder
  ApprovedDraftPublished
PROPERTIES
  CancelWins KeepsLifecycle LeasesJobs JobSettles
CHECK_DEADLOCK FALSE
