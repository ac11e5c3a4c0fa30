CONSTANTS
  j1 = j1
  w1 = w1
  w2 = w2
  Jobs = {j1}
  ContentJobs = {}
  Workers = {w1}
  WorkerIds <- MCWorkerIds
  WorkerId <- MCWorkerId
  Commands <- RunCancelResume
  NoJob = NoJob
  NoWorker = NoWorker
  MaxAttempts = 2
  MaxLosses = 1
  MaxRecords = 1
SPECIFICATION FairSpec
PROPERTY HandlerEnds
CHECK_DEADLOCK FALSE
