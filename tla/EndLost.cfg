CONSTANTS
  j1 = j1
  j2 = j2
  p1 = p1
  d1 = d1
  d2 = d2
  w1 = w1
  Jobs = {j1, j2}
  ContentJobs = {j1, j2}
  Mutations = {}
  Projects = {p1}
  ProjectOf <- MCProjectOf
  Documents = {d1}
  DocumentOf <- MCDocumentOf
  HomeOf <- MCHomeOf
  Author = Author
  MaxEdits = 0
  MaxAhead = 2
  Workers = {w1}
  WorkerIds <- MCWorkerIds
  WorkerId <- MCWorkerId
  Commands <- TwoRuns
  NoJob = NoJob
  NoWorker = NoWorker
  MaxAttempts = 1
  MaxLosses = 0
  MaxRecords = 0
SPECIFICATION FairSpec
PROPERTIES
  EndShown
CHECK_DEADLOCK FALSE
