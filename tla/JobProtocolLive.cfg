CONSTANTS
  j1 = j1
  j2 = j2
  p1 = p1
  d1 = d1
  d2 = d2
  w1 = w1
  Jobs = {j1, j2}
  ContentJobs = {j1, j2}
  Mutations = {j1}
  Projects = {p1}
  ProjectOf <- MCProjectOf
  Documents = {d1, d2}
  DocumentOf <- MCOwnDocument
  HomeOf <- MCHomeOf
  Author = Author
  MaxEdits = 0
  MaxAhead = 2
  Workers = {w1}
  WorkerIds <- MCWorkerIds
  WorkerId <- MCWorkerId
  Commands <- OwnDocuments
  NoJob = NoJob
  NoWorker = NoWorker
  MaxAttempts = 2
  MaxLosses = 0
  MaxRecords = 0
SPECIFICATION FairSpec
PROPERTIES
  CancelSettles
  EndShown
CHECK_DEADLOCK FALSE
