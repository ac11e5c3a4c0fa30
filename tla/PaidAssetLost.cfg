CONSTANTS
  Workers = {w1, w2}
  MaxClaims = 3
  MaxBytes = 2
  Asked = 2
  Longest = 3
  w1 = w1
  w2 = w2
  w3 = w3
  j1 = j1
  NoJob = NoJob
  NoWorker = NoWorker
  f1 = f1
  f2 = f2
  Films = {f1, f2}
  MaxShots = 3
  MaxEffects = 1
  Planned = {1, 20, 400000}
  Narrations = {0, 32001}
  Visuals = {0, 19501}
  Sounds = {0, 2001, 5000000}
  Rates = {1, 24, 25}
  SourceRates = {0, 60}
  Videos = {j1}
  ContentJobs = {}
  Commands <- MCCommands
  WorkerIds <- MCWorkerIds
  WorkerId <- MCWorkerId
  MaxAttempts = 2
  MaxLosses = 1
  MaxRecords = 0
  NoFilm = NoFilm
  Writings = {"run"}
  Verdicts = {"approve", "revise", "version"}
  Total = 2
  MaxRevisions = 1
  Planning = FALSE
  MaxJobs = 2
  MaxTakes = 2
  MaxTexts = 3
  MaxBriefs = 2
  MaxCanon = 0
  t1 = t1
  t2 = t2
  n1 = n1
  n2 = n2
  None = None
  Odd = Odd
  Names = {n1, n2}
  Works = {t1, t2}
  Drafts <- MCDrafts
  Weak <- MCWeak
  Source <- MCSource
  Structured = TRUE
  Adapting = TRUE
  Stages <- MCStages
  Limit = 3
  Costs = {2}
  MaxCost = 2
  MaxTries = 2
  Parts = {"media"}
SPECIFICATION PartSpec
INVARIANTS
  ArchivedNotFailed
CHECK_DEADLOCK FALSE
