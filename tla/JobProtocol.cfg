CONSTANTS
  j1 = j1
  j2 = j2
  p1 = p1
  d1 = d1
  d2 = d2
  w1 = w1
  r1 = r1
  r2 = r2
  c1 = c1
  c2 = c2
  c3 = c3
  c4 = c4
  pr1 = pr1
  pr2 = pr2
  publish = publish
  bind = bind
  unbind = unbind
  Jobs = {j1, j2}
  ContentJobs = {j1, j2}
  Mutations = {j1, j2}
  Projects = {p1}
  ProjectOf <- MCProjectOf
  Documents = {d1}
  DocumentOf <- MCDocumentOf
  HomeOf <- MCHomeOf
  Author = Author
  MaxEdits = 1
  MaxAhead = 2
  Workers = {w1}
  WorkerIds <- MCWorkerIds
  WorkerId <- MCWorkerId
  Commands <- TwoJobs
  NoJob = NoJob
  NoWorker = NoWorker
  MaxAttempts = 2
  MaxLosses = 1
  MaxRecords = 0
  Readers = {r1, r2}
  Creations = {c1, c2, c3, c4}
  Operations = {publish, bind, unbind}
  OwnerOf <- MCOwnerOf
  RequiredOf <- MCRequiredOf
  OperationOf <- MCOperationOf
  Remembered = {c3, c4}
  FactLimit = 2
  SummaryLimit = 1
  PackLimit = 2
  MaxFacts = 2
  MaxTries = 3
  MaxCancels = 1
  MaxReclaims = 2
  o1 = o1
  o2 = o2
  k1 = k1
  k2 = k2
  t1 = t1
  t2 = t2
  t3 = t3
  v1 = v1
  v2 = v2
  v3 = v3
  i1 = i1
  i2 = i2
  b1 = b1
  b2 = b2
  m1 = m1
  m2 = m2
  Operators = {o1, o2}
  Archives = {b1, b2}
  Keys = {k1, k2}
  ObjectsOf <- MCObjectsOf
  MaxRestores = 4
  Tools = {t1, t2, t3}
  External = {t2}
  Releases = {v1, v2, v3}
  ReleaseOf <- MCReleaseOf
  MigrationsOf <- MCMigrationsOf
  Workflows = {k1, k2}
  NodesOf <- MCNodesOf
  TextsOf <- MCTextsOf
  ContractOf <- MCContractOf
  PolicyOf <- MCPolicyOf
  Secrets = {k1, k2}
  MaxInstalls = 3
  Importers = {i1, i2}
  Bundles = {b1, b2}
  Novels = {m1, m2}
  NovelsOf <- MCNovelsOf
  Kinds = {k1, k2}
  Purposes = {k1, k2}
  ProfileOf <- MCProfileOf
  Sealed = {m2}
  MaxImports = 3
  None = None
SPECIFICATION PartSpec
SYMMETRY Swap
INVARIANTS
  Agreement
  OneMutation
  ResumeFindsReview
  VersionsAsFrozen
  RememberedAsRead
  EffectWithCompletion
  ShownInOrder
  TargetWhole
  Deployed
  ImportWhole
CHECK_DEADLOCK FALSE
