CONSTANTS
  Workers = {w1}
  Operations = {"run"}
  Answers = {"approve"}
  Total = 2
  MaxRevisions = 1
  Planning = FALSE
  MaxJobs = 1
  MaxClaims = 3
  MaxTexts = 2
  MaxBriefs = 1
  MaxCanon = 0
SPECIFICATION Spec
INVARIANT ChaptersApproved
CHECK_DEADLOCK FALSE
