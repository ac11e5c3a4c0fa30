CONSTANTS
  Workers = {w1}
  Operations = {"run", "canon"}
  Answers = {"approve"}
  Total = 1
  MaxRevisions = 0
  Planning = FALSE
  MaxJobs = 2
  MaxClaims = 3
  MaxTexts = 1
  MaxBriefs = 1
  MaxCanon = 2
SPECIFICATION Spec
PROPERTY ApprovalTaken
CHECK_DEADLOCK FALSE
