SPECIFICATION FairSpec
CONSTANTS
  Workers = {w1}
  Jobs = {j1, j2, j3}
  Reviews = {r1, r2}
  NoJob = NoJob
  NoReview = NoReview
  NoWorker = NoWorker
  MaxAttempts = 3
  MaxStalls = 1
  FailureKinds = {"transient", "permanent"}
  InitialBudget <- RetriesAndDrop
  OpensPullRequest = TRUE
CHECK_DEADLOCK FALSE
INVARIANTS TypeOK PublishedDocsApproved 
PROPERTIES CheckpointKeepsWork  
