SPECIFICATION Spec
CONSTANTS
  Workers = {w1, w2}
  Jobs = {j1, j2, j3}
  Reviews = {r1, r2}
  NoJob = NoJob
  NoReview = NoReview
  NoWorker = NoWorker
  MaxAttempts = 2
  MaxStalls = 1
  FailureKinds = {"transient"}
  InitialBudget <- Stalls
  OpensPullRequest = TRUE
CHECK_DEADLOCK FALSE
SYMMETRY Anonymous
INVARIANTS NoPublicationWithoutApproval OnePendingReview
PROPERTY ImplementsReviewGate
