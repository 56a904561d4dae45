SPECIFICATION Spec
CONSTANTS
  mine = mine
  other = other
  Runs = {mine, other}
  Viewed = mine
  Nodes <- Pipeline
  Gate = "DocumentationCritic"
  MaxAttempts = 2
  MaxInFlight = 1
  InitialBudget <- Turbulence
INVARIANTS TypeOK  ConnectedIsSubscribed
CHECK_DEADLOCK FALSE
