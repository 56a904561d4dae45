SPECIFICATION FairSpec
CONSTANTS
  Deliveries = {d1, d2}
  NoDelivery = NoDelivery
  Handlers = {h1, h2}
  InitialBudget <- Turbulence
CHECK_DEADLOCK FALSE
INVARIANTS OneJobPerDelivery ProcessedRunsAreEnqueued
PROPERTIES EventsSettleOnce EventsAreSettled
