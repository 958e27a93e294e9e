SPECIFICATION FairPipelineSpec
CONSTANTS
  Events <- MCEvents
  ReplayJobs = {}
  Rules <- MCRules
  RunIds <- MCRuns
  ActionTypes <- MCTypes
  ActionLists <- MCLists
  Registered <- MCTypes
  Workers = {w1, w2}
  None = None
  Limit <- MCLimit
  TotalLimit = 2
  EventAttempts = 2
  ReplayAttempts = 1
  MaxStalledCount = 1
  Readings <- MCReadings
  InitialRules <- MCInitialRules
  Deliveries <- MCDeliveries
  Webhook <- MCWebhook
  Tenants <- MCTenants
  Secrets <- MCSecrets
  Sends <- MCSends
  FaultLimit = 1
INVARIANTS
  OneRunPerWebhook
  ActsOncePerWebhook
  OnlyVerifiedRun
PROPERTIES
  ImplementsIngest
  SenderIsAcked
  ReceivedIsDelivered
  AckedIsDelivered
