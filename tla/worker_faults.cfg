SPECIFICATION FairSpec
CONSTANTS
  Events = {e1}
  ReplayJobs = {}
  Rules <- TwoRules
  RunIds <- FourRuns
  ActionTypes <- MCActionTypes
  ActionLists <- MCActionLists
  Registered <- MCRegistered
  Workers = {w1, w2}
  None = None
  Limit <- WorkerLimit
  TotalLimit = 3
  EventAttempts = 3
  ReplayAttempts = 2
  MaxStalledCount = 1
  Readings <- MCReadings
  InitialRules <- MCInitialRules
INVARIANTS
  OneRunPerFiring
  CleanFinish
  ProcessedMeansEvaluated
  StatusAgreesWithSlots
  RepeatsNeedFaults
PROPERTIES
  KeepsLedger
  JobsSettle
  EventuallyDelivered
