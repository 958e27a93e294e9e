SPECIFICATION Spec
CONSTANTS
  Events = {e1}
  ReplayJobs = {}
  Rules <- OneRule
  RunIds <- TwoRuns
  ActionTypes <- MCActionTypes
  ActionLists <- MCActionLists
  Registered <- MCRegistered
  Workers = {w1, w2}
  None = None
  Limit <- LockLossOnly
  TotalLimit = 1
  EventAttempts = 2
  ReplayAttempts = 2
  MaxStalledCount = 1
  Readings <- MCReadings
  InitialRules <- MCInitialRules
INVARIANTS
  OneRowSeen
