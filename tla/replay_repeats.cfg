SPECIFICATION Spec
CONSTANTS
  Events = {e1}
  ReplayJobs = {q1}
  Rules <- OneRule
  RunIds <- TwoRuns
  ActionTypes <- MCActionTypes
  ActionLists <- MCActionLists
  Registered <- MCRegistered
  Workers = {w1, w2}
  None = None
  Limit <- DownstreamOnly
  TotalLimit = 1
  EventAttempts = 2
  ReplayAttempts = 2
  MaxStalledCount = 1
  Readings <- MCReadings
  InitialRules <- MCInitialRules
PROPERTIES
  SucceededIsSkipped
