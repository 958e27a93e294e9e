SPECIFICATION Spec
CONSTANTS
  Events = {e1}
  ReplayJobs = {q1, q2}
  Rules <- OneRule
  RunIds <- TwoRuns
  ActionTypes <- MCActionTypes
  ActionLists <- MCActionLists
  Registered <- MCRegistered
  Workers = {w1, w2}
  None = None
  Limit <- ReplayLimit
  TotalLimit = 2
  EventAttempts = 2
  ReplayAttempts = 2
  MaxStalledCount = 1
  Readings <- MCReadings
  InitialRules <- MCInitialRules
SYMMETRY AllAlike
INVARIANTS
  SuccessIsReal
  StatusAgreesWithSlots
  CleanFinish
  QueuedIsPursued
PROPERTIES
  SuccessIsFinal
