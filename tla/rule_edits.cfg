SPECIFICATION Spec
CONSTANTS
  Events = {e1}
  ReplayJobs = {q1}
  Rules <- TwoRules
  RunIds <- TwoRuns
  ActionTypes <- MCActionTypes
  ActionLists <- EditedActionLists
  Registered <- MCRegistered
  Workers = {w1, w2}
  None = None
  Limit <- EditLimit
  TotalLimit = 2
  EventAttempts = 2
  ReplayAttempts = 2
  MaxStalledCount = 1
  Readings <- MCReadings
  InitialRules <- FirstRuleOnly
SYMMETRY WorkersAlike
INVARIANTS
  TypeOK
  CleanFinish
  OneRunPerFiring
PROPERTIES
  PlanIsFixed
  OffRulesFireNoMore
  KeepsLedger
