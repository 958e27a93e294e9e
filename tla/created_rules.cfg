SPECIFICATION Spec
CONSTANTS
  Payloads <- MCPayloads
  Conditions <- MCConditions
  MaxLength = 2
  Values <- MCValues
  NumberOf <- MCNumberOf
  Within <- MCWithin
  NaN = NaN
  None = None
INVARIANTS
  AskedIsEvaluated
