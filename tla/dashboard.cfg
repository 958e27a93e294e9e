SPECIFICATION FairSpec
CONSTANTS
  Tenants <- MCTenants
  FirstTenant = "acme"
  Docs = {"job", "rule"}
  Owner <- MCOwner
  Tab <- MCTab
  InitialStore <- MCStore
  MaxCalls = 2
  MaxClicks = 2
  MaxMishaps = 1
  None = None
INVARIANTS
  TypeOK
  ReplaysAreNotRepeated
  QuietRulesAreTrue
PROPERTIES
  ClicksStayHome
  TableCatchesUp
