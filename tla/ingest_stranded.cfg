SPECIFICATION FairSpec
CONSTANTS
  Deliveries = {"signed"}
  Webhook <- MCWebhook
  Tenants <- MCTenants
  Secrets <- MCSecrets
  Sends <- SignedTwice
  FaultLimit = 1
  None = None
PROPERTIES
  AckedIsQueued
