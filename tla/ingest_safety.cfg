SPECIFICATION Spec
CONSTANTS
  Deliveries = {"signed", "forged", "crm", "globex", "unnamed", "refund", "untyped"}
  Webhook <- MCWebhook
  Tenants <- MCTenants
  Secrets <- MCSecrets
  Sends <- SignedTwice
  FaultLimit = 1
  None = None
INVARIANTS
  IngestTypeOK
  OnlyVerifiedStored
  AckIsBacked
  OneJobPerDelivery
  StrandedNeedsFault
