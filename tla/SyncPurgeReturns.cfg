\* The cleanup of a webhook whose item has the highest offset, then a sync.
SPECIFICATION Spec
CONSTANTS
  e1 = e1
  e2 = e2
  w1 = w1
  w2 = w2
  Events <- TwoEvents
  Webhooks <- TwoWebhooks
  WebhookOf <- OwnerOfTwo
  Jobs = {1}
  Callers = {a}
  BatchSize = 2
  Null = Null
  MaxStarts = 2
  MaxPurges = 1
  MaxFaults = 0
PROPERTIES PurgedByCleanupStayPurged
CHECK_DEADLOCK FALSE
