\* One event, or two, whose last sync runs before the item is readable.
SPECIFICATION FairSpec
CONSTANTS
  e1 = e1
  e2 = e2
  w1 = w1
  w2 = w2
  Events <- TwoEvents
  Webhooks <- TwoWebhooks
  WebhookOf <- OwnerOfTwo
  Jobs = {1}
  Callers = {a}
  BatchSize = 2
  Null = Null
  MaxStarts = 1
  MaxPurges = 1
  MaxFaults = 1
PROPERTIES GapRecovery
CHECK_DEADLOCK FALSE
