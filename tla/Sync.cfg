\* Two overlapping jobs, batches of one item, a restart and one fault.
SPECIFICATION FairSpec
CONSTANTS
  e1 = e1
  e2 = e2
  w1 = w1
  w2 = w2
  Events <- TwoEvents
  Webhooks <- TwoWebhooks
  WebhookOf <- OwnerOfTwo
  Jobs = {1, 2}
  Callers = {a, b}
  BatchSize = 1
  Null = Null
  MaxStarts = 2
  MaxPurges = 1
  MaxFaults = 1
INVARIANTS TypeOK NoGap OffsetIsPosition QuietAfterStop
PROPERTIES RunningCanSync OffsetKept ImplementsMirror TriggeredSyncCatchesUp
CHECK_DEADLOCK FALSE
