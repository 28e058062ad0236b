\* A first process saves its record; a second one gets a signal before init(),
\* or its init() cannot read the record.
SPECIFICATION FairSpec
CONSTANTS
  w1 = w1
  w2 = w2
  Webhooks <- TwoIds
  Retentions = {1, 2}
  UrlCount = 1
  Cleaners <- OneCleaner
  Null = Null
  MaxTime = 1
  MaxFaults = 1
PROPERTIES PersistAcrossRestarts
CHECK_DEADLOCK FALSE
