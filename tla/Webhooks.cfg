\* Two ids, two overlapping cleanups, two retentions, one fault.
SPECIFICATION FairSpec
CONSTANTS
  w1 = w1
  w2 = w2
  Webhooks <- TwoIds
  Retentions = {1, 2}
  UrlCount = 1
  Cleaners <- TwoCleaners
  Null = Null
  MaxTime = 2
  MaxFaults = 1
INVARIANTS TypeOK LapsedForGood SavedIsCurrent
PROPERTIES ActiveKept ActiveKeepsData RestoredStaysSaved ExpiredIsRemoved
CHECK_DEADLOCK FALSE
