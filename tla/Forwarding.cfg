\* Three forwards and a replay, two hosts, a breaker of one place.
SPECIFICATION FairSpec
CONSTANTS
  f1 = f1
  f2 = f2
  f3 = f3
  p1 = p1
  h1 = h1
  h2 = h2
  Forwards <- ThreeForwards
  Replays <- OneReplay
  Hosts <- TwoHosts
  HostOf <- Targets
  RetriesOf <- Retries
  Threshold = 2
  Cooldown = 2
  MaxSize = 1
INVARIANTS TypeOK EachRequestCountsOnce
PROPERTIES ImplementsDelivery RequestsEnd
CHECK_DEADLOCK FALSE
