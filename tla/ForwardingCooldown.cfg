\* A replay, or a forward that looked at the breaker earlier, to a blocked host.
SPECIFICATION Spec
CONSTANTS
  f1 = f1
  f2 = f2
  f3 = f3
  p1 = p1
  h1 = h1
  h2 = h2
  Forwards <- ThreeForwards
  Replays <- OneReplay
  Hosts <- TwoHosts
  HostOf <- Targets
  RetriesOf <- Once
  Threshold = 2
  Cooldown = 2
  MaxSize = 1
PROPERTIES BlockedDuringCooldown
CHECK_DEADLOCK FALSE
