\* A read, two writes and a vacuum against resets.
SPECIFICATION FairSpec
CONSTANTS
  r1 = r1
  w1 = w1
  w2 = w2
  v1 = v1
  Null = Null
  Reads <- OneRead
  Writes <- TwoWrites
  Vacuums <- OneVacuum
  Conns <- Handles
  Instances <- TwoInstances
  PoolSize = 1
  MaxResets = 1
INVARIANTS TypeOK OneUser SingleWriter CountedKeepsConnection NoInstanceLost
PROPERTIES ResetCompletes ReadsSettle
