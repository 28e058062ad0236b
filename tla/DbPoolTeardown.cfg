\* A read that has not got its connection yet is overtaken by a reset.
SPECIFICATION FairSpec
CONSTANTS
  r1 = r1
  w1 = w1
  w2 = w2
  v1 = v1
  Null = Null
  Reads <- OneRead
  Writes <- TwoWrites
  Vacuums <- OneVacuum
  Conns <- Handles
  Instances <- TwoInstances
  PoolSize = 1
  MaxResets = 1
PROPERTIES TeardownAfterReads
