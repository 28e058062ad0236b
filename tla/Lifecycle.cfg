\* Two inputs that can be applied, one that cannot be read, one that fails
\* half-way; the process starts with the input of its environment. Two
\* shutdowns, one stream.
SPECIFICATION FairSpec
CONSTANTS
  a = a
  b = b
  excessive = excessive
  broken = broken
  Inputs <- SomeInputs
  Broken = {broken}
  Excessive = {excessive}
  InitialInputs = {a}
  EnvInputs = {b}
  MaxClients = 1
  MaxAttempts = 2
  None = None
  MaxChanges = 2
  MaxFaults = 1
INVARIANTS TypeOK ConfigWhole
PROPERTIES InputTaken ShutdownEnds
CHECK_DEADLOCK FALSE
