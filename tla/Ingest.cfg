\* One request of every kind, a hot reload, one fault.
SPECIFICATION FairSpec
CONSTANTS
  r1 = r1
  s1 = s1
  s2 = s2
  Requests <- OneRequest
  OptionSets <- Configurations
  Senders <- SomeSenders
  Channels = {"slack", "discord"}
  Edits <- SomeEdits
  Null = Null
  MaxReloads = 1
  MaxFaults = 1
INVARIANTS TypeOK AnsweredOnce SignatureHonoured PayloadsAccounted EffectsJustified
PROPERTIES EveryRequestSettles
CHECK_DEADLOCK FALSE
