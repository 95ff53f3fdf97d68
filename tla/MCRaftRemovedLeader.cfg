SPECIFICATION LiveSpec
CONSTANTS
  a = a
  b = b
  c = c
  Nil = Nil
  NotStarted = NotStarted
  NoConfig = NoConfig
  Members <- AB
  InitialConfig <- ListenerB
  Proposals <- None
  NewConfigs <- Reconfigurations
  SnapshotThreshold = 20
  Candidates <- JustA
  Connected <- Everyone
  Crashing <- None
  Listening <- None
  Joining <- None
  MaxTerm = 2
  MaxIndex = 2
PROPERTIES RemovedLeaderStepsDown
CHECK_DEADLOCK FALSE
