SPECIFICATION LiveSpec
CONSTANTS
  a = a
  b = b
  c = c
  Nil = Nil
  NotStarted = NotStarted
  NoConfig = NoConfig
  Members <- AB
  InitialConfig <- OnlyA
  Proposals <- None
  NewConfigs <- Reconfigurations
  SnapshotThreshold = 20
  Candidates <- AorB
  Connected <- Everyone
  Crashing <- AB
  Listening <- AB
  Joining <- AB
  MaxTerm = 2
  MaxIndex = 2
INVARIANTS ElectionSafety LeaderCompleteness StateMachineSafety GuaranteesHold
PROPERTIES  ReconfigurationFinishes
CHECK_DEADLOCK FALSE
