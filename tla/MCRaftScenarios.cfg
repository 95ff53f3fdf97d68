SPECIFICATION ScenarioSpec
CONSTANTS
  a = a
  b = b
  c = c
  Nil = Nil
  NotStarted = NotStarted
  NoConfig = NoConfig
  Members <- ABC
  InitialConfig <- AllVote
  Proposals <- ChangeOrNoop
  NewConfigs <- None
  SnapshotThreshold = 20
  Candidates <- AorB
  Connected <- OneWay
  Crashing <- JustC
  Listening <- AC
  Joining <- None
  MaxTerm = 3
  MaxIndex = 0
INVARIANTS TypeOK ElectionSafety LogMatching LeaderCompleteness StateMachineSafety StatesInSync GuaranteesHold
PROPERTIES NeverGoesBackwards
CHECK_DEADLOCK FALSE
