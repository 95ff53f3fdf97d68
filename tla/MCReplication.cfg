CONSTANTS
    NumKeys = 3
    Changes = {{1, 2, 3}, {2}}
    ItemQueue = 1
    PreItemQueue = 1
    Scenarios <- AllScenarios
SPECIFICATION LiveSpec
INVARIANTS TypeOK MetainfoIsTrue TrackerIsTrue GuaranteesHold ThrottlesBalance ReadsSeeAckedWrites
PROPERTIES NeverRewinds CatchesUp ImplementsStream
CHECK_DEADLOCK FALSE
