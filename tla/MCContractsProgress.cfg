CONSTANTS
    s1 = s1
    s2 = s2
    s3 = s3
    s4 = s4
    Nil = Nil
    Servers = {s1, s2, s3}
    Scenarios <- ReachableScenarios
SPECIFICATION LiveSpec
PROPERTY ConfigurationReached
CHECK_DEADLOCK FALSE
