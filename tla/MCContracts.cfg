CONSTANTS
    s1 = s1
    s2 = s2
    s3 = s3
    s4 = s4
    Nil = Nil
    Servers = {s1, s2, s3}
    Scenarios <- AllScenarios
SYMMETRY Symmetry
SPECIFICATION Spec
INVARIANTS TypeOK AckedOnMajority AckedAtPrimary AckedOnBranch ReadsSeeAckedWrites CommonAncestorIsExact PrimaryOnCurrentBranch
CHECK_DEADLOCK FALSE
