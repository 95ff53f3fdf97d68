SPECIFICATION Spec
CONSTANTS
    Ids = {i1, i2}
    Names = {n1, n2}
    Slots = {s1, s2}
    Absent = Absent
    NoDoc = NoDoc
    None = None
INVARIANT UniqueActiveNames
