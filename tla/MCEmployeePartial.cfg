SPECIFICATION Spec
CONSTANTS
    Ids = {i1, i2}
    Names = {n1, n2}
    Positions = {p1}
    Companies = {c1}
    Slots = {s1}
    Absent = Absent
    NoDoc = NoDoc
    None = None
    BodyIds <- ServerIds
    PartialUpdates = TRUE
INVARIANT UniqueActiveEmployees
