SPECIFICATION Spec
CONSTANTS
    Ids = {i1, i2}
    Roles = {r1, r2}
    Slots = {s1}
    Absent = Absent
    NoDoc = NoDoc
    None = None
INVARIANT OneCreatedPerRole
