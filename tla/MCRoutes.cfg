SPECIFICATION RouteSpec
CONSTANTS
    Ids = {i1, i2, i3}
    Names = {n1, n2}
    Usernames = {u1, u2}
    Passwords = {p1}
    EmployeeIds = {k1, k2}
    EmployeeNames = {e1}
    Positions = {p1}
    Companies = {c1}
    Slots = {s1, s2}
    Absent = Absent
    NoDoc = NoDoc
    None = None
SYMMETRY Symmetry
INVARIANTS TypeOK NameBudget OwnRow OneAccountGranted RefusedIsTaken
           EmployeeTypeOK EmployeeBudget
PROPERTIES ImplementsRegistry NeverErased
