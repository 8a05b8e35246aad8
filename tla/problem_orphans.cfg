SPECIFICATION ReRunSpec
CONSTANTS
    Problem = {p1}
    Resident = {r1}
    Admin = {a1}
    Official = {o1}
    Request = {c1, c2}
    None = None
    r1 = r1
    r2 = r2
    c1 = c1
    c2 = c2
    V = 1
    MaxText = 0
    Kept = {"report"}
    Serial = FALSE
    Faults = TRUE
PROPERTIES
    OrphansAreCleanable
CHECK_DEADLOCK FALSE
