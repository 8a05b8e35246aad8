SPECIFICATION Spec
CONSTANTS
    Problem = {p1}
    Resident = {r1, r2, r3}
    Admin = {a1}
    Official = {o1}
    Request = {c1, c2}
    None = None
    r1 = r1
    r2 = r2
    c1 = c1
    c2 = c2
    V = 2
    MaxText = 1
    Kept = {}
    Serial = TRUE
    Faults = FALSE
INVARIANTS
    CountIsExactWhenQuiet
PROPERTIES
    KeepsTheRecord
    
CHECK_DEADLOCK FALSE
