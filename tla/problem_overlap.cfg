SPECIFICATION Spec
CONSTANTS
    Problem = {p1}
    Resident = {r1, r2}
    Admin = {a1}
    Official = {o1, o2}
    Request = {c1, c2}
    None = None
    r1 = r1
    r2 = r2
    c1 = c1
    c2 = c2
    V = 2
    MaxText = 1
    Kept = {}
    Serial = FALSE
    Faults = TRUE
SYMMETRY SafetySymmetry
INVARIANTS
    Inv
    ScreenedFirst
    HeldOnceAssigned
    ValidatedMeansV
    CountNeverOverstates
PROPERTIES
    NeverHiddenAgain
    HolderNeverReplaced
CHECK_DEADLOCK FALSE
