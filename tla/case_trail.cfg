SPECIFICATION Spec
CONSTANTS
    Plan = {n1, n2, n3}
    Obstacle = {b1}
    Request = {c1, c2}
    None = None
    n1 = n1
    n2 = n2
    n3 = n3
    c1 = c1
    c2 = c2
    Scope = {"open", "accept", "plan", "block", "evidence", "done",
             "solved", "confirm", "deny"}
    Kept = {"solved", "confirm", "deny"}
    Serial = FALSE
    Faults = TRUE
SYMMETRY CaseSymmetry
INVARIANTS
    TrailTellsTheTruth
CHECK_DEADLOCK FALSE
