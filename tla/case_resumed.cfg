SPECIFICATION Spec
CONSTANTS
    Plan = {n1, n2, n3}
    Obstacle = {b1}
    Request = {c1, c2}
    None = None
    n1 = n1
    n2 = n2
    n3 = n3
    c1 = c1
    c2 = c2
    Scope = {"open", "accept", "dispute", "plan", "replan", "tick", "progress", "note",
             "block", "evidence", "done", "solved", "reopen", "confirm", "deny"}
    Kept = {}
    Serial = TRUE
    Faults = FALSE
INVARIANTS
    ResumedMeansResolved
CHECK_DEADLOCK FALSE
