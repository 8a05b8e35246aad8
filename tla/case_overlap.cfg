SPECIFICATION Spec
CONSTANTS
    Plan = {n1, n2, n3}
    Obstacle = {b1}
    Request = {c1, c2}
    None = None
    n1 = n1
    n2 = n2
    n3 = n3
    c1 = c1
    c2 = c2
    Scope = {"open", "accept", "plan", "replan", "block", "evidence",
             "done", "solved", "reopen", "deny"}
    Kept = {}
    Serial = FALSE
    Faults = TRUE
SYMMETRY CaseSymmetry
INVARIANTS
    Inv
    DoneNeedsEvidence
    PublicHasCause
PROPERTIES
    AnsweredStaysAnswered
    VerdictsAreKept
CHECK_DEADLOCK FALSE
