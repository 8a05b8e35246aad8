------------------------------ MODULE MCProblem ------------------------------
(* Instances of ProblemLifecycle for TLC; the cfg files give the constants. *)
EXTENDS ProblemRefinement, TLC

CONSTANTS r1, r2, c1, c2

\* Residents, and request slots, are interchangeable: no definition names one.
SafetySymmetry == Permutations({r1, r2}) \cup Permutations({c1, c2})
=============================================================================
