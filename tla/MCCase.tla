------------------------------- MODULE MCCase -------------------------------
(* Instances of CaseLifecycle for TLC; the cfg files give the constants. *)
EXTENDS CaseRefinement, TLC

CONSTANTS n1, n2, n3, c1, c2

\* Plan ids and request slots are interchangeable: no definition names one.
CaseSymmetry == Permutations({n1, n2, n3}) \cup Permutations({c1, c2})
=============================================================================
