--------------------------------- MODULE Maximum ---------------------------------
(***************************************************************************)
(* Of finitely many naturals one is the greatest: what the latest obstacle,   *)
(* the last window and the end of a full list rest on.                        *)
(***************************************************************************)
EXTENDS Integers, TLAPS, WellFoundedInduction

\* The code takes "the latest" of rows ordered by time (case.go:96, scorecard_query.go:44,
\* notification_repo.go:80): there is one whenever there are rows.
THEOREM GreatestExists ==
    ASSUME NEW last \in Nat, NEW S \in SUBSET (0..last), S # {}
    PROVE  \E b \in S : \A c \in S : c <= b
<1> DEFINE T == {last - b : b \in S}
           less == {ss \in Nat \X Nat : ss[1] < ss[2]}
<1>1. T \subseteq Nat /\ T # {}
  <2>1. \A b \in S : last - b \in Nat
    OBVIOUS
  <2>2. \E b \in S : TRUE
    OBVIOUS
  <2> QED
    BY <2>1, <2>2
<1>2. IsWellFoundedOn(less, Nat)
  BY NatLessThanWellFounded, Zenon DEF OpToRel
<1> HIDE DEF T
<1>3. PICK x \in T : \A y \in T : ~ (<<y, x>> \in less)
  <2> HIDE DEF less
  <2> QED
    BY <1>1, <1>2, WFMin
<1>4. \A y \in T : ~ (y < x)
  BY <1>1, <1>3
<1>5. PICK b \in S : x = last - b
  BY <1>3 DEF T
<1>6. ASSUME NEW c \in S
      PROVE  c <= b
  <2>1. ~ (last - c < x)
    BY <1>4 DEF T
  <2> QED
    BY <1>5, <2>1
<1> QED
  BY <1>6
=============================================================================
