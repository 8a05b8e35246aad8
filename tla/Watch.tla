--------------------------------- MODULE Watch ---------------------------------
(***************************************************************************)
(* What the escalation scan promises about one case (resolution/domain,      *)
(* observation.go and escalation.go): visibility only climbs, and the people *)
(* called in to watch a silent case are the lowest rungs of its ladder, one  *)
(* after the other, until an answer releases all of them together.           *)
(***************************************************************************)
EXTENDS Naturals

CONSTANT MaxLevel   \* domain.MaxEscalationLevel

VARIABLES
    level,      \* how visible the case has become
    watching    \* the rungs with an open observation

Rung == 1..MaxLevel

Init == level = 0 /\ watching = {}

Climb ==
    /\ \E k \in Rung : k > level /\ level' = k
    /\ UNCHANGED watching

CallIn ==
    /\ \E k \in Rung : watching = 1..(k - 1) /\ watching' = 1..k
    /\ UNCHANGED level

Release ==
    /\ watching' = {}
    /\ UNCHANGED level

Next == Climb \/ CallIn \/ Release

Spec == Init /\ [][Next]_<<level, watching>>
================================================================================
