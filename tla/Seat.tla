---------------------------------- MODULE Seat ----------------------------------
(***************************************************************************)
(* What the claim on an office promises, free of statements and retries: a    *)
(* person asks for at most one office, is answered at most once, an office is *)
(* awarded at most once, and power follows an award and is never lost.        *)
(***************************************************************************)
CONSTANTS Person, Office, None

VARIABLES
    sought,     \* the office a person asked for, or None
    answer,     \* "open", "awarded" or "refused"
    power       \* the office a person may act for, or None

vars == <<sought, answer, power>>

Awarded(o) == {p \in Person : sought[p] = o /\ answer[p] = "awarded"}

\* Offices filled before the service opens are awarded and in power.
Init ==
    /\ sought \in [Person -> Office \cup {None}]
    /\ answer = [p \in Person |-> IF sought[p] = None THEN "open" ELSE "awarded"]
    /\ power = sought

Ask(p, o) ==
    /\ sought[p] = None
    /\ sought' = [sought EXCEPT ![p] = o]
    /\ UNCHANGED <<answer, power>>

Award(p) ==
    /\ sought[p] # None
    /\ answer[p] = "open"
    /\ Awarded(sought[p]) = {}
    /\ answer' = [answer EXCEPT ![p] = "awarded"]
    /\ UNCHANGED <<sought, power>>

Refuse(p) ==
    /\ sought[p] # None
    /\ answer[p] = "open"
    /\ answer' = [answer EXCEPT ![p] = "refused"]
    /\ UNCHANGED <<sought, power>>

\* The award is on record before the power is given.
Empower(p) ==
    /\ answer[p] = "awarded"
    /\ power' = [power EXCEPT ![p] = sought[p]]
    /\ UNCHANGED <<sought, answer>>

Next == \E p \in Person :
    \/ \E o \in Office : Ask(p, o)
    \/ Award(p) \/ Refuse(p) \/ Empower(p)

Spec == Init /\ [][Next]_vars
=============================================================================
