----------------------------- MODULE CaseRecord -----------------------------
(***************************************************************************)
(* What the platform promises about one case, with every operation a single *)
(* step: the state machine of resolution/domain (lifecycle.go, case.go,      *)
(* obstacle.go), its guards, and a public face that moves with the case.     *)
(* CaseLifecycle is the same case one SQL statement at a time.               *)
(***************************************************************************)
CONSTANT Obstacle

VARIABLES
    status,     \* as in the cases table, or "NoCase"
    plan,       \* "none", or whether the plan's week is "open" or "done"
    evidence,   \* whether a before/after pair was attached
    obstacles,  \* "none", "pending", "confirmed" or "denied"
    word,       \* what the reporter has said so far
    public      \* what the public record shows

vars == <<status, plan, evidence, obstacles, word, public>>

Working == {"Planned", "InProgress", "Blocked", "Reopened"}

Init ==
    /\ status = "NoCase"
    /\ plan = "none"
    /\ evidence = FALSE
    /\ obstacles = [o \in Obstacle |-> "none"]
    /\ word = {}
    /\ public = "Assigned"

\* Before work is in progress the public sees an assigned report and no more.
Become(s) ==
    /\ status' = s
    /\ public' = IF s \in {"Assigned", "Acknowledged", "Disputed", "Planned"}
                 THEN "Assigned" ELSE s

Open ==
    /\ status = "NoCase"
    /\ Become("Assigned")
    /\ UNCHANGED <<plan, evidence, obstacles, word>>

Answer(s) ==
    /\ status = "Assigned"
    /\ Become(s)
    /\ UNCHANGED <<plan, evidence, obstacles, word>>

MakePlan ==
    /\ status = "Acknowledged"
    /\ Become("Planned")
    /\ plan' = "open"
    /\ UNCHANGED <<evidence, obstacles, word>>

Revise ==
    /\ status \in {"InProgress", "Reopened"}
    /\ Become("InProgress")
    /\ plan' = "open"
    /\ UNCHANGED <<evidence, obstacles, word>>

Tick ==
    /\ status \in Working
    /\ plan' = "done"
    /\ UNCHANGED <<status, evidence, obstacles, word, public>>

Resume ==
    /\ status \in Working
    /\ Become("InProgress")
    /\ UNCHANGED <<plan, evidence, obstacles, word>>

Block(o) ==
    /\ status \in {"Planned", "InProgress"}
    /\ obstacles[o] = "none"
    /\ Become("Blocked")
    /\ obstacles' = [obstacles EXCEPT ![o] = "pending"]
    /\ UNCHANGED <<plan, evidence, word>>

Attach ==
    /\ status \in Working
    /\ evidence' = TRUE
    /\ UNCHANGED <<status, plan, obstacles, word, public>>

\* The official can reach Done, on evidence, and no further.
MarkDone ==
    /\ status = "InProgress"
    /\ evidence
    /\ Become("Done")
    /\ UNCHANGED <<plan, evidence, obstacles, word>>

\* Only the reporter's word closes a case or sends it back.
Close(outcome) ==
    /\ status = "Done"
    /\ Become(IF outcome = "solved" THEN "Resolved" ELSE "Reopened")
    /\ word' = word \cup {outcome}
    /\ UNCHANGED <<plan, evidence, obstacles>>

\* An obstacle is judged once: upheld, and the case waits; denied, and work resumes.
Uphold(o) ==
    /\ obstacles[o] = "pending"
    /\ obstacles' = [obstacles EXCEPT ![o] = "confirmed"]
    /\ UNCHANGED <<status, plan, evidence, word, public>>

Deny(o) ==
    /\ obstacles[o] = "pending"
    /\ status \in Working
    /\ Become("InProgress")
    /\ obstacles' = [obstacles EXCEPT ![o] = "denied"]
    /\ UNCHANGED <<plan, evidence, word>>

Next ==
    \/ Open
    \/ \E s \in {"Acknowledged", "Disputed"} : Answer(s)
    \/ MakePlan \/ Revise \/ Tick
    \/ Resume \/ Attach \/ MarkDone
    \/ \E outcome \in {"solved", "not_solved"} : Close(outcome)
    \/ \E o \in Obstacle : Block(o) \/ Uphold(o) \/ Deny(o)

Spec == Init /\ [][Next]_vars
=============================================================================
