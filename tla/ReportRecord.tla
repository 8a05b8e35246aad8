---------------------------- MODULE ReportRecord ----------------------------
(***************************************************************************)
(* What the platform promises about one report, with every operation a      *)
(* single step: the rules of problem/domain (status.go, screening.go,        *)
(* service.go, problem.go) and of assigner.create as if each use case ran     *)
(* alone.  ProblemLifecycle is the same system one SQL statement at a time.  *)
(***************************************************************************)
EXTENDS Naturals, FiniteSets

CONSTANTS Problem, Resident, Official, None, V

VARIABLES
    status,     \* as in the problems table, or "Unfiled" / "Gone"
    endorsers,  \* residents whose "valid" vote has been counted
    tally,      \* the published number of endorsers
    text,       \* version of the report's wording
    holder      \* the official the report was handed to

vars == <<status, endorsers, tally, text, holder>>

Open == {"Reported", "Validated"}
Underway == {"Assigned", "InProgress", "Blocked", "Done", "Resolved", "Reopened"}
TakenDown == {"Rejected", "Withdrawn"}
Public == Open \cup Underway \cup TakenDown

Init ==
    /\ status = [p \in Problem |-> "Unfiled"]
    /\ endorsers = [p \in Problem |-> {}]
    /\ tally = [p \in Problem |-> 0]
    /\ text = [p \in Problem |-> 0]
    /\ holder = [p \in Problem |-> None]

File(p) ==
    /\ status[p] = "Unfiled"
    /\ status' = [status EXCEPT ![p] = "PendingApproval"]
    /\ UNCHANGED <<endorsers, tally, text, holder>>

\* The union's admin publishes a report once, and only from the screening queue.
Publish(p) ==
    /\ status[p] = "PendingApproval"
    /\ status' = [status EXCEPT ![p] = "Reported"]
    /\ UNCHANGED <<endorsers, tally, text, holder>>

\* A takedown, by the admin or the reporter, is final and happens before assignment.
TakeDown(p, s) ==
    /\ status[p] \in {"PendingApproval"} \cup Open
    /\ holder[p] = None
    /\ status' = [status EXCEPT ![p] = s]
    /\ UNCHANGED <<endorsers, tally, text, holder>>

\* The wording may change only while nobody has endorsed it.
Reword(p) ==
    /\ status[p] = "Reported"
    /\ endorsers[p] = {}
    /\ text' = [text EXCEPT ![p] = @ + 1]
    /\ UNCHANGED <<status, endorsers, tally, holder>>

\* The V-th endorsement validates a Reported problem and moves no other.
Endorse(p, r) ==
    /\ status[p] \in Public
    /\ r \notin endorsers[p]
    /\ endorsers' = [endorsers EXCEPT ![p] = @ \cup {r}]
    /\ tally' = [tally EXCEPT ![p] = Cardinality(endorsers'[p])]
    /\ status' = [status EXCEPT ![p] =
                    IF @ = "Reported" /\ tally'[p] >= V THEN "Validated" ELSE @]
    /\ UNCHANGED <<text, holder>>

\* A report is handed to one official, once, while it is open.
Assign(p, o) ==
    /\ status[p] \in Open
    /\ holder[p] = None
    /\ holder' = [holder EXCEPT ![p] = o]
    /\ status' = [status EXCEPT ![p] = "Assigned"]
    /\ UNCHANGED <<endorsers, tally, text>>

\* From there the case moves the public status.
Work(p, s) ==
    /\ status[p] \in Underway
    /\ holder[p] # None
    /\ status' = [status EXCEPT ![p] = s]
    /\ UNCHANGED <<endorsers, tally, text, holder>>

Erase(p) ==
    /\ status[p] \in {"PendingApproval"} \cup Public
    /\ status' = [status EXCEPT ![p] = "Gone"]
    /\ endorsers' = [endorsers EXCEPT ![p] = {}]
    /\ tally' = [tally EXCEPT ![p] = 0]
    /\ text' = [text EXCEPT ![p] = 0]
    /\ holder' = [holder EXCEPT ![p] = None]

Next == \E p \in Problem :
    \/ File(p)
    \/ Publish(p)
    \/ \E s \in TakenDown : TakeDown(p, s)
    \/ Reword(p)
    \/ \E r \in Resident : Endorse(p, r)
    \/ \E o \in Official : Assign(p, o)
    \/ \E s \in Underway \ {"Assigned"} : Work(p, s)
    \/ Erase(p)

Spec == Init /\ [][Next]_vars
=============================================================================
