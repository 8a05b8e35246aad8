-------------------------- MODULE ProblemRefinement --------------------------
(***************************************************************************)
(* ProblemLifecycle implements ReportRecord while requests on one report do *)
(* not overlap and none dies half-way.  A use case takes its abstract step   *)
(* at the statement that publishes its outcome: a vote counts when           *)
(* UpdateValidation ran, an assignment exists when MarkAssigned ran.         *)
(***************************************************************************)
EXTENDS ProblemLifecycle

\* A request on p, acting for w, stands at one of the given statements.
Pending(p, w, ats) ==
    \E c \in Request : req[c] # Idle /\ req[c].p = p /\ req[c].who = w /\ req[c].pc \in ats

Counted == [p \in Problem |->
    {r \in ValidVoters(p) : ~ Pending(p, r, {"count", "save"})}]

PublishedHolder == [p \in Problem |->
    IF \E a \in Admin : Pending(p, a, {"mark"}) THEN None ELSE holder[p]]

Abstract == INSTANCE ReportRecord WITH
    endorsers <- Counted, tally <- validCount, holder <- PublishedHolder

\* A report behaves as ReportRecord says: published once, taken down for good and
\* only before assignment, reworded only while unendorsed, validated by its V-th
\* endorsement, handed to one official.
KeepsTheRecord == Abstract!Spec

-----------------------------------------------------------------------------
(* Why it does: what a request loaded is still so when its next statement runs. *)

OneAtATime ==
    \A c, d \in Request :
        req[c] # Idle /\ req[d] # Idle /\ req[c].p = req[d].p => c = d

Fresh(h) ==
    /\ h.pc \notin {"purge", "audit", "tell"} => status[h.p] = h.from
    /\ h.pc = "screen" =>
          \/ h.from = "PendingApproval" /\ h.to = "Reported"
          \/ Rejectable(h.from) /\ h.to = "Rejected"
    /\ h.pc = "withdraw" => Withdrawable(h.from)
    /\ h.pc \in {"count", "save"} => votes[h.p][h.who] = h.arg
    /\ h.pc = "save" => h.count = DistinctValidVoters(h.p)
    /\ h.pc \in {"insert", "mark"} => EligibleForAssignment(h.from) /\ h.who \in Admin

\* The published count is that of the votes counted so far, V of them have validated
\* their report, and a published holder means a report that is underway.
Published(p) ==
    /\ validCount[p] = Cardinality(Counted[p])
    /\ status[p] = "Reported" => validCount[p] < V
    /\ PublishedHolder[p] # None => status[p] \in {"Assigned"} \cup CaseMirror

\* With Inv, inductive as long as requests on one report do not overlap and none dies.
SerialInv ==
    /\ OneAtATime
    /\ \A c \in Request : req[c] # Idle => Fresh(req[c])
    /\ \A p \in Problem : Published(p)
=============================================================================
