------------------------------- MODULE Forwarding -------------------------------
(***************************************************************************)
(* Who hands a report to an official, and on whose advice: the union admin's   *)
(* assignment (AssignWithinUnion), the super admin's forward (ForwardProblem), *)
(* the admins' advice on it (SuggestForwarding), and the lists that offer each *)
(* to the right person.                                                       *)
(*                                                                           *)
(* One report is enough: reports share no rows.  What else happens to it is   *)
(* ProblemLifecycle's subject, kept here to a vote and a takedown.  Every statement  *)
(* is an action, so requests interleave and may end between any two.          *)
(***************************************************************************)
EXTENDS Ladder, FiniteSets, FiniteSetsExt

CONSTANTS
    Directory,      \* officials: the tier and area of each
    Where,          \* the report's area
    SuperAdmin,
    Request         \* requests that may be under way at once

Official == DOMAIN Directory
TierOf(o) == Directory[o].tier

\* An office is of an area of the seat (officials.area_id is a foreign key).
ASSUME ForwardingAssumption ==
    /\ Where \in Area /\ Level[Where] \in {"union", "ward"}
    /\ \A o \in Official : Directory[o].area \in Area
    /\ None \notin Official /\ Admin \cap SuperAdmin = {} /\ IsFiniteSet(Admin)

\* A reason as typed: nothing, blanks only, or something to read.
Reason == {"", "blank", "words"}
TrimSpace(reason) == IF reason = "blank" THEN "" ELSE reason

Idle == [pc |-> "idle"]

VARIABLES
    pointed,    \* problems.pointed_official_id
    status,     \* problems.status; "down" is Rejected or Withdrawn
    advice,     \* forwarding_suggestions, by adviser; one per adviser by upsert
    row,        \* assignments, UNIQUE (problem_id)
    trail,      \* audit_entries, by action and the decision that wrote them
    told,       \* notifications, by addressee and the official they speak of
    request

vars == <<pointed, status, advice, row, trail, told, request>>

NoRow == [to |-> None, monitor |-> None, why |-> ""]

Init ==
    /\ pointed \in Official
    /\ status = "reported"
    /\ advice = [v \in Admin |-> None]
    /\ row = NoRow
    /\ trail = {}
    /\ told = {}
    /\ request = [r \in Request |-> Idle]

At(r, pc) == request[r].pc = pc
Goto(r, h) == request' = [request EXCEPT ![r] = h]

\* Bug... operators stand for no code: see Ladder.

-----------------------------------------------------------------------------
(* The lists. *)

\* ListAssignable's filter, and Status.EligibleForAssignment, which gates the calls.
BugOnlyValidated == status = "validated"
Assignable == status \in {"reported", "validated"}
Eligible == status \in {"reported", "validated"}

\* ListQueue: what a union admin is shown as theirs to assign.
BugShowsTheSeatsReports(v) == Assignable /\ AdminUnion(Directory, v) = UnionOfArea(Where)
InQueue(v) ==
    /\ Assignable
    /\ AdminUnion(Directory, v) # None
    /\ AdminUnion(Directory, v) = UnionOfArea(Where)
    /\ ~ AboveUnion(TierOf(pointed))

\* forwardingCandidates: what the super admin is shown.
InForwardingQueue == Assignable /\ AboveUnion(TierOf(pointed))

\* ListMyForwarding: what an admin is shown to advise on.
InAdviceList(v) ==
    /\ InForwardingQueue
    /\ v \in EligibleAdvisers(Directory, Route(TierOf(pointed)), Where)

-----------------------------------------------------------------------------
(* The union admin's assignment. *)

\* resolveOverride: confirming carries no reason, anything else must.
OverrideAllowed(o, reason) == o = pointed \/ reason # ""

\* AssignWithinUnion.Execute up to create; the chosen official may be of any tier.
MayAssign(v) ==
    /\ Eligible
    /\ Route(TierOf(pointed)) = "union"
    /\ AdminUnion(Directory, v) # None
    /\ AdminUnion(Directory, v) = UnionOfArea(Where)

Assign(r, v, o, reason) ==
    /\ At(r, "idle")
    /\ MayAssign(v)
    /\ OverrideAllowed(o, reason)
    /\ Goto(r, [pc |-> "insert", to |-> o, why |-> IF o = pointed THEN "" ELSE reason,
                entry |-> IF o = pointed THEN "assigned" ELSE "assignment_overridden"])
    /\ UNCHANGED <<pointed, status, advice, row, trail, told>>

-----------------------------------------------------------------------------
(* The super admin's forward. *)

MayForward(o) ==
    /\ Eligible
    /\ AboveUnion(TierOf(pointed))
    /\ AboveUnion(TierOf(o))

Forward(r, o, reason) ==
    /\ At(r, "idle")
    /\ MayForward(o)
    /\ Goto(r, [pc |-> "advice", to |-> o, why |-> TrimSpace(reason)])
    /\ UNCHANGED <<pointed, status, advice, row, trail, told>>

Votes(given, o) == Cardinality({v \in Admin : given[v] = o})

\* TopSuggestion, over the tally in some order: a Go map leaves it open.
BugFirstWins(t, n) == FALSE
Tied(t, n) == IF n > t.count THEN FALSE ELSE t.tied \/ n = t.count

TopSuggestion(given, order) ==
    LET Take(t, o) ==
            LET n == Votes(given, o) IN
            [best |-> IF n > t.count THEN o ELSE t.best,
             count |-> IF n > t.count THEN n ELSE t.count, tied |-> Tied(t, n)]
        after[k \in 0..Len(order)] ==
            IF k = 0 THEN [best |-> None, count |-> 0, tied |-> FALSE]
            ELSE Take(after[k - 1], order[k])
        last == after[Len(order)]
    IN IF last.tied THEN None ELSE last.best

\* RequiresReason: departing from the reporter's choice, or from a clear top.
BugOwesNothingToTheReporter(o, top) == top # None /\ o # top
RequiresReason(o, top) == o # pointed \/ (top # None /\ o # top)

\* SuggestionsByProblem, and the decision on what it returned.
Judge(r) ==
    LET h == request[r]
        named == {advice[v] : v \in Admin} \ {None} IN
    /\ At(r, "advice")
    /\ \E order \in SetToSeqs(named) :
        LET departs == RequiresReason(h.to, TopSuggestion(advice, order)) IN
        \/ /\ departs => h.why # ""
           /\ Goto(r, [pc |-> "insert", to |-> h.to, why |-> h.why, given |-> advice,
                       entry |-> IF departs THEN "assignment_overridden" ELSE "assigned"])
        \/ departs /\ h.why = "" /\ Goto(r, Idle)
    /\ UNCHANGED <<pointed, status, advice, row, trail, told>>

-----------------------------------------------------------------------------
(* assigner.create, which both decisions end in. *)

\* CreateAssignment: UNIQUE (problem_id) answers the second with ErrAlreadyAssigned.
BugOverwritesTheRow == TRUE
Unassigned == row = NoRow

Insert(r) ==
    LET h == request[r] IN
    /\ At(r, "insert")
    /\ \/ /\ Unassigned
          /\ row' = [to |-> h.to, monitor |-> MonitorFor(Directory, h.to), why |-> h.why]
          /\ Goto(r, [pc |-> "mark", to |-> h.to, entry |-> h.entry])
       \/ ~ Unassigned /\ Goto(r, Idle) /\ UNCHANGED row
    /\ UNCHANGED <<pointed, status, advice, trail, told>>

\* MarkAssigned, WHERE id.
Mark(r) ==
    /\ At(r, "mark")
    /\ status' = "assigned"
    /\ Goto(r, [request[r] EXCEPT !.pc = "audit"])
    /\ UNCHANGED <<pointed, advice, row, trail, told>>

\* The entry, whose error is discarded.
Audit(r) ==
    /\ At(r, "audit")
    /\ trail' \in {trail, trail \cup {<<request[r].entry, request[r].to>>}}
    /\ Goto(r, [pc |-> "tell", to |-> request[r].to])
    /\ UNCHANGED <<pointed, status, advice, row, told>>

\* The reporter and the official are told, each best effort.
Tell(r) ==
    /\ At(r, "tell")
    /\ \E sent \in SUBSET ({"reporter", "official"} \X {request[r].to}) : told' = told \cup sent
    /\ Goto(r, Idle)
    /\ UNCHANGED <<pointed, status, advice, row, trail>>

-----------------------------------------------------------------------------
(* Advice. *)

\* SuggestForwarding.Execute up to its write; the official advised is above-union too.
MayAdvise(v, o) ==
    /\ Eligible
    /\ AboveUnion(TierOf(pointed))
    /\ AboveUnion(TierOf(o))
    /\ v \in EligibleAdvisers(Directory, Route(TierOf(pointed)), Where)

Suggest(r, v, o) ==
    /\ At(r, "idle")
    /\ MayAdvise(v, o)
    /\ Goto(r, [pc |-> "upsert", by |-> v, to |-> o])
    /\ UNCHANGED <<pointed, status, advice, row, trail, told>>

\* One row per adviser.
BugSwapsTheArguments(v, o) == [advice EXCEPT ![v] = v]
Advised(v, o) == [advice EXCEPT ![v] = o]

\* UpsertSuggestion, whatever has become of the report; its entry follows.
Upsert(r) ==
    LET h == request[r] IN
    /\ At(r, "upsert")
    /\ advice' = Advised(h.by, h.to)
    /\ Goto(r, [pc |-> "noted", by |-> h.by])
    /\ UNCHANGED <<pointed, status, row, trail, told>>

Note(r) ==
    /\ At(r, "noted")
    /\ trail' \in {trail, trail \cup {<<"forwarding_suggested", request[r].by>>}}
    /\ Goto(r, Idle)
    /\ UNCHANGED <<pointed, status, advice, row, told>>

\* What else moves a report no one was handed: votes, and a rejection or withdrawal
\* (ProblemLifecycle).
Validate ==
    /\ status = "reported"
    /\ status' = "validated"
    /\ UNCHANGED <<pointed, advice, row, trail, told, request>>

TakeDown ==
    /\ Eligible
    /\ status' = "down"
    /\ UNCHANGED <<pointed, advice, row, trail, told, request>>

\* The request ends between two statements and nothing takes it up again.
Fail(r) ==
    /\ ~ At(r, "idle")
    /\ Goto(r, Idle)
    /\ UNCHANGED <<pointed, status, advice, row, trail, told>>

Next ==
    \/ Validate \/ TakeDown
    \/ \E r \in Request :
        \/ \E o \in Official, reason \in Reason :
            \/ \E v \in Admin : Assign(r, v, o, reason)
            \/ SuperAdmin # {} /\ Forward(r, o, reason)
        \/ Judge(r) \/ Insert(r) \/ Mark(r) \/ Audit(r) \/ Tell(r)
        \/ \E v \in Admin, o \in Official : Suggest(r, v, o)
        \/ Upsert(r) \/ Note(r) \/ Fail(r)

Spec == Init /\ [][Next]_vars

-----------------------------------------------------------------------------
(* Properties. *)

Given == [Admin -> Official \cup {None}]
Entry == {"assigned", "assignment_overridden"}
Job ==
    {Idle}
    \cup [pc : {"insert"}, to : Official, why : Reason, entry : Entry]
    \cup [pc : {"insert"}, to : Official, why : Reason, given : Given, entry : Entry]
    \cup [pc : {"advice"}, to : Official, why : Reason]
    \cup [pc : {"mark", "audit"}, to : Official, entry : Entry]
    \cup [pc : {"tell"}, to : Official]
    \cup [pc : {"upsert"}, by : Admin, to : Official]
    \cup [pc : {"noted"}, by : Admin]

\* Every row, entry and request has the shape its table and handler give it.
TypeOK ==
    /\ pointed \in Official
    /\ status \in {"reported", "validated", "down", "assigned"}
    /\ advice \in Given
    /\ row \in [to : Official \cup {None}, monitor : Official \cup {None}, why : Reason]
    /\ trail \subseteq (Entry \X Official) \cup ({"forwarding_suggested"} \X Admin)
    /\ told \subseteq {"reporter", "official"} \X Official
    /\ request \in [Request -> Job]

\* override_assignment.go:7, forward_problem.go:52: whoever decided, by either route and
\* against whatever else was under way, a report handed to someone other than the
\* official the reporter pointed at carries a reason, and its trail never says otherwise.
DepartureIsExplained ==
    /\ row.to # None /\ row.to # pointed => row.why # ""
    /\ \A o \in Official : <<"assigned", o>> \in trail => o = pointed /\ row.to = o

\* forwarding.go:44: the official most advisers named, and nobody when they tied, in
\* whatever order the tally was walked: an unreasoned forward never goes against them.
Top(given) ==
    LET named == {given[v] : v \in Admin} \ {None} IN
    {o \in named : \A q \in named \ {o} : Votes(given, q) < Votes(given, o)}
TallyIsHonest ==
    \A r \in Request :
        At(r, "insert") /\ "given" \in DOMAIN request[r] =>
            /\ request[r].why = "" => Top(request[r].given) \subseteq {request[r].to}
            /\ request[r].entry = "assignment_overridden" <=>
                request[r].to # pointed \/ (Top(request[r].given) \ {request[r].to}) # {}

\* list_queue.go:43: what a list shows is what the action behind it accepts, for every
\* admin, tier and place: nothing is offered to be refused, nothing withheld.
ShownIsAllowed ==
    /\ \A v \in Admin : InQueue(v) <=> MayAssign(v)
    /\ InForwardingQueue <=> \E o \in Official : MayForward(o)
    /\ \A v \in Admin : InAdviceList(v) <=> \E o \in Official : MayAdvise(v, o)

\* Two lists, one decider: no open report waits for both the union and the seat.
OneDecider == ~ (InForwardingQueue /\ \E v \in Admin : InQueue(v))

\* assigner.go:51-67: two requests decide at once; whichever official the reporter was
\* told of, the case was announced to, or an entry was written for, the row names for good.
HandedOnce ==
    /\ \A who \in {"reporter", "official"}, o \in Official : <<who, o>> \in told => row.to = o
    /\ \A o \in Official, e \in Entry : <<e, o>> \in trail => row.to = o

\* A decision made by two routes, over two statements and against moving advice: it
\* owes its reason, weighs the advice it read, and is announced as it is stored.
HandoverIsSound == TypeOK /\ DepartureIsExplained /\ TallyIsHonest /\ HandedOnce

\* The lists and the actions behind them are written apart and say one thing.
ListsAreTrue == ShownIsAllowed /\ OneDecider
=============================================================================
