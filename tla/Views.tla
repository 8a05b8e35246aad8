--------------------------------- MODULE Views ---------------------------------
(***************************************************************************)
(* Who is shown a report, and where the decisions taken on it are seen: the page of  *)
(* a report, the feed, the reporter's own list, the screening queue, the seat's        *)
(* count, an official's record, the public activity feed and the oversight feed.        *)
(*                                                                           *)
(* The decisions themselves are one action each here (ProblemLifecycle, Forwarding and *)
(* CaseLifecycle take them apart); a read of several queries is taken query by query,   *)
(* so that decisions and erasure fall between them.                                     *)
(***************************************************************************)
EXTENDS FiniteSets

CONSTANTS
    Viewer,         \* accounts; Anonymous, who reads without a token, is none of them
    Anonymous,
    Reporter,       \* the one who filed the report
    UnionOf,        \* the union each account administers, or Nowhere
    Union,          \* the report's union, or Nowhere if its area leads to none
    Nowhere,
    Reader          \* reads that may be under way at once

\* A report is filed from an account (report_problem.go:40).
ASSUME ViewsAssumption == Reporter # Anonymous

Statuses == {"PendingApproval", "Reported", "Validated", "Assigned", "InProgress", "Blocked",
             "Done", "Resolved", "Reopened", "Rejected", "Withdrawn"}
Away == [pc |-> "away"]
Unseen == <<Anonymous, "none">>

VARIABLES
    standing,   \* problems.status, or "erased"
    entry,      \* the newest of audit_entries: its action, and whose decision that is
    seen,       \* who was last shown anything of the report, and its status in that query
    reader

views == <<standing, entry, seen, reader>>

ViewsInit ==
    /\ standing = "PendingApproval"
    /\ entry = [action |-> "other", on |-> "nothing"]
    /\ seen = Unseen
    /\ reader = [r \in Reader |-> Away]

-----------------------------------------------------------------------------
(* Who may see what.  Bug... operators stand for no code: each is a plausible slip in   *)
(* the definition after it.                                                      *)

PubliclyVisible(s) == s \in Statuses \ {"PendingApproval"}

\* PublicStatuses, the list every query filters on.
BugListsThePending == Statuses
PublicStatuses == Statuses \ {"PendingApproval"}

\* ensureUnionAdmin: nobody administers a report whose area leads to no union.
BugTrustsTheRole(v) == UnionOf[v] # Nowhere
UnionAdmin(v) == Union # Nowhere /\ UnionOf[v] = Union

\* mayViewPending, for an account.
MayViewPending(v) == v \in Viewer /\ (v = Reporter \/ UnionAdmin(v))

BugFindsErased == TRUE
\* The query finds a row.
Found == standing \in Statuses

\* GetProblem's gate.
MayGet(v) ==
    /\ Found
    /\ PubliclyVisible(standing) \/ MayViewPending(v)

\* ListProblems, with any ?status= or none; ListMyProblems; ListModeration.
Filter(asked) == IF asked = "any" THEN PublicStatuses ELSE {s \in {asked} : PubliclyVisible(s)}
InFeed == \E asked \in {"any"} \cup Statuses : standing \in Filter(asked)
InMine(v) == v = Reporter /\ Found
InModeration(v) ==
    /\ standing = "PendingApproval"
    /\ Union # Nowhere /\ v \in Viewer /\ UnionOf[v] = Union

\* SeatProblemCount; RecordByOfficial also needs a case.
Counted == standing \in PublicStatuses
Cased == {"Assigned", "InProgress", "Blocked", "Done", "Resolved", "Reopened"}

\* The feeds' action sets.
BugForgetsOverrides ==
    {"approved", "rejected", "assigned", "forwarding_suggested", "blocker_confirmed", "blocker_denied"}
PublicActions ==
    {"approved", "rejected", "assigned", "assignment_overridden", "forwarding_suggested",
     "blocker_confirmed", "blocker_denied"}
AdminActions ==
    {"approved", "rejected", "assigned", "assignment_overridden", "forwarding_suggested",
     "blocker_confirmed", "blocker_denied", "claim_approved", "claim_rejected", "verified"}

\* ListByActions, of the newest entry; an older one passes or not by the same sets.
InActivityFeed == entry.action \in PublicActions
InOversightFeed == entry.action \in AdminActions

-----------------------------------------------------------------------------
(* The decisions, each with the entry it writes. *)

\* What entries that are nobody's decision say is not told apart.
Unweighed == {"none", "other"}

Writes(action, on) == entry' = [action |-> action, on |-> on]
Decide(from, to, action) ==
    /\ standing \in from
    /\ standing' = to
    /\ Writes(action, "report")
    /\ UNCHANGED <<seen, reader>>

Before == {"Reported", "Validated"}
Approve == Decide({"PendingApproval"}, "Reported", "approved")
Reject == Decide({"PendingApproval"} \cup Before, "Rejected", "rejected")
Advise == \E s \in Before : Decide({s}, s, "forwarding_suggested")
AssignTo == \E a \in {"assigned", "assignment_overridden"} : Decide(Before, "Assigned", a)
\* Of any obstacle still pending, which a case may have in each of these (Judgment).
Adjudicate ==
    \/ \E s \in {"InProgress", "Blocked", "Done", "Resolved", "Reopened"} :
        Decide({s}, s, "blocker_confirmed")
    \/ Decide({"InProgress", "Blocked", "Reopened"}, "InProgress", "blocker_denied")
\* A resident verified, an office claim decided: about people, not about the report.
OnPeople ==
    /\ \E a \in {"verified", "claim_approved", "claim_rejected"} : Writes(a, "person")
    /\ UNCHANGED <<standing, seen, reader>>

\* What residents and officials do, to the status or beside it; no entry of theirs is a
\* decision.
Lives(s) ==
    \/ s = standing
    \/ standing \in {"PendingApproval"} \cup Before /\ s = "Withdrawn"
    \/ standing = "Reported" /\ s = "Validated"
    \/ standing \in {"Assigned", "Blocked", "Reopened"} /\ s = "InProgress"
    \/ standing \in {"Assigned", "InProgress"} /\ s = "Blocked"
    \/ standing = "InProgress" /\ s = "Done"
    \/ standing = "Done" /\ s \in {"Resolved", "Reopened"}
Live ==
    /\ \E s \in Statuses : Lives(s) /\ standing' = s
    /\ Writes("other", "nothing")
    /\ UNCHANGED <<seen, reader>>

\* DeleteProblem by the reporter: the row, then its trail; what is about people stays.
EraseReport ==
    /\ standing # "erased"
    /\ standing' = "erased"
    /\ entry' = IF entry.on = "person" THEN entry ELSE [action |-> "none", on |-> "nothing"]
    /\ UNCHANGED <<seen, reader>>

-----------------------------------------------------------------------------
(* The reads. *)

Reading(r, pc) == reader[r].pc = pc
To(r, h) == reader' = [reader EXCEPT ![r] = h]
Shows(v) == seen' = <<v, standing>>

\* One query each: the feed, one's own reports, the screening queue, a count, a track record.
ReadLists(v) ==
    /\ \/ InFeed /\ Shows(v)
       \/ InMine(v) /\ Shows(v)
       \/ InModeration(v) /\ Shows(v)
       \/ Counted /\ Shows(v)
       \/ standing \in PublicStatuses \cap Cased /\ Shows(v)
    /\ UNCHANGED <<standing, entry, reader>>

\* GetProblem: the row and the gate, then its trail and assignment.
Get(r, v) ==
    /\ Reading(r, "away") /\ MayGet(v)
    /\ To(r, [pc |-> "page", by |-> v, as |-> standing])
    /\ UNCHANGED <<standing, entry, seen>>

Page(r) ==
    /\ Reading(r, "page")
    /\ seen' = <<reader[r].by, reader[r].as>>
    /\ To(r, Away)
    /\ UNCHANGED <<standing, entry>>

\* The activity feed: the entries, then the titles of the reports they are about.
Activity(r, v) ==
    /\ Reading(r, "away") /\ InActivityFeed
    /\ To(r, [pc |-> "titles", by |-> v])
    /\ UNCHANGED <<standing, entry, seen>>

\* TitlesByIDs filters again: the title of a report hidden or erased is left out.
Titles(r) ==
    /\ Reading(r, "titles")
    /\ IF standing \in PublicStatuses THEN Shows(reader[r].by) ELSE UNCHANGED seen
    /\ To(r, Away)
    /\ UNCHANGED <<standing, entry>>

ViewsNext ==
    \/ Approve \/ Reject \/ Advise \/ AssignTo \/ Adjudicate \/ OnPeople \/ Live \/ EraseReport
    \/ \E v \in Viewer \cup {Anonymous} :
        \/ ReadLists(v)
        \/ \E r \in Reader : Get(r, v) \/ Activity(r, v)
    \/ \E r \in Reader : Page(r) \/ Titles(r)

ViewsSpec == ViewsInit /\ [][ViewsNext]_views

-----------------------------------------------------------------------------
(* Properties. *)

\* A report, its entries and the reads under way have the shapes their queries return.
ViewsTypeOK ==
    /\ standing \in Statuses \cup {"erased"}
    /\ entry \in [action : AdminActions \cup Unweighed, on : {"report", "person", "nothing"}]
    /\ seen \in {Unseen} \cup (Viewer \cup {Anonymous}) \X Statuses
    /\ reader \in [Reader -> {Away}
            \cup [pc : {"page"}, by : Viewer \cup {Anonymous}, as : Statuses]
            \cup [pc : {"titles"}, by : Viewer \cup {Anonymous}]]

\* get_problem.go:44, status.go:58: until its union admin approves it, a report reaches
\* nobody but its reporter and that admin: not its page, its title, nor its being counted.
NothingPendingShown ==
    seen[2] = "PendingApproval" =>
        seen[1] = Reporter \/ (Union # Nowhere /\ seen[1] \in Viewer /\ UnionOf[seen[1]] = Union)

\* What a list shows its reader can be opened by them, and the queue shows a report to
\* exactly the admins who may decide on it.
ShownIsOpenable ==
    /\ InFeed => \A v \in Viewer \cup {Anonymous} : MayGet(v)
    /\ \A v \in Viewer \cup {Anonymous} :
        /\ InMine(v) \/ InModeration(v) => MayGet(v)
        /\ v \in Viewer /\ standing = "PendingApproval" => (InModeration(v) <=> UnionAdmin(v))

\* list_activity.go:16-51: every decision on a report goes into the public feed and
\* under oversight, an override no less than the rest; none on a person is public, and
\* nothing else passes for a decision.
PowerIsSeen ==
    /\ entry.on = "report" <=> InActivityFeed
    /\ entry.on # "nothing" <=> InOversightFeed

\* What any read shows its reader was theirs to see, and decisions are everybody's.
ShownToItsOwn == ViewsTypeOK /\ NothingPendingShown /\ ShownIsOpenable /\ PowerIsSeen
=============================================================================
