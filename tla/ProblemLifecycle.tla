-------------------------- MODULE ProblemLifecycle --------------------------
(***************************************************************************)
(* The life of a problem record in the problem and assignment contexts:     *)
(* filing, screening, withdrawal, editing, hard deletion, community          *)
(* validation and assignment (internal/problem, internal/assignment).        *)
(*                                                                           *)
(* The backend opens no transaction.  A use case is a sequence of SQL        *)
(* statements, and the statements of different requests interleave freely.   *)
(* A request in flight is a record in `req': what it loaded, who it acts     *)
(* for and the statement it runs next (pc).  One action below is one         *)
(* statement, the checks before it included.                                 *)
(***************************************************************************)
EXTENDS Naturals, FiniteSets

CONSTANTS
    Problem,    \* problem ids; an id is used once and never reused
    Resident,   \* verified residents of the problem's union: those who may vote
    Admin,      \* admins who pass the union check of screening and assignment
    Official,   \* directory offices an admin may assign to
    Request,    \* slots for requests in flight
    None,       \* "no value"
    V,          \* VALIDATION_THRESHOLD, the community's threshold
    MaxText,    \* bound on the edits of one problem (the code has none)
    Kept,       \* the use cases whose audit entries and messages an instance keeps
    Serial,     \* TRUE: requests on one problem never overlap
    Faults      \* TRUE: requests die between statements, swallowed writes get lost

ASSUME ResidentAssumption == IsFiniteSet(Resident) /\ None \notin Resident
ASSUME ThresholdAssumption == V \in Nat \ {0}
ASSUME TextAssumption == MaxText \in Nat
ASSUME NoneAssumption == None \notin Official \cup Admin \cup {"valid", "invalid"}
ASSUME KeptAssumption == Kept \subseteq {"report", "approve", "reject", "withdraw",
                                         "edit", "vote", "assign"}
ASSUME SwitchAssumption == Serial \in BOOLEAN /\ Faults \in BOOLEAN

Status == {"PendingApproval", "Reported", "Validated", "Assigned", "InProgress",
           "Blocked", "Done", "Resolved", "Reopened", "Rejected", "Withdrawn"}

\* Before the INSERT and after the DELETE there is no row.
NoRow == {"Unfiled", "Gone"}

\* Operators named Bug... stand for no code: each is a plausible slip in the
\* definition after it, kept to confirm that the stated properties notice it.
BugVisibleAtOnce(s) == s \in Status
PubliclyVisible(s) == s \in Status \ {"PendingApproval"}
Rejectable(s) == s \in {"PendingApproval", "Reported", "Validated"}
Withdrawable(s) == s \in {"PendingApproval", "Reported", "Validated"}
BugAssignsUnscreened(s) == s \in {"PendingApproval", "Reported", "Validated"}
EligibleForAssignment(s) == s \in {"Reported", "Validated"}

\* What the resolution context writes onto the public record of an assigned problem.
CaseMirror == {"InProgress", "Blocked", "Done", "Resolved", "Reopened"}

\* Who and what travels with a request after its first statement.
Fields == [op    : {"report", "approve", "reject", "withdraw", "edit", "delete",
                    "vote", "assign"},
           pc    : {"screen", "withdraw", "edit", "erase", "purge", "addvote",
                    "count", "save", "insert", "mark", "audit", "tell"},
           p     : Problem,
           who   : Resident \cup Admin \cup {None},
           arg   : {"valid", "invalid"} \cup Official \cup {None},
           from  : Status,
           to    : Status,
           count : Nat]
Handler == {h \in Fields :
    /\ h.pc = "screen" => h.who \in Admin
    /\ h.pc \in {"addvote", "count", "save"} =>
          h.who \in Resident /\ h.arg \in {"valid", "invalid"}
    /\ h.pc = "insert" => h.arg \in Official}
Idle == [op |-> "idle"]

VARIABLES
    status,      \* problems.status, or a member of NoRow
    validCount,  \* problems.valid_count
    text,        \* version of the title, description and proposed solution
    reviewer,    \* problems.reviewed_by
    votes,       \* validation_votes: UNIQUE (problem_id, voter_id)
    holder,      \* assignments: UNIQUE (problem_id); the official it names
    audit,       \* audit_entries of the problem, by the use case that wrote them
    told,        \* notifications about the problem, by the use case that wrote them
    req          \* requests in flight

record == <<status, validCount, text, reviewer, votes, holder>>
trail == <<audit, told>>
vars == <<status, validCount, text, reviewer, votes, holder, audit, told, req>>

Exists(p) == status[p] \in Status
ValidVoters(p) == {r \in Resident : votes[p][r] = "valid"}
BugCountsEveryVote(p) == Cardinality({r \in Resident : votes[p][r] # None})
DistinctValidVoters(p) == Cardinality(ValidVoters(p))
BugNoStatusUnlessFlipped(s, n) == IF s = "Reported" /\ n >= V THEN "Validated" ELSE ""
BugLiftsAnyStatus(s, n) == IF n >= V THEN "Validated" ELSE s
Evaluate(s, n) == IF s = "Reported" /\ n >= V THEN "Validated" ELSE s

NoVotes == [r \in Resident |-> None]
Init ==
    /\ status = [p \in Problem |-> "Unfiled"]
    /\ validCount = [p \in Problem |-> 0]
    /\ text = [p \in Problem |-> 0]
    /\ reviewer = [p \in Problem |-> None]
    /\ votes = [p \in Problem |-> NoVotes]
    /\ holder = [p \in Problem |-> None]
    /\ audit = [p \in Problem |-> {}]
    /\ told = [p \in Problem |-> {}]
    /\ req = [c \in Request |-> Idle]

-----------------------------------------------------------------------------
(* A request's bookkeeping. *)

Quiet(p) == \A c \in Request : req[c] # Idle => req[c].p # p

Begin(c, o, at, q, w, a, s, t) ==
    /\ req[c] = Idle
    /\ Serial => Quiet(q)
    /\ req' = [req EXCEPT ![c] = [op |-> o, pc |-> at, p |-> q, who |-> w, arg |-> a,
                                  from |-> s, to |-> t, count |-> 0]]

At(c, at) == req[c] # Idle /\ req[c].pc = at
Goto(c, at) == req' = [req EXCEPT ![c].pc = at]
Finish(c) == req' = [req EXCEPT ![c] = Idle]

(* Loads: GetByID, the use case's guards, and nothing written yet. *)

\* ReportProblem: the INSERT comes first, the audit entry second.
Report(c, p) ==
    /\ status[p] = "Unfiled"
    /\ Begin(c, "report", "audit", p, None, None, "PendingApproval", "PendingApproval")
    /\ status' = [status EXCEPT ![p] = "PendingApproval"]
    /\ UNCHANGED <<validCount, text, reviewer, votes, holder, trail>>

LoadApprove(c, p, a) ==
    /\ status[p] = "PendingApproval"
    /\ Begin(c, "approve", "screen", p, a, None, status[p], "Reported")
    /\ UNCHANGED <<record, trail>>

LoadReject(c, p, a) ==
    /\ Rejectable(status[p])
    /\ Begin(c, "reject", "screen", p, a, None, status[p], "Rejected")
    /\ UNCHANGED <<record, trail>>

LoadWithdraw(c, p) ==
    /\ Withdrawable(status[p])
    /\ Begin(c, "withdraw", "withdraw", p, None, None, status[p], "Withdrawn")
    /\ UNCHANGED <<record, trail>>

BugEditsEndorsed(p) == status[p] = "Reported"
Editable(p) == status[p] = "Reported" /\ validCount[p] = 0

LoadEdit(c, p) ==
    /\ Editable(p)
    /\ text[p] < MaxText
    /\ Begin(c, "edit", "edit", p, None, None, status[p], status[p])
    /\ UNCHANGED <<record, trail>>

LoadDelete(c, p) ==
    /\ Exists(p)
    /\ Begin(c, "delete", "erase", p, None, None, status[p], status[p])
    /\ UNCHANGED <<record, trail>>

LoadVote(c, p, r, choice) ==
    /\ PubliclyVisible(status[p])
    /\ Begin(c, "vote", "addvote", p, r, choice, status[p], status[p])
    /\ UNCHANGED <<record, trail>>

\* AssignWithinUnion and ForwardProblem up to the shared assigner.create.
BugMarksWithoutRow(c, p, a, o) ==
    /\ EligibleForAssignment(status[p])
    /\ Begin(c, "assign", "mark", p, a, o, status[p], "Assigned")
    /\ UNCHANGED <<record, trail>>
LoadAssign(c, p, a, o) ==
    /\ EligibleForAssignment(status[p])
    /\ Begin(c, "assign", "insert", p, a, o, status[p], "Assigned")
    /\ UNCHANGED <<record, trail>>

-----------------------------------------------------------------------------
(* The statements after the load. *)

\* SetScreening: a compare-and-set on the status the request loaded.
BugAuditsBeforeCheck(c) ==
    LET h == req[c]
        won == status[h.p] = h.from IN
    /\ At(c, "screen")
    /\ status' = [status EXCEPT ![h.p] = IF won THEN h.to ELSE @]
    /\ reviewer' = [reviewer EXCEPT ![h.p] = IF won THEN h.who ELSE @]
    /\ Goto(c, "audit")
    /\ UNCHANGED <<validCount, text, votes, holder, trail>>
Screen(c) ==
    LET h == req[c] IN
    /\ At(c, "screen")
    /\ \/ /\ status[h.p] = h.from
          /\ status' = [status EXCEPT ![h.p] = h.to]
          /\ reviewer' = [reviewer EXCEPT ![h.p] = h.who]
          /\ Goto(c, "audit")
       \/ /\ status[h.p] # h.from
          /\ Finish(c)
          /\ UNCHANGED <<status, reviewer>>
    /\ UNCHANGED <<validCount, text, votes, holder, trail>>

\* SetWithdrawn: the same compare-and-set, on the reporter's behalf.
Withdraw(c) ==
    LET h == req[c] IN
    /\ At(c, "withdraw")
    /\ \/ /\ status[h.p] = h.from
          /\ status' = [status EXCEPT ![h.p] = "Withdrawn"]
          /\ Goto(c, "audit")
       \/ /\ status[h.p] # h.from
          /\ Finish(c)
          /\ UNCHANGED status
    /\ UNCHANGED <<validCount, text, reviewer, votes, holder, trail>>

\* Update: WHERE status = 'Reported' AND valid_count = 0.
Edit(c) ==
    LET h == req[c] IN
    /\ At(c, "edit")
    /\ \/ /\ Editable(h.p)
          /\ text' = [text EXCEPT ![h.p] = @ + 1]
          /\ Goto(c, "audit")
       \/ /\ ~ Editable(h.p)
          /\ Finish(c)
          /\ UNCHANGED text
    /\ UNCHANGED <<status, validCount, reviewer, votes, holder, trail>>

\* DELETE FROM problems, with its ON DELETE CASCADE.  The trail has no foreign key.
Erase(c) ==
    LET q == req[c].p IN
    /\ At(c, "erase")
    /\ \/ /\ Exists(q)
          /\ status' = [status EXCEPT ![q] = "Gone"]
          /\ validCount' = [validCount EXCEPT ![q] = 0]
          /\ text' = [text EXCEPT ![q] = 0]
          /\ reviewer' = [reviewer EXCEPT ![q] = None]
          /\ votes' = [votes EXCEPT ![q] = NoVotes]
          /\ holder' = [holder EXCEPT ![q] = None]
          /\ told' = [told EXCEPT ![q] = {}]
          /\ Goto(c, "purge")
       \/ /\ ~ Exists(q)
          /\ Finish(c)
          /\ UNCHANGED <<record, told>>
    /\ UNCHANGED audit

\* audit.DeleteByTarget, the delete's second statement.
Purge(c) ==
    /\ At(c, "purge")
    /\ audit' = [audit EXCEPT ![req[c].p] = {}]
    /\ Finish(c)
    /\ UNCHANGED <<record, told>>

\* AddVote: refused by UNIQUE (problem_id, voter_id) or, on a deleted problem, by the FK.
BugVotesWithoutProblem(p, r) == votes[p][r] = None
MayVote(p, r) == Exists(p) /\ votes[p][r] = None

AddVote(c) ==
    LET h == req[c]
        free == MayVote(h.p, h.who) IN
    /\ At(c, "addvote")
    /\ \/ /\ free
          /\ votes' = [votes EXCEPT ![h.p][h.who] = h.arg]
          /\ Goto(c, "count")
       \/ /\ ~ free
          /\ Finish(c)
          /\ UNCHANGED votes
    /\ UNCHANGED <<status, validCount, text, reviewer, holder, trail>>

\* ListVotes, then DistinctValidVoters and Evaluate on the status loaded at the start.
CountVotes(c) ==
    LET h == req[c]
        n == DistinctValidVoters(h.p) IN
    /\ At(c, "count")
    /\ req' = [req EXCEPT ![c] = [h EXCEPT !.pc = "save", !.count = n,
                                           !.to = Evaluate(h.from, n)]]
    /\ UNCHANGED <<record, trail>>

\* UpdateValidation: count and status, WHERE id only.
SaveCount(c) ==
    LET h == req[c] IN
    /\ At(c, "save")
    /\ \/ /\ Exists(h.p)
          /\ validCount' = [validCount EXCEPT ![h.p] = h.count]
          /\ status' = [status EXCEPT ![h.p] = h.to]
          /\ IF h.to # h.from THEN Goto(c, "audit") ELSE Finish(c)
       \/ /\ ~ Exists(h.p)
          /\ Finish(c)
          /\ UNCHANGED <<validCount, status>>
    /\ UNCHANGED <<text, reviewer, votes, holder, trail>>

\* CreateAssignment: refused by UNIQUE (problem_id) or, on a deleted problem, by the FK.
BugUpsertsHolder(p) == Exists(p)
MayHold(p) == Exists(p) /\ holder[p] = None

CreateAssignment(c) ==
    LET h == req[c]
        free == MayHold(h.p) IN
    /\ At(c, "insert")
    /\ \/ /\ free
          /\ holder' = [holder EXCEPT ![h.p] = h.arg]
          /\ Goto(c, "mark")
       \/ /\ ~ free
          /\ Finish(c)
          /\ UNCHANGED holder
    /\ UNCHANGED <<status, validCount, text, reviewer, votes, trail>>

\* MarkAssigned: SetStatus, WHERE id only.
BugMarksOnlyIfUnmoved(c) ==
    LET q == req[c].p IN
    /\ At(c, "mark")
    /\ IF status[q] = req[c].from
         THEN status' = [status EXCEPT ![q] = "Assigned"] /\ Goto(c, "audit")
         ELSE UNCHANGED status /\ Finish(c)
    /\ UNCHANGED <<validCount, text, reviewer, votes, holder, trail>>
MarkAssigned(c) ==
    LET q == req[c].p IN
    /\ At(c, "mark")
    /\ \/ /\ Exists(q)
          /\ status' = [status EXCEPT ![q] = "Assigned"]
          /\ Goto(c, "audit")
       \/ /\ ~ Exists(q)
          /\ Finish(c)
          /\ UNCHANGED status
    /\ UNCHANGED <<validCount, text, reviewer, votes, holder, trail>>

Notifies(o) == o \in {"approve", "reject", "assign"}

\* audit.Append; its error is discarded, so a lost entry stops nothing.
AppendAudit(c) ==
    LET h == req[c] IN
    /\ At(c, "audit")
    /\ \/ audit' = [audit EXCEPT ![h.p] = @ \cup ({h.op} \cap Kept)]
       \/ Faults /\ UNCHANGED audit
    /\ IF Notifies(h.op) THEN Goto(c, "tell") ELSE Finish(c)
    /\ UNCHANGED <<record, told>>

\* notify.Append; the foreign key refuses a deleted problem, and errors are discarded.
Tell(c) ==
    LET h == req[c] IN
    /\ At(c, "tell")
    /\ \/ Exists(h.p) /\ told' = [told EXCEPT ![h.p] = @ \cup ({h.op} \cap Kept)]
       \/ (~ Exists(h.p) \/ Faults) /\ UNCHANGED told
    /\ Finish(c)
    /\ UNCHANGED <<record, audit>>

-----------------------------------------------------------------------------
(* The rest of the world. *)

\* The process stops, the client hangs up or a statement fails: the request ends here.
Die(c) ==
    /\ Faults
    /\ req[c] # Idle
    /\ Finish(c)
    /\ UNCHANGED <<record, trail>>

\* The resolution context's problems.SetStatus; a case exists only for an assignment.
MirrorCase(p, s) ==
    /\ Exists(p) /\ holder[p] # None
    /\ Serial => Quiet(p)
    /\ status' = [status EXCEPT ![p] = s]
    /\ UNCHANGED <<validCount, text, reviewer, votes, holder, trail, req>>

Load(c, p) ==
    \/ Report(c, p)
    \/ \E a \in Admin : LoadApprove(c, p, a)
    \/ \E a \in Admin : LoadReject(c, p, a)
    \/ LoadWithdraw(c, p)
    \/ LoadEdit(c, p)
    \/ LoadDelete(c, p)
    \/ \E r \in Resident, choice \in {"valid", "invalid"} : LoadVote(c, p, r, choice)
    \/ \E a \in Admin, o \in Official : LoadAssign(c, p, a, o)

Step(c) ==
    \/ Screen(c)
    \/ Withdraw(c)
    \/ Edit(c)
    \/ Erase(c)
    \/ Purge(c)
    \/ AddVote(c)
    \/ CountVotes(c)
    \/ SaveCount(c)
    \/ CreateAssignment(c)
    \/ MarkAssigned(c)
    \/ AppendAudit(c)
    \/ Tell(c)

Next ==
    \/ \E c \in Request, p \in Problem : Load(c, p)
    \/ \E c \in Request : Step(c)
    \/ \E c \in Request : Die(c)
    \/ \E p \in Problem, s \in CaseMirror : MirrorCase(p, s)

Spec == Init /\ [][Next]_vars

\* A handler that started runs on: Go's scheduler and the database serve each
\* request.  Nobody is obliged to file, vote or decide.
FairSpec == Spec /\ \A c \in Request : WF_vars(Step(c))

\* The reporter also keeps re-running a delete for as long as one can start.
ReRunSpec == FairSpec /\ \A p \in Problem : WF_vars(\E c \in Request : LoadDelete(c, p))

-----------------------------------------------------------------------------
(* What holds however the requests interleave and wherever they die. *)

TypeOK ==
    /\ status \in [Problem -> Status \cup NoRow]
    /\ validCount \in [Problem -> Nat]
    /\ text \in [Problem -> Nat]
    /\ reviewer \in [Problem -> Admin \cup {None}]
    /\ votes \in [Problem -> [Resident -> {"valid", "invalid", None}]]
    /\ holder \in [Problem -> Official \cup {None}]
    /\ audit \in [Problem -> SUBSET Kept]
    /\ told \in [Problem -> SUBSET Kept]
    /\ req \in [Request -> Handler \cup {Idle}]

\* Nothing but a report still in the queue, or one its reporter took back, is on
\* record without the admin who decided on it (screening.go, 000017): no vote,
\* assignment or case update carries an unscreened report past the gate.
ScreenedFirst ==
    \A p \in Problem :
        status[p] \in Status \ {"PendingApproval", "Withdrawn"} => reviewer[p] # None

\* While a report waits for screening nobody outside has touched it: no votes, no
\* count, no assignment, no message (cast_validation_vote.go:41-49, status.go:129-131).
UnscreenedUntouched ==
    \A p \in Problem : status[p] = "PendingApproval" =>
        /\ votes[p] = NoVotes /\ validCount[p] = 0
        /\ holder[p] = None /\ told[p] = {}

\* A report that left the queue is never put back into it, although votes write back
\* a status they read earlier.
NeverHiddenAgain ==
    [][\A p \in Problem : status[p] \notin {"Unfiled", "PendingApproval"}
                              => status'[p] # "PendingApproval"]_vars

\* A report shown as assigned, or further, has an official who answers for it.
HeldOnceAssigned ==
    \A p \in Problem : status[p] \in {"Assigned"} \cup CaseMirror => holder[p] # None

\* Two admins racing to assign cannot replace each other's official: an assignment
\* goes only with its report.
HolderNeverReplaced ==
    [][\A p \in Problem : holder[p] # None => holder'[p] = holder[p] \/ status'[p] = "Gone"]_vars

\* "Validated" is never shown on fewer than V residents' word, stale writes included.
ValidatedMeansV ==
    \A p \in Problem : status[p] = "Validated" => Cardinality(ValidVoters(p)) >= V

\* The published count may lag behind the votes and never runs ahead of them.
CountNeverOverstates ==
    \A p \in Problem : validCount[p] <= Cardinality(ValidVoters(p))

\* A request that outlives the report it loaded leaves nothing behind but audit
\* entries: the cascade and the foreign keys see to the rest (delete_problem.go:19-23).
ErasedLeavesNothing ==
    \A p \in Problem : status[p] = "Gone" =>
        votes[p] = NoVotes /\ holder[p] = None /\ told[p] = {}

\* The public trail claims no decision the record does not show: losers of a race
\* write no entry.
TrailTellsTheTruth ==
    \A p \in Problem : Exists(p) =>
        /\ audit[p] \cap {"approve", "reject"} # {} => reviewer[p] # None
        /\ "assign" \in audit[p] => holder[p] # None
        /\ "vote" \in audit[p] => Cardinality(ValidVoters(p)) >= V

\* An assignment row reaches the public record whatever votes and deletes do
\* meanwhile, as long as the request that wrote it does not die half-way.
AssignmentSurfaces ==
    \A p \in Problem, c \in Request :
        (At(c, "mark") /\ req[c].p = p) ~> status[p] \in {"Assigned", "Gone"}

\* What a request may still rely on when its next statement runs, however stale its
\* load has become: the facts the guards of the load leave behind and nothing but a
\* delete undoes.
Untouched(p) == votes[p] = NoVotes /\ validCount[p] = 0 /\ holder[p] = None /\ told[p] = {}
EnoughVoices(p) == status[p] = "Gone" \/ Cardinality(ValidVoters(p)) >= V
Screened(p) == status[p] = "Gone" \/ reviewer[p] # None
Held(p) == status[p] = "Gone" \/ holder[p] # None
Public(p) == status[p] \notin {"Unfiled", "PendingApproval"}

Relies(h) ==
    /\ status[h.p] # "Unfiled"
    /\ h.pc = "screen" =>
          h.op \in {"approve", "reject"} /\ h.to \in {"Reported", "Rejected"}
    /\ h.pc \in {"addvote", "count", "save"} =>
          /\ h.op = "vote" /\ Public(h.p)
          /\ h.from # "PendingApproval"
          /\ h.from # "Withdrawn" => Screened(h.p)
          /\ h.from \in {"Assigned"} \cup CaseMirror => Held(h.p)
          /\ h.from = "Validated" => EnoughVoices(h.p)
    /\ h.pc = "save" =>
          /\ h.to = Evaluate(h.from, h.count)
          /\ status[h.p] = "Gone" \/ h.count <= Cardinality(ValidVoters(h.p))
    /\ h.pc \in {"insert", "mark"} =>
          h.op = "assign" /\ Public(h.p) /\ Screened(h.p)
    /\ h.pc = "mark" => Held(h.p)
    /\ h.pc = "tell" \/ (h.pc = "audit" /\ Notifies(h.op)) => Public(h.p)

InFlight == \A c \in Request : req[c] # Idle => Relies(req[c])

\* The inductive invariant: the invariants above, told also of problems before filing
\* and after deletion, with what the requests in flight rely on.
RecordsAgree ==
    \A p \in Problem :
        /\ status[p] \in NoRow \cup {"PendingApproval"} => Untouched(p)
        /\ holder[p] # None => reviewer[p] # None
Inv ==
    /\ TypeOK
    /\ RecordsAgree
    /\ ScreenedFirst /\ HeldOnceAssigned
    /\ ValidatedMeansV /\ CountNeverOverstates
    /\ InFlight

\* What a request about to write its audit entry has behind it: the decision, vote or
\* assignment the entry reports is on record, or its problem is gone.
Vouched(h) ==
    /\ h.pc = "withdraw" => h.op = "withdraw"
    /\ h.pc = "edit" => h.op = "edit"
    /\ h.pc = "audit" =>
          /\ h.op \in {"approve", "reject"} => Screened(h.p)
          /\ h.op = "assign" => Held(h.p)
          /\ h.op = "vote" => EnoughVoices(h.p)

\* The entries written so far have the same behind them.  With Inv, inductive.
Backed(p) ==
    /\ audit[p] \cap {"approve", "reject"} # {} => Screened(p)
    /\ "assign" \in audit[p] => Held(p)
    /\ "vote" \in audit[p] => EnoughVoices(p)
TrailInv ==
    /\ \A c \in Request : req[c] # Idle => Vouched(req[c])
    /\ \A p \in Problem : Backed(p)

-----------------------------------------------------------------------------
(* What the comments in the code promise.  All of it holds while requests on one  *)
(* report do not overlap (Serial) and none dies; the runs show which of it breaks *)
(* when they do.                                                                  *)

\* "Evaluate only lifts Reported, so no status is ever moved backwards by a late
\* vote" (cast_validation_vote.go:56-57).
LateVoteMovesNothingBack ==
    [][\A c \in Request : SaveCount(c) =>
         LET p == req[c].p IN
         status'[p] \in {status[p], Evaluate(status[p], req[c].count)}]_vars

\* "A vote racing the edit cannot slip a rewrite past an endorsement"
\* (update_problem.go:27-28): no wording changes under a stored valid vote.
EndorsedTextIsFrozen ==
    [][\A p \in Problem : text'[p] # text[p]
                              => ValidVoters(p) = {} \/ status'[p] = "Gone"]_vars

\* valid_count is "the denormalized number of distinct residents who marked it valid
\* ... recomputed on each cast" (problem.go:11-13): with no request on the report in
\* flight the two agree.
CountIsExactWhenQuiet ==
    \A p \in Problem : Quiet(p) => validCount[p] = Cardinality(ValidVoters(p))

\* The compare-and-set "closes the race with assignment" (problem_repo.go:273-275):
\* a report that has an assignment is not taken down.
AssignedIsNotTakenDown ==
    [][\A p \in Problem :
         status[p] \notin {"Rejected", "Withdrawn"} /\ status'[p] \in {"Rejected", "Withdrawn"}
             => holder[p] = None]_vars

\* Audit entries that outlive their problem are "cleanable by re-running the delete"
\* (delete_problem.go:59-60).
OrphansAreCleanable ==
    \A p \in Problem : (status[p] = "Gone" /\ audit[p] # {}) ~> audit[p] = {}
=============================================================================
