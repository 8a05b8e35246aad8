---------------------------- MODULE CaseLifecycle ----------------------------
(***************************************************************************)
(* One case of the resolution context (internal/resolution): the official's  *)
(* public work on an assigned report, from the first look at it to the       *)
(* reporter's verdict, with the obstacles on the way and their adjudication. *)
(*                                                                           *)
(* As in ProblemLifecycle there is no transaction: one action is one SQL     *)
(* statement, and requests interleave.  Every use case loads the whole       *)
(* aggregate, decides on the copy, and saves the whole copy back (case_repo  *)
(* Save): the case row unconditionally, the children ON CONFLICT.  The       *)
(* SELECTs of one load are taken together.  Cases share no rows, so one case *)
(* is all there is to a system of many.                                      *)
(***************************************************************************)
EXTENDS Naturals, FiniteSets

CONSTANTS
    Plan,       \* plan ids; a plan brings one weekly task here, under the same id
    Obstacle,   \* obstacle ids: bounds the obstacles of the case (the code has no bound)
    Request,    \* slots for requests in flight
    None,       \* no plan row
    Scope,      \* the use cases an instance exercises
    Kept,       \* the use cases whose audit entries and messages an instance keeps
    Serial,     \* TRUE: requests on the case never overlap
    Faults      \* TRUE: requests die between statements, swallowed writes get lost

Op == {"open", "accept", "dispute", "plan", "replan", "tick", "progress", "note",
       "block", "evidence", "done", "solved", "reopen", "confirm", "deny"}

ASSUME CasePlanAssumption == None \notin Plan \cup Obstacle
ASSUME CaseScopeAssumption == Kept \subseteq Scope /\ Scope \subseteq Op
ASSUME CaseSwitchAssumption == Serial \in BOOLEAN /\ Faults \in BOOLEAN

CaseStatus == {"Assigned", "Acknowledged", "Planned", "InProgress", "Blocked",
               "Done", "Resolved", "Reopened", "Disputed"}
Verdict == {"confirmed", "denied"}

\* domain.Transition, as the set of its legal moves; mark_done needs evidence besides.
Moves == {
    <<"Assigned", "acknowledge", "Acknowledged">>, <<"Assigned", "dispute", "Disputed">>,
    <<"Acknowledged", "plan", "Planned">>,
    <<"Planned", "progress", "InProgress">>, <<"Planned", "block", "Blocked">>,
    <<"InProgress", "progress", "InProgress">>, <<"InProgress", "replan", "InProgress">>,
    <<"InProgress", "block", "Blocked">>, <<"InProgress", "mark_done", "Done">>,
    <<"Blocked", "progress", "InProgress">>,
    <<"Reopened", "progress", "InProgress">>, <<"Reopened", "replan", "InProgress">>,
    <<"Done", "confirm_resolved", "Resolved">>, <<"Done", "confirm_reopened", "Reopened">>}

\* Operators named Bug... stand for no code: each is a plausible slip in the
\* definition after it, kept to confirm that the stated properties notice it.
BugWorksUnanswered(s) == s \in {"Assigned", "Planned", "InProgress", "Blocked", "Reopened"}
IsWorkable(s) == s \in {"Planned", "InProgress", "Blocked", "Reopened"}

Statement == {"insert", "droptasks", "dropplan", "newplan", "newtask", "row", "plan", "task",
              "children", "verdict", "word", "mirror", "audit", "tell"}
\* What travels with a request: the copy it will save (to, plan, task, blockers) and
\* the obstacle it judges.
Handler == [op       : Op,
            pc       : Statement,
            to       : CaseStatus,
            plan     : Plan \cup {None},
            task     : {"none", "open", "done"},
            blockers : SUBSET Obstacle,
            judged   : Obstacle \cup {None}]
Idle == [op |-> "idle"]

VARIABLES
    status,     \* cases.status, or "NoCase" before the first look
    plan,       \* plans: UNIQUE (case_id); the id of the row, or None
    task,       \* plan_tasks of that row: "none", or its completed flag
    evidence,   \* whether a before/after pair is stored
    obstacles,  \* obstacles.adjudication by id, "none" without a row
    confirmed,  \* outcomes in confirmations
    public,     \* problems.status, as the resolution context mirrors it
    audit,      \* audit_entries, by the use case that wrote them
    told,       \* notifications, by the use case that wrote them
    req         \* requests in flight

rows == <<status, plan, task, evidence, obstacles, confirmed, public>>
trail == <<audit, told>>
vars == <<status, plan, task, evidence, obstacles, confirmed, public, audit, told, req>>

Stored == {o \in Obstacle : obstacles[o] # "none"}
Judged == {o \in Obstacle : obstacles[o] \in Verdict}
\* ResolvedAt is set by a denial and by nothing else.
Unresolved == {o \in Obstacle : obstacles[o] \in {"pending", "confirmed"}}

\* A new row's random id: not the stored plan's, and not one a request carries.
FreshPlan(n) == n # plan /\ \A c \in Request : req[c] # Idle => req[c].plan # n
FreshObstacle(o) ==
    o \notin Stored /\ \A c \in Request : req[c] # Idle => o \notin req[c].blockers

Init ==
    /\ status = "NoCase"
    /\ plan = None
    /\ task = "none"
    /\ evidence = FALSE
    /\ obstacles = [o \in Obstacle |-> "none"]
    /\ confirmed = {}
    /\ public = "Assigned"
    /\ audit = {}
    /\ told = {}
    /\ req = [c \in Request |-> Idle]

-----------------------------------------------------------------------------
(* A request's bookkeeping. *)

Quiet == \A c \in Request : req[c] = Idle

\* A request about to do a statement, with as much of its copy as it will still use.
Ahead(h, at) ==
    LET saved == at \in {"verdict", "word", "mirror", "audit", "tell"} IN
    [op       |-> h.op,
     pc       |-> at,
     to       |-> IF at \in {"audit", "tell"} THEN "Assigned" ELSE h.to,
     plan     |-> IF saved THEN None ELSE h.plan,
     task     |-> IF saved THEN "none" ELSE h.task,
     blockers |-> IF saved THEN {} ELSE h.blockers,
     judged   |-> IF at \in {"mirror", "audit", "tell"} THEN None ELSE h.judged]

Begin(c, o, at, s, pl, tk, blk, j) ==
    /\ o \in Scope
    /\ req[c] = Idle
    /\ Serial => Quiet
    /\ req' = [req EXCEPT ![c] =
            Ahead([op |-> o, to |-> s, plan |-> pl, task |-> tk, blockers |-> blk,
                   judged |-> j], at)]
    /\ UNCHANGED <<rows, trail>>

At(c, at) == req[c] # Idle /\ req[c].pc = at
Goto(c, at) == req' = [req EXCEPT ![c] = Ahead(@, at)]
Finish(c) == req' = [req EXCEPT ![c] = Idle]
\* The rows are written; the trail follows, in an instance that keeps it.
Report(c) == IF req[c].op \in Kept THEN Goto(c, "audit") ELSE Finish(c)

(* Loads: the aggregate, the use case's guards, and nothing written yet. *)

\* ListCases, ensureCase: a case is made the first time its official looks.
LoadOpen(c) ==
    /\ status = "NoCase"
    /\ Begin(c, "open", "insert", "Assigned", None, "none", {}, None)

\* A use case that moves the status by one event and adds nothing else to the copy.
Moved(c, o, event) ==
    \E s \in CaseStatus :
        /\ <<status, event, s>> \in Moves
        /\ Begin(c, o, "row", s, plan, task, Stored, None)

LoadAcknowledge(c) == Moved(c, "accept", "acknowledge") \/ Moved(c, "dispute", "dispute")
LoadProgress(c) == Moved(c, "progress", "progress")
BugDoneWithoutEvidence(c) == Moved(c, "done", "mark_done")
LoadDone(c) == evidence /\ Moved(c, "done", "mark_done")
LoadConfirm(c) ==
    \/ Moved(c, "solved", "confirm_resolved")
    \/ Moved(c, "reopen", "confirm_reopened")

BugPlansLater(c, n) == Moved(c, "plan", "plan")
LoadPlan(c, n) ==
    /\ FreshPlan(n)
    /\ \E s \in CaseStatus :
        /\ <<status, "plan", s>> \in Moves
        /\ Begin(c, "plan", "row", s, n, "open", Stored, None)

\* RevisePlan goes through ReplacePlan before it saves.
LoadReplan(c, n) ==
    /\ FreshPlan(n)
    /\ \E s \in CaseStatus :
        /\ <<status, "replan", s>> \in Moves
        /\ Begin(c, "replan", "droptasks", s, n, "open", Stored, None)

LoadTick(c) ==
    /\ IsWorkable(status)
    /\ plan # None /\ task # "none"
    /\ Begin(c, "tick", "row", status, plan, "done", Stored, None)

\* An obstacle note and an evidence upload save the status they loaded.
BugForgetsTicks(c) ==
    /\ IsWorkable(status)
    /\ Begin(c, "note", "row", status, plan, IF task = "none" THEN "none" ELSE "open",
             Stored, None)
LoadNote(c) ==
    /\ IsWorkable(status)
    /\ Begin(c, "note", "row", status, plan, task, Stored, None)
LoadEvidence(c) ==
    /\ IsWorkable(status)
    /\ Begin(c, "evidence", "row", status, plan, task, Stored, None)

BugKeepsWorking(c, o) ==
    /\ FreshObstacle(o)
    /\ IsWorkable(status)
    /\ Begin(c, "block", "row", status, plan, task, Stored \cup {o}, None)
LoadBlock(c, o) ==
    /\ FreshObstacle(o)
    /\ \E s \in CaseStatus :
        /\ <<status, "block", s>> \in Moves
        /\ Begin(c, "block", "row", s, plan, task, Stored \cup {o}, None)

\* AdjudicateObstacle: a confirmation asks nothing of the case's status and saves no copy,
\* a denial resumes the work with the progress event.
BugJudgesTwice(o) == obstacles[o] # "none"
Judgeable(o) == obstacles[o] = "pending"
LoadUphold(c, o) ==
    /\ Judgeable(o)
    /\ Begin(c, "confirm", "verdict", "Assigned", None, "none", {}, o)
BugDenialLeavesBlocked(c, o) ==
    /\ Judgeable(o)
    /\ IsWorkable(status)
    /\ Begin(c, "deny", "row", status, plan, task, Stored, o)
LoadDeny(c, o) ==
    /\ Judgeable(o)
    /\ \E s \in CaseStatus :
        /\ <<status, "progress", s>> \in Moves
        /\ Begin(c, "deny", "row", s, plan, task, Stored, o)

-----------------------------------------------------------------------------
(* The statements after the load. *)

\* The first Save of a case: UNIQUE (problem_id) refuses a second one.
Insert(c) ==
    /\ At(c, "insert")
    /\ status' = IF status = "NoCase" THEN "Assigned" ELSE status
    /\ Finish(c)
    /\ UNCHANGED <<plan, task, evidence, obstacles, confirmed, public, trail>>

\* ReplacePlan, its four statements.
DropTasks(c) ==
    /\ At(c, "droptasks")
    /\ task' = "none"
    /\ Goto(c, "dropplan")
    /\ UNCHANGED <<status, plan, evidence, obstacles, confirmed, public, trail>>

DropPlan(c) ==
    /\ At(c, "dropplan")
    /\ plan' = None
    /\ task' = "none"
    /\ Goto(c, "newplan")
    /\ UNCHANGED <<status, evidence, obstacles, confirmed, public, trail>>

NewPlan(c) ==
    /\ At(c, "newplan")
    /\ \/ /\ plan = None
          /\ plan' = req[c].plan
          /\ Goto(c, "newtask")
       \/ /\ plan # None
          /\ Finish(c)
          /\ UNCHANGED plan
    /\ UNCHANGED <<status, task, evidence, obstacles, confirmed, public, trail>>

\* A task's foreign key holds only while the plan it was loaded with is stored.
BugNoForeignKey(h) == TRUE
TaskFits(h) == plan = h.plan

NewTask(c) ==
    /\ At(c, "newtask")
    /\ \/ /\ TaskFits(req[c])
          /\ task' = "open"
          /\ Goto(c, "row")
       \/ /\ ~ TaskFits(req[c])
          /\ Finish(c)
          /\ UNCHANGED task
    /\ UNCHANGED <<status, plan, evidence, obstacles, confirmed, public, trail>>

\* Save: the row as the copy has it ...
SaveRow(c) ==
    /\ At(c, "row")
    /\ status' = req[c].to
    /\ Goto(c, IF req[c].plan # None THEN "plan" ELSE "children")
    /\ UNCHANGED <<plan, task, evidence, obstacles, confirmed, public, trail>>

\* ... the plan ON CONFLICT (case_id) DO NOTHING ...
SavePlan(c) ==
    /\ At(c, "plan")
    /\ plan' = IF plan = None THEN req[c].plan ELSE plan
    /\ Goto(c, IF req[c].task # "none" THEN "task" ELSE "children")
    /\ UNCHANGED <<status, task, evidence, obstacles, confirmed, public, trail>>

\* ... the task ON CONFLICT (id) DO UPDATE its completed flag ...
SaveTask(c) ==
    /\ At(c, "task")
    /\ \/ /\ TaskFits(req[c])
          /\ task' = req[c].task
          /\ Goto(c, "children")
       \/ /\ ~ TaskFits(req[c])
          /\ Finish(c)
          /\ UNCHANGED task
    /\ UNCHANGED <<status, plan, evidence, obstacles, confirmed, public, trail>>

\* ... and updates, evidence and obstacles ON CONFLICT (id) DO NOTHING.  No row of
\* these is ever deleted, so only what the use case itself added is new.
BugClobbersVerdicts(h, o) == o \in h.blockers
NewRow(h, o) == o \in h.blockers /\ obstacles[o] = "none"

BugSkipsConfirmation(o) ==
    IF o = "deny" THEN "verdict"
    ELSE IF o \in {"block", "progress", "replan", "done", "solved", "reopen"} THEN "mirror"
    ELSE "audit"
AfterSave(o) ==
    IF o = "deny" THEN "verdict"
    ELSE IF o \in {"solved", "reopen"} THEN "word"
    ELSE IF o \in {"block", "progress", "replan", "done"} THEN "mirror"
    ELSE "audit"

SaveChildren(c) ==
    LET h == req[c] IN
    /\ At(c, "children")
    /\ evidence' = (evidence \/ h.op = "evidence")
    /\ obstacles' = [o \in Obstacle |-> IF NewRow(h, o) THEN "pending" ELSE obstacles[o]]
    /\ IF AfterSave(h.op) = "audit" THEN Report(c) ELSE Goto(c, AfterSave(h.op))
    /\ UNCHANGED <<status, plan, task, confirmed, public, trail>>

\* UpdateObstacleAdjudication: WHERE id only.
BugStoresTheVerb(o) == o
VerdictOf(o) == IF o = "confirm" THEN "confirmed" ELSE "denied"

Judge(c) ==
    LET h == req[c] IN
    /\ At(c, "verdict")
    /\ obstacles' = [obstacles EXCEPT ![h.judged] = VerdictOf(h.op)]
    /\ IF h.op = "deny" THEN Goto(c, "mirror") ELSE Report(c)
    /\ UNCHANGED <<status, plan, task, evidence, confirmed, public, trail>>

\* AddConfirmation.
AddConfirmation(c) ==
    /\ At(c, "word")
    /\ confirmed' = confirmed \cup {IF req[c].op = "solved" THEN "solved" ELSE "not_solved"}
    /\ Goto(c, "mirror")
    /\ UNCHANGED <<status, plan, task, evidence, obstacles, public, trail>>

\* problems.SetStatus, WHERE id only; its error is discarded.
BugMirrorsOnlyWork(h) == IF h.op = "reopen" THEN public ELSE h.to
Face(h) == h.to

Mirror(c) ==
    /\ At(c, "mirror")
    /\ \/ public' = Face(req[c])
       \/ Faults /\ UNCHANGED public
    /\ Report(c)
    /\ UNCHANGED <<status, plan, task, evidence, obstacles, confirmed, trail>>

Notifies(o) == o \in {"block", "done", "reopen", "confirm", "deny"}

AppendAudit(c) ==
    LET o == req[c].op IN
    /\ At(c, "audit")
    /\ \/ audit' = audit \cup {o}
       \/ Faults /\ UNCHANGED audit
    /\ IF Notifies(o) THEN Goto(c, "tell") ELSE Finish(c)
    /\ UNCHANGED <<rows, told>>

Tell(c) ==
    /\ At(c, "tell")
    /\ \/ told' = told \cup {req[c].op}
       \/ Faults /\ UNCHANGED told
    /\ Finish(c)
    /\ UNCHANGED <<rows, audit>>

\* The process stops, the client hangs up or a statement fails: the request ends here.
Die(c) ==
    /\ Faults
    /\ req[c] # Idle
    /\ Finish(c)
    /\ UNCHANGED <<rows, trail>>

Load(c) ==
    \/ LoadOpen(c)
    \/ LoadAcknowledge(c)
    \/ \E n \in Plan : LoadPlan(c, n)
    \/ \E n \in Plan : LoadReplan(c, n)
    \/ LoadTick(c)
    \/ LoadProgress(c)
    \/ LoadNote(c)
    \/ \E o \in Obstacle : LoadBlock(c, o)
    \/ LoadEvidence(c)
    \/ LoadDone(c)
    \/ LoadConfirm(c)
    \/ \E o \in Obstacle : LoadUphold(c, o)
    \/ \E o \in Obstacle : LoadDeny(c, o)

Step(c) ==
    \/ Insert(c)
    \/ DropTasks(c)
    \/ DropPlan(c)
    \/ NewPlan(c)
    \/ NewTask(c)
    \/ SaveRow(c)
    \/ SavePlan(c)
    \/ SaveTask(c)
    \/ SaveChildren(c)
    \/ Judge(c)
    \/ AddConfirmation(c)
    \/ Mirror(c)
    \/ AppendAudit(c)
    \/ Tell(c)

Next == \E c \in Request : Load(c) \/ Step(c) \/ Die(c)

Spec == Init /\ [][Next]_vars

-----------------------------------------------------------------------------
(* What holds however the requests interleave and wherever they die. *)

TypeOK ==
    /\ status \in CaseStatus \cup {"NoCase"}
    /\ plan \in Plan \cup {None}
    /\ task \in {"none", "open", "done"}
    /\ evidence \in BOOLEAN
    /\ obstacles \in [Obstacle -> {"none", "pending"} \cup Verdict]
    /\ confirmed \subseteq {"solved", "not_solved"}
    /\ public \in CaseStatus
    /\ audit \subseteq Kept
    /\ told \subseteq Kept
    /\ req \in [Request -> Handler \cup {Idle}]

\* Nothing is called done, by the case or on the public record, before a stored
\* before/after pair (lifecycle.go:83-87), and neither is anything that follows Done.
Outcome == {"Done", "Resolved", "Reopened"}
DoneNeedsEvidence == {status, public} \cap Outcome # {} => evidence

\* The public record shows an outcome only with its cause stored: Resolved and
\* Reopened with the reporter's word, Blocked with an obstacle (confirm_resolution.go,
\* report_obstacle.go).  The cause is written by an earlier statement each time.
PublicHasCause ==
    /\ public = "Resolved" => "solved" \in confirmed
    /\ public = "Reopened" => "not_solved" \in confirmed
    /\ public = "Blocked" => Stored # {}

\* A stale copy's task is never stored under a plan that has been replaced.
TaskNeedsPlan == task # "none" => plan # None

\* A case its official once answered is never unanswered again, so the silence clock
\* of the escalation worker stays anchored, whatever old copies are saved.
AnsweredStaysAnswered ==
    [][status \notin {"NoCase", "Assigned"} => status' \notin {"NoCase", "Assigned"}]_vars

\* "so it is never clobbered by the aggregate save" (adjudicate_obstacle.go:65-67): a
\* judged obstacle does not become pending again, although copies loaded before the
\* verdict are saved after it.
VerdictsAreKept ==
    [][\A o \in Obstacle : obstacles[o] \in Verdict => obstacles'[o] \in Verdict]_vars

\* The public trail and the messages claim nothing the tables do not show: the
\* reporter's word and the denial are stored by a statement before the entry that
\* announces them (confirm_resolution.go:57-66, adjudicate_obstacle.go:59-62, 76-80).
TrailTellsTheTruth ==
    LET claimed == audit \cup told IN
    /\ "solved" \in claimed => "solved" \in confirmed
    /\ claimed \cap {"confirm", "deny"} # {} => Judged # {}

\* What makes the above inductive: what each request in flight is, whatever its
\* statement, and what its copy may still rely on however old it has become.
Mirrors(o) == o \in {"block", "progress", "replan", "done", "solved", "reopen", "deny"}
Brings(o, s) ==
    /\ o = "block" => s = "Blocked"
    /\ o = "done" => s = "Done"
    /\ o = "solved" => s = "Resolved"
    /\ o = "reopen" => s = "Reopened"
    /\ o \in {"progress", "replan", "deny"} => s = "InProgress"
Replacing == {"droptasks", "dropplan", "newplan", "newtask"}
Saving == Replacing \cup {"row", "plan", "task", "children"}

Fits(h) ==
    /\ h.pc \in Saving => h.op \notin {"open", "confirm"} /\ h.to # "Assigned"
    /\ h.pc \in Saving /\ h.op = "block" => h.blockers # {}
    /\ h.pc \in Replacing \cup {"plan", "task"} => h.plan # None
    /\ h.pc \in Saving \cup {"verdict"} /\ h.op \in {"confirm", "deny"} => h.judged \in Obstacle
    /\ h.pc = "verdict" => h.op \in {"confirm", "deny"}
    /\ h.pc = "word" => h.op \in {"solved", "reopen"}
    /\ h.pc = "mirror" => Mirrors(h.op)
    /\ h.pc \in Saving \cup {"verdict", "word", "mirror"} => Brings(h.op, h.to)
    /\ h.pc \in {"audit", "tell"} => h.op \in Kept

\* By its mirror, or the trail after it, a request has stored the cause of what it shows.
Caused(o) ==
    /\ o = "solved" => "solved" \in confirmed
    /\ o = "reopen" => "not_solved" \in confirmed
    /\ o = "block" => Stored # {}
    /\ o \in {"confirm", "deny"} => Judged # {}
Backed(h) ==
    /\ h.to \in Outcome => evidence
    /\ h.pc \in {"mirror", "audit", "tell"} => Caused(h.op)

InFlight == \A c \in Request : req[c] # Idle => Fits(req[c]) /\ Backed(req[c])

Inv ==
    /\ TypeOK
    /\ DoneNeedsEvidence /\ PublicHasCause
    /\ TaskNeedsPlan /\ TrailTellsTheTruth
    /\ InFlight

-----------------------------------------------------------------------------
(* What the comments in the code promise.  Except for the last, all of it holds    *)
(* while requests on the case take turns (Serial) and none dies, and none of it    *)
(* when they overlap or die.                                                      *)

\* A case is "Blocked" behind an obstacle somebody can still judge, "so a blocker can
\* never be a permanent parking spot" (escalate_overdue.go:197-201): without one the
\* worker has no clock to start and skips the case.
BlockedIsNeverParked == Quiet /\ status = "Blocked" => Unresolved # {}

\* "Keeping the public problem record in step with the case" (ports.go:40-41).
FaceOf(s) ==
    IF s \in {"NoCase", "Assigned", "Acknowledged", "Disputed", "Planned"}
    THEN "Assigned" ELSE s
PublicInStep == Quiet => public = FaceOf(status)

\* "The plan exists and the case is being worked" (complete_task.go:13-14).
PlanExistsWhileWorked == Quiet /\ IsWorkable(status) => plan # None /\ task # "none"

\* With no request under way, the case, its children and its public face agree.
InStepWhenQuiet == BlockedIsNeverParked /\ PublicInStep /\ PlanExistsWhileWorked

\* "completed/completed_at change as the official checks weeks off, and re-saving the
\* aggregate must persist that" (case_repo.go:62-64): a week once checked off stays
\* so for as long as its plan does.
TickIsKept == [][task = "done" /\ plan' = plan => task' # "open"]_vars

\* "Already single-shot behind a guarded transition ... ErrAlreadyAdjudicated"
\* (000023_notifications.up.sql:119-122): a verdict once stored is the verdict.
VerdictStands ==
    [][\A o \in Obstacle : obstacles[o] \in Verdict => obstacles'[o] = obstacles[o]]_vars

\* No request in its turn takes back a week checked off or a verdict given.
NothingIsTakenBack == TickIsKept /\ VerdictStands

\* "ResolvedAt marks when work resumed past the blocker" (obstacle.go:54), and the
\* active one is "(nil, false) when the problem is not blocked" (get_obstacle.go:10-12).
ResumedMeansResolved == Quiet /\ status = "InProgress" => Unresolved = {}
=============================================================================
