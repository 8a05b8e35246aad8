# A formal model of jago-bahe-konthe-shobai

The platform lets residents of an electoral seat report local problems. A union admin
screens each report, residents endorse it, an admin hands it to an official, the official
works on it as a public *case*, and the reporter has the last word on whether it is solved.
The backend (`jago-bahe-backend`, Go and PostgreSQL) is modelled here in TLA+, checked with
TLC and proved about with TLAPS.

One fact about the backend shapes every module: **it opens no transaction**. A use case is
a sequence of SQL statements over a connection pool
(`problem/application/delete_problem.go:54-56` says so outright), many HTTP requests run at
once, audit and notification writes discard their errors (`_ = uc.audit.Append`), and the
worker writes the same rows. So each module takes a request one statement at a time, lets
the statements of different requests interleave, and lets a request end after any of them.

## The system

| Component | State | Operations | Interacts with | Correct when |
|---|---|---|---|---|
| Problem (`internal/problem`) | `problems`, `validation_votes` | report, approve, reject, withdraw, edit, delete, vote | audit, notifications; its status is also written by assignment and resolution | nothing unscreened is public; endorsements mean what they say; takedowns are final; deletion is complete |
| Assignment (`internal/assignment`) | `assignments`, `forwarding_suggestions` | assign within a union, suggest and forward above it | reads the problem and the officials, writes the problem's status | one official per report, chosen only while the report is open, and shown |
| Resolution (`internal/resolution`) | `cases`, `plans`, `plan_tasks`, `progress_updates`, `evidence`, `obstacles`, `confirmations` | open, acknowledge or dispute, plan, revise, tick, update, block, attach evidence, mark done, confirm, adjudicate | mirrors its status onto the problem | the state machine of `lifecycle.go`; Done needs evidence; only the reporter resolves; obstacles are judged once |
| Obstacle judgment | `obstacle_votes`, `unblocking_plans`, their upvotes | vote, propose, upvote | active obstacle of a case | one vote each; advisory only |
| Escalation worker (`cmd/worker`) | `cases.escalation_level`, `case_observations` | scan: raise levels, open and close observation rungs | cases, monitor ladder, audit | levels only rise; an answered case is released; one open observation per rung |
| Identity (`internal/identity`) | `accounts`, `officials`, `official_claims` | register, verify, log in, claim an office, review the claim | areas, audit | one holder per office; no power without a recorded approval |
| Suggestions (`internal/suggestion`) | `suggestions`, `suggestion_votes` | propose, toggle an upvote, rank | snapshot of the top one goes into a plan | one upvote each; deterministic top |
| Scorecards (`internal/scorecard`) | none: a read model over cases | classify, aggregate | cases, obstacles | an official is not blamed for a confirmed obstacle |
| Audit, notifications, areas (`internal/shared`) | `audit_entries`, `notifications`, `areas` | append, erase by target; append, read, mark read; tree lookups | every context | no entry claims what did not happen; a message reaches its addressee only |
| HTTP API, authentication, wiring (`cmd/api`, `pkg/auth`) | tokens | adapters between the contexts, the claims a token carries | every context | a token confers nothing its account was not given |
| Operator commands, web frontend | none, or I/O only | | | not modelled |

The behaviours that are hard to test, at the line where each bites, are the `hazards` of
`PROJECT.json`. They come down to four patterns in this code:

1. *load, decide, write back unconditionally*: the write carries a status read earlier
   (`UpdateValidation`, `SetStatus`, the case repository's `Save`);
2. *compare-and-set on one column, decision on another* (`SetScreening`, `Update`);
3. *two tables, two statements* (assignment row and public status, problem row and audit
   trail, case row and confirmation), with nothing run after a failure between them;
4. *constraints as the only arbiter* (UNIQUE on votes, assignments, cases, plans, phones and
   approved claims), which is what keeps the above from doing worse;
5. *one rule written several times* (the fairness rule, the recipient predicate, who may act
   and who is shown what), where the copies must agree.

## Modules

| Module | What it is |
|---|---|
| `ReportRecord` | the promise: one report, every operation a single step |
| `ProblemLifecycle` | the problem and assignment contexts, one SQL statement per action |
| `ProblemRefinement` | the mapping under which the second implements the first |
| `ProblemLifecycle_proofs` | theorems about `ProblemLifecycle`, checked by TLAPS |
| `MCProblem` | symmetry and model values for TLC |
| `CaseRecord` | the promise: one case, its state machine, its public face, every operation a single step |
| `CaseLifecycle` | the resolution context's writes on one case, one SQL statement per action |
| `CaseRefinement` | the mapping under which the second implements the first |
| `CaseLifecycle_proofs` | theorems about `CaseLifecycle`, checked by TLAPS |
| `MCCase` | symmetry and model values for TLC |
| `Watch` | the promise: rungs are called in from below, one after the other, and released together |
| `Escalation` | the worker's scan, query by query, against the people who act on the case meanwhile |
| `Escalation_proofs` | theorems about `Escalation`, checked by TLAPS |
| `Seat` | the promise: one question, one answer, one holder, and power after the award |
| `Office` | accounts, claims, reviews, verification and tokens, one statement per action |
| `Office_proofs` | theorems about `Office`, checked by TLAPS |
| `MCOffice` | a seeded official, two claimants, two admins for TLC |
| `Ladder` | the read-only geography and directory: unions, routes, advisers, the monitor chain |
| `Forwarding` | both routes to an official, the advice, and the lists that offer them |
| `Forwarding_proofs` | theorems about `Forwarding` |
| `MCForwarding` | a small seat for TLC |
| `Voices` | suggestions, the upvote toggle, the ranking and the snapshot a plan keeps |
| `Judgment` | residents' votes and plans about obstacles, and the fairness rule in its three wordings |
| `Residents_proofs` | theorems about `Judgment` and `Voices` |
| `Inbox` | notifications: appended, listed, counted, marked |
| `Views` | who is shown a report, and which decisions the feeds show |
| `Reading_proofs` | theorems about `Inbox` and `Views` |
| `Maximum` | of finitely many naturals one is the greatest: a lemma for the proofs |
| `MCCivic` | `Forwarding`, `Voices`, `Judgment`, `Inbox` and `Views` in one instance for TLC, requests and voters interchangeable |

### ProblemLifecycle

State: one function per column that matters, over problem ids (`status`, `validCount`,
`text`, `reviewer`, `votes`, `holder` for the assignment row), the audit entries and
notifications by the use case that wrote them, and `req`, the requests in flight. A request
record holds what the handler's Go locals hold: the operation, the problem, the actor, the
status it loaded (`from`), the one it will write (`to`), the count, and `pc`, the statement
that runs next.

| Use case | Actions, in order |
|---|---|
| ReportProblem | `Report` (INSERT), `AppendAudit` |
| ApproveProblem, RejectProblem | `LoadApprove`/`LoadReject`, `Screen` (compare-and-set), `AppendAudit`, `Tell` |
| WithdrawProblem | `LoadWithdraw`, `Withdraw`, `AppendAudit` |
| UpdateProblem | `LoadEdit`, `Edit`, `AppendAudit` |
| DeleteProblem | `LoadDelete`, `Erase` (with the cascade), `Purge` |
| CastValidationVote | `LoadVote`, `AddVote`, `CountVotes`, `SaveCount`, `AppendAudit` if the status flipped |
| AssignWithinUnion, ForwardProblem | `LoadAssign`, `CreateAssignment`, `MarkAssigned`, `AppendAudit`, `Tell` |
| the case use cases | `MirrorCase`: any case status may be written once an assignment row exists |

Abstractions, each on purpose:

- The caller's checks (resident of the union, admin of the union, the reporter) read tables
  these use cases do not write; the sets `Resident` and `Admin` are those who pass them.
- Which official, override reasons and routing by tier do not change what is written here:
  `LoadAssign` picks any official.
- The assigner's two notifications are one `Tell`; nothing reads between them.
- A problem id is never reused, as ids are random (`pkg/idgen`).
- `Init` is an empty database. Reports that were public before the screening gate existed
  have no reviewer (migration 000017), so `ScreenedFirst` speaks of reports filed since.
- `MirrorCase` is wider than the code: it ignores the case's own state machine, so what holds here holds for
  every behaviour of the resolution context.
- `Die` ends a request at any point: a crash, a restart, a client that hung up, a failed
  statement. Losing an audit or notification write is the `Faults` branch of `AppendAudit`
  and `Tell`.

Bounds: `MaxText` caps the edits of a problem (the code has no cap), `Kept` restricts which
use cases leave their mark in `audit` and `told`, `Request` is the number of requests in
flight. Every race found in this code needs two requests; votes need one more resident than
the threshold to overshoot, hence three residents for V = 2 in the serial run.

### CaseLifecycle

A use case of the resolution context loads the whole aggregate (`Case` with its plan, weekly
tasks, evidence and obstacles), decides on the copy with `domain.Transition` or
`IsWorkable`, and hands the copy to `CaseRepository.Save`, which writes the row
unconditionally and the children ON CONFLICT. So a request in flight *is* a copy: `to` (the
status it will write), `plan`, `task`, `blockers`, and `pc`. `Ahead` drops each part of the
copy when no later statement uses it.

State: `status` (with `NoCase` before `ensureCase`), the id of the `plan` row, the `task` of
that plan, whether `evidence` is stored, the adjudication of each of the `obstacles`, the
outcomes in `confirmed`, the mirrored `public` status, the trail.

| Use case | Actions, in order |
|---|---|
| ListCases (ensureCase) | `LoadOpen`, `Insert` |
| AcknowledgeCase | `LoadAcknowledge`, Save, audit |
| SubmitPlan | `LoadPlan`, Save, audit |
| RevisePlan | `LoadReplan`, `DropTasks`, `DropPlan`, `NewPlan`, `NewTask`, Save, `Mirror`, audit |
| CompleteTask, UploadEvidence | `LoadTick` / `LoadEvidence`, Save, audit |
| PostUpdate | `LoadProgress`, Save, `Mirror`, audit; a note is `LoadNote`, Save, audit |
| ReportObstacle, MarkDone | `LoadBlock` / `LoadDone`, Save, `Mirror`, audit, `Tell` |
| ConfirmResolution | `LoadConfirm`, Save, `AddConfirmation`, `Mirror`, audit, `Tell` on a reopen |
| AdjudicateObstacle | `LoadUphold`, `Judge`, audit, `Tell`; or `LoadDeny`, Save, `Judge`, `Mirror`, audit, `Tell` |

Save is `SaveRow`, then `SavePlan` and `SaveTask` if the copy has them, then `SaveChildren`.

Abstractions:

- The SELECTs of one load are taken together, and the INSERTs of a Save's updates, evidence and
  obstacles are one statement: a use case adds to one of them only, and rows of these
  tables are never deleted.
- `acknowledged_at` and `dispute_reason` are in the same UPDATE as the status and follow it;
  progress updates are not kept, as nothing is decided on them here. Escalation columns are
  written by the worker alone.
- A plan brings one weekly task. Two would differ only in which of them a stale copy takes back.
- Ids of plans and obstacles are fresh because the code draws them at random; `Obstacle`
  bounds how many a case can have.
- Ownership (`loadOwnedCase`), the reporter check and the adjudicator's seat only select
  who may act.
- Votes and moderation also write `problems.status`; here the case is the only writer, and
  the composition of both modules is in the plan. `public` starts as the assigned report.
- `Scope` names the use cases an instance exercises and `Kept` those whose trail it keeps;
  a use case that is not kept ends with its last row. Neither changes what is written.

### Escalation

One case and one worker. A scan is a record that grows with each query and shrinks with each
use: the candidate row (`Start`), the last activity (`ReadActivity`), the open observations
(`ReadOpen`), then `Raise` (SetEscalation), `Sync` (ResolveOpenObservations and the ladder's
chain) and one `OpenRung` per missing rung. `Crash` ends it anywhere, and a ladder that fails
(`height` 0 in `Sync`) ends this case's turn. Between any two of them the official acts
(`Work`, `PlanWork`, `Replan`, `Declare`, `MarkDone`, `Dispute`, then `DropPlan`, `SaveRow`,
`SaveChild`, or `Abandon`), the admin denies (`Deny`), the reporter answers (`Confirm`) and an
observer notes (`LoadNote`, `AddNote`, `TellNote`, `DropNote`).

- The case is kept to what the two clocks read: `acted`, `planned` and `pending` are the
  columns `LastActivityAt` takes the maximum of; `heard` is a history variable, the latest
  answer ever stored, which a replaced plan (whose times are deleted) does not lower.
- `Waiting` stands for the statuses the worker treats alike.
- One worker (`OneWorker`, an assumption of the module): `cmd/worker` runs its scans one after the other and the deployment starts it
  once. Nothing in the code keeps a second one out; with two the level may be set back
  by a scan decided on an older row.
- Time is a counter and each stamp a fresh instant.

### Office

State: `account` by phone (role, union, office, verified flag), `claim` by account, `token`
(every token ever issued stays), the entries about people, and the requests in flight.

| Use case | Actions, in order |
|---|---|
| RegisterResident, RegisterOfficial | `Register` (GetByPhone), `Create` (UNIQUE phone), `File` for an official, `Greet` (token and entry) |
| Login | `Login` |
| ReviewClaim | `LoadClaim`, `Decide` (WHERE pending, unique index on approved offices), on approval `Bind` and `Verify`, `Note` |
| VerifyResident | `LoadResident`, `Verify`, `Note` |

`Fail` ends a request at any point. Admins and the super admin are seeded and never change, so
they are constants. A claim approved by a request that ends before `Bind` stays decided and
unbound, and no review can take it up again; an account whose registration ends before `File`
never gets a claim. The properties say what is certain in spite of it: too little authority,
never too much.

### Ladder and Forwarding

`Ladder` holds the pure rules over the two read-only tables: `UnionOfArea`, `UpazilaOfArea`,
`AdminUnion`, `Route`, `EligibleAdvisers`, `RungAbove`, `MonitorChain`. `Forwarding` takes one report
through `Assign` (AssignWithinUnion) or `Forward` and `Judge` (ForwardProblem: the advice, its
top, the reason owed), then `assigner.create`: `Insert`, `Mark`, `Audit`, `Tell`. `Suggest`,
`Upsert`, `Note` are SuggestForwarding; `InQueue`, `InForwardingQueue` and `InAdviceList` are the three
lists. `Judge` walks the tally in every order, since Go leaves a map's order open. Statuses of a report
that matter here are four; `Validate` and `TakeDown` stand for what `ProblemLifecycle` details.

### Voices, Judgment, Inbox, Views

- `Voices`: `Propose`; `Press`, `Check`, `Toggle`, `Relist` are one upvote; `Look` is the list of
  my upvotes; `ReadTop`, `StorePlan` are the part of a plan that answers the leading suggestion;
  `Erase` the cascade. `button` keeps what each voter was last told, `led` which suggestions have
  led, for the properties. A suggestion is known by its stamp and may be stored out of order.
- `Judgment`: the residents' requests are `Vote`, `Cast`, `ProposeUnblocking`, `Store`, `Support`, `ToggleSupport`;
  the official's, the reporter's and the adjudicator's use cases are one step each, as
  `CaseLifecycle` takes them apart. `Bucket` (classify over its SQL projection), `FairnessFlag` and
  `BlockedOnHigherAuthority` are the three wordings of one rule. The report is not erased here.
- `Inbox`: `AppendMessage`, `Cascade`, `Bind`, `Login`, `List`, `MarkRead`, `MarkAllRead`, `Pass`. A caller
  answers to the account and to the office in a token that may be older than the account.
- `Views`: the decisions, one step each, with the entry they write, and the reads query by query
  (`ReadLists`, `Get` then `Page`, `Activity` then `Titles`). Entries that are nobody's decision are
  `"other"`. `seen` keeps who was last shown anything of the report and in which
  status: by which list or page is not told apart.

## Runs

Passing runs:

| Run | Question | Instance |
|---|---|---|
| `problem_overlap` | what survives any interleaving and any death | 1 problem, 2 residents, V = 2, 1 admin, 2 officials, 2 requests, faults |
| `problem_trail` | does the public trail tell the truth | 1 resident, V = 1, 1 admin, 2 requests, faults, audit of approve, reject, assign, vote kept |
| `problem_serial` | does the code implement `ReportRecord` when requests take turns | 3 residents, V = 2, no faults |
| `problem_live` | does an assignment always reach the public record | 1 resident, 2 requests, fair handlers, no faults |
| `case_overlap` | what survives stale saves and deaths | 3 plan ids, 1 obstacle, 2 requests, faults; disputes, notes, ticks, progress updates and upheld obstacles left out |
| `case_trail` | does the case's trail tell the truth | the same without revisions and reopens, but with upheld obstacles; trail of solved, confirm, deny |
| `case_serial` | does the code implement `CaseRecord` when requests take turns | every use case, 3 plan ids, 2 obstacles, no faults |
| `escalation` | are observers called in late and in order, kept on record, and released by an answer alone; does a silence come to be seen | 1 worker, clock to 5, windows of 1, 3 levels, a ladder of 2, 1 failed scan, 1 noted row |
| `office` | does power ever run ahead of its record | 2 claimants and a seeded official, 2 offices, 2 unions, 2 admins, the super admin, 2 requests |
| `civic` | are hand-overs explained, lists and counts true, votes kept, messages and pending reports private | a seat of 6 areas, 4 officials and 2 admins; 2 suggestions, 2 voters; 2 obstacles; 3 messages, 2 moments, a list of 2; 1 reader; 2 requests |

A property of a run is one theme, as a conjunction of named parts each stated and explained where it
is defined (`ObserversAreDue` is `InOrder`, `CalledInLate`, `TrailHasCause` and the types;
`HandoverIsSound` is `DepartureIsExplained`, `TallyIsHonest` and `HandedOnce`); the `Inv` of the overlap
runs contains `TypeOK` and the parts the theorems below name.

`escalation`: a clock of 5 leaves room for two windows, a silence, an answer and a second silence.
Three levels under a ladder of two exercise both cuts. `office`: the races are between two
reviews of one office, two registrations of one phone, and a review and a verification, all
of two requests. `civic`: its components share no row that two of them write, so one of them moves per behaviour
(`part`) and the others keep their initial state; a product would add states and no case. Three
messages under a list of two fill the list; two obstacles let an old excuse meet a
new one; two voters and two suggestions give ties and a lead that changes hands.

The use cases `case_overlap` leaves out save copies of the same shape as those it has: a note and a
tick save what an evidence upload saves, and no property of that run reads the completed flag; a
progress update writes what a revision and a denial write; a dispute is a dead end; an upheld
obstacle is written by the statement that writes a denied one.
All of them run in `case_serial` and in the runs that look for violations. Three plan ids let
two revisions race over a stored plan.

Problems share no state (every statement names one problem id), so one problem is enough;
two requests are enough for each pairwise race, and the proofs lift the safety results to
any number.

Deadlock checking is off, except in `office`: when every problem is deleted, the last message
read or the clock at its bound, and every request has ended, nothing is left to do, and that is
a legitimate rest.

Runs that show a disagreement between the code and what its comments say (each quoted under
`findings`):

| Run | What happens |
|---|---|
| `problem_orphans` | a delete dies before its second statement, and a re-run is refused |
| `case_resumed` | a progress update resumes a blocked case and its obstacle stays active; no overlap needed |

Further promises of comments that the code does not keep. Their definitions are in the modules,
outside the runs; each, given as the only property of a copy of the overlap configuration, is refuted:

- `LateVoteMovesNothingBack`: a vote that loaded the report before a decision puts the older status back;
- `AssignedIsNotTakenDown`: a takedown succeeds between the assignment row and the public status;
- `VerdictStands`: both adjudicators read "pending", and the second verdict replaces the first;
- `FinishedIsReleased` (with the escalation run's configuration): a case that is disputed or
  confirmed leaves the worker's candidates, so its observers stay open for good.

Smaller disagreements, seen while reading and described here only: an override reason of blanks
is accepted on the union's route and trimmed on the seat's
(`override_assignment.go:7-10`); denying an older pending obstacle resumes a case whose newer
one was confirmed (`adjudicate_obstacle.go:14-16`); the reload that answers an obstacle vote may find
no obstacle, or another one (`vote_obstacle.go:46-51`); marking all messages read marks those that
arrived after the list was fetched; two overlapping presses of one voter may net one vote; advice that is
stored after the forward read the advice is kept and never weighed.

The serial runs check the promises that do hold when requests take turns and none dies. The same
properties fail once requests overlap: each, checked alone with one obstacle and `Serial` set to
FALSE, is violated within a minute, and the traces are the hazards of this code:

- `EndorsedTextIsFrozen`: an edit lands between a vote's INSERT and the UPDATE of the count
  its compare-and-set reads;
- `CountIsExactWhenQuiet`: two votes count in one order and save in the other;
- `BlockedIsNeverParked`: a copy loaded while Blocked is saved after a denial resumed the
  work, and the worker has no obstacle left to clock;
- `PublicInStep`: a stale save by a use case that mirrors nothing (a tick, a note, evidence);
- `TickIsKept`: a copy loaded before a week was checked off is saved after it;
- `PlanExistsWhileWorked`: with `Faults`, a request that ends between the case row and the
  plan row; submitting the plan again is then refused.

`LateVoteMovesNothingBack` and `AssignedIsNotTakenDown` need no check in the serial runs: they are
proved of them (`VotesMoveForward`, `TakedownsPrecedeAssignment`), from the invariant that gives the
refinement. That a takedown is final follows from `KeepsTheRecord`.

## Fairness

`FairSpec` gives weak fairness to `Step(c)` for each request slot: a started handler keeps
running, as Go's scheduler and the database serve every request. Nobody is obliged to file,
vote, screen or assign, so no load is fair. `ReRunSpec` adds that a reporter who can start a
delete eventually does, which is the assumption the comment on re-running the delete makes.
The liveness run excludes `Die`: an assignment whose request dies between its two statements
does stay unshown, and nothing in the code repairs it.

`FairSpec` of `Escalation` gives weak fairness to the clock and to the worker's scan, a started scan
going on to its end and the ticker starting the next one (`cmd/worker/main.go`). `MaxFaults`
bounds the scans that fail: a worker that fails for ever is promised nothing. The official, the admin,
the reporter and the observers owe nothing. `SilentIsSeen` and `AnsweredIsReleased` are about a
finite clock: once it stops at `Last` the scans go on with it, which is the case of a silence, or of
an answer, that lasts.

## Proofs

`ProblemLifecycle_proofs` proves, for every finite set of residents and every value of the
other constants, type correctness and the safety properties of `problem_overlap`.
Assumptions: residents are finite, V is a positive natural, the text bound is a natural,
`None` is no official, admin or vote.

The invariants are not inductive on their own. A stale request is the difficulty: it will
write what it decided from a row that has moved since. `Inv` therefore adds

- `RecordsAgree`: before screening, before filing and after deletion a report is untouched,
  and an assigned report has a reviewer;
- `InFlight`: what each request may still *rely on* however old its load is. A vote in
  flight proves that the report is public and that whatever justified the status it loaded
  (a reviewer, an official, V votes) is still there, because nothing but a delete takes any
  of them away; an assignment in flight proves screening; a counted vote proves that many stored votes.

The argument has three parts. `Steady` collects what no step undoes (a reviewer, an official
and a vote stay until the report goes; a public report does not go back), and
`StepSteady`/`NextSteady` show it of every action. `OthersRely` turns steadiness into the
preservation of `Relies` for the requests that did not move. The `...Sound` lemmas show, one
per action, that the records stay sound given what the acting request relies on, and
`StepRelies`/`LoadRelies` that the acting request re-establishes its own clause. The action
properties `NeverHiddenAgain` and `HolderNeverReplaced` follow from steadiness.

That the trail tells the truth needs one clause more per request and per entry (`TrailInv`): a request
about to write an entry has behind it what the entry reports (`Vouched`), and so has every entry
written (`Backed`). Both are made of facts `Steady` keeps, so they survive every other request.

The promises that hold only while requests on one report take turns and none dies are proved under
exactly these two assumptions (`Serial`, `~ Faults`), for any number of reports. `SerialInv` (in
`ProblemRefinement`) says why they hold: at most one request is on a report, what it loaded is still so
when its next statement runs (`Fresh`), and the published count is that of the votes counted so far
(`Published`). From it follow the refinement to `ReportRecord` (`RecordIsKept`: one statement of each use
case maps to the operation, the others to stutters), `CountIsExact`, `EndorsementsFreezeTheText`,
`TakedownsPrecedeAssignment` and `VotesMoveForward`.

`CaseLifecycle_proofs` proves, for any number of requests, plan ids and obstacles and every
subset of use cases, type correctness and the safety properties of `case_overlap` and
`case_trail`. Assumptions: `None` is no plan id and no obstacle. The runs restrict the use cases; the proofs do not.

Its inductive invariant adds to the properties two facts about each copy in flight. `Fits`
describes the request alone: a copy on its way through Save belongs to a use case that saves,
will not write "Assigned", has a plan wherever a plan statement follows, and brings the status its
use case brings. `Backed` says what it may rely on: the evidence behind an outcome it will
write and, from its mirror on, the stored cause of what it announces. No step takes away
evidence, a confirmation, an obstacle or a verdict (`Grows`), so `OthersStay` keeps both for
the requests that did not move, `Advance`, `ReportKeeps` and `Ending` re-establish them for the
one that did, and the `...Sound` lemmas, one per action, preserve the records.
`AnsweredStaysAnswered` then rests on `Fits` alone, `VerdictsAreKept` on the ON CONFLICT of Save.

With `Serial` and without `Faults` it proves the refinement to `CaseRecord` (`CaseIsKept`), `CaseIsInStep`
and `NothingGoesBack`. Here the case the world has been promised runs ahead of the rows: once a request has begun
to write, the case is what its copy says (`Writer`, `Busy`), because no other request can look before it
ends. `SerialInv` (in `CaseRefinement`) relates the two: the state machine let the request begin
(`Allowed`), what it has written is its copy and what it has not is as it was loaded (`CopyOfPlan`,
`CopyOfObstacles`), and the case it announces has the plan, the obstacle and the public face its status calls for
(`InStep`). The operation happens at the first write of the use case; its other statements are stutters.

`Office_proofs` proves, for any number of requests, phones, offices, unions and admins, every
property of the `office` run, the refinement to `Seat` included. Assumptions (`OfficeAssumption`):
seeded officials hold different offices, `None` is no office and no union, an admin is not the
super admin. `PowerHasRecord` is not inductive: an approval writes three rows and another review may run
between them. `RecordsAgree` adds what the constraints give (one approved claim per office,
claims of officials only, what each entry of the trail has behind it) and `InFlight` what each
request relies on, however old its load: one about to bind knows its claim was approved, one about
to verify for a claim knows its account has the office, one about to file knows its account has no claim
yet, and no two requests file for one account. `Grows` collects what no step takes away
(an account's role, a decided claim, an office, a flag); `RowsGrow` shows it of every action, `Advance` turns it into the
preservation of `Relies` for the others, and one lemma per action does the rest.
For the refinement, `Decide` maps to an award or a refusal, `Bind` to the power that follows, `File`
to the question, and all other steps to stutters.

`Escalation_proofs` proves the safety of the `escalation` run, the refinement to `Watch` included, for any
clock, deadline, window, ladder and number of failed scans and notes. Assumptions:
`EscalationAssumption` (the bounds are naturals, the windows positive) and `OneWorker`. The invariant ties the scan to the
rows it will overwrite (`ScansAreFresh`): the open rungs are always 1..m, the rungs the scan still has to open are
m+1..n, and its copy of the level is the stored one, since nobody but the scan writes either. What it read of the
official's activity may be old, and `SilenceIsLate` with `LaterAnchor` says why that is
harmless to the level: a later anchor reaches no higher, so what was due when it was read is what
the trail says. For the refinement, `Raise` maps to the climb, `OpenRung` to calling in the
next rung, an answered `Sync` to the release, and every act of the people to a stutter.

`Forwarding_proofs` proves, for any directory, any areas, any finite number of admins and any number of requests,
both properties of the hand-over. Assumptions (`LadderAssumption`, `ForwardingAssumption`): an area has a
level and a parent or none, the report lies in a union or a ward, every office sits in an area,
nobody is both admin and super admin. `HandoverInv` adds to the properties what a request under way
relies on (`Fits`): a decision still to be stored already owes nothing, and one that was stored is what the row
says, which the UNIQUE on the assignment keeps so. That the tally finds the top, in whatever order a map is walked, needs no
induction principle: the loop is a recursive function, and the furthest place up to which it exists (`LoopExists`) and
is right (`LoopLeads`) can only be the last, since one more visit keeps it right (`VisitKeepsTheLead`). The lists are compared with the guards of their
actions case by case (`ListsAgree`).

`Residents_proofs` has two parts. For any residents, requests and plans, the three wordings of the fairness
rule agree and the shield is earned: the scorecard and the case page ask for the latest obstacle not
yet resolved, the promise is about the obstacle declared last. What reconciles them is `WaitsOnLast`: a
blocked case waits on the obstacle declared last, which every use case of the case preserves. And for any finite set
of voters, any suggestions and requests, voters are told the truth and plans answer a suggestion that
led. `VoicesInv` ties presses to buttons: a press under way leaves its voter unsure, one that
is `alone` is the only one on its suggestion, and what it did to the vote still stands when it answers (`OpenPress`,
`Toggled`). That the ranking exists at all is `RankingExists`: the number of suggestions ahead of each one is
its place. The top then leads (`TopLeads`), a proposal displaces nobody, and what a plan read had led
when it read it (`PlanHasLed`).

`Reading_proofs` proves the privacy of messages: the office in a token was given and stays given, so
whoever answers to it is its holder, and a full list leaves out only older messages; and
that a page fetched in several queries, with decisions and erasure between
them, shows a pending report to nobody who could not have opened it (`GateWasPassed`: the page shows the
row the gate saw, never a newer one).

What the proofs assume of the constants of these components is named in their modules (`VoicesAssumption`,
`JudgmentAssumption`, `InboxAssumption`, `ViewsAssumption`): stamps and bounds are naturals, markers such as "none" are no
member of the sets they stand beside, voters are finite, the reporter is not the anonymous reader. TLC evaluates all of them in the
`civic` run. `Maximum` is a lemma they share with `Escalation_proofs`: of finitely many naturals one is the
greatest.

Every invariant and action property of the passing runs, and every refinement, has its theorem. Only
model-checked are the three liveness properties (`AssignmentSurfaces`, `SilentIsSeen`,
`AnsweredIsReleased`), which with ENABLED are beyond the prover. `Forwarding` asks the monitor chain for one rung; what a
longer chain contains would need induction over its length and nothing here depends on it.
Each `Inv`, and `ObserversAreDue`, is itself an invariant of its run, so TLC has seen every clause of it
exercised; `TrailInv`, `SerialInv`, `HandoverInv`, `VoicesInv`, `JudgmentInv`, `InboxInv` and `ViewsInv`
belong to their proofs only.

## Not modelled

- Routing, request parsing, DTOs, pagination, JWT signatures and password hashing: I/O without
  state. What a token holds is modelled (`Office`, `Inbox`).
- The operator commands (`cmd/migrate`, `cmd/reset`, `cmd/setpassword`), run by hand on a stopped
  service, and the web frontend, a client that keeps no shared state.
- Sums and response-day averages of the scorecards, the directory's listing, and the decorations of list pages.
- Two workers at once, and a rollback of the schema.
- Erasure during obstacle judgment, and the composition of the problem's own statuses with the
  case's writes statement by statement: `MirrorCase` is wider than the case and covers the first side,
  and the case's side assumes its report is not voted on or taken down, which the constraint on
  an assigned report's status leaves to two races described above.

## Plan

Done: `ProblemLifecycle` and `CaseLifecycle` with their abstract records, `Escalation` with `Watch`,
`Office` with `Seat`, and `Forwarding`, `Voices`, `Judgment`, `Inbox`, `Views`, each with its proofs.

Left:

1. Proofs that need no overlap-freedom where one is now assumed: which of the serial promises survive a
   single kind of overlap (two votes alone, an edit against an assignment).
2. The composition of `ProblemLifecycle` with `CaseLifecycle`, replacing `MirrorCase` by the
   case's own writes and adding the cascade to the case.
3. The erasure of a report under `Judgment`.
