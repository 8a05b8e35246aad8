------------------------------- MODULE Escalation -------------------------------
(***************************************************************************)
(* The escalation worker (cmd/worker, EscalateOverdue) against one case:      *)
(* the two clocks it reads, the visibility level it raises, the observations *)
(* it opens and closes, and the notes observers leave on them.                *)
(*                                                                           *)
(* A scan fixes its `now', reads the open cases, then their last activity,   *)
(* then their observations, in three queries, and acts on those copies.  The *)
(* official, the admin and the reporter go on meanwhile; what they do to the *)
(* case is CaseLifecycle's subject and is kept here to what the clocks read. *)
(* Scans treat cases one by one and cases share no rows, so one is enough;   *)
(* an error on another case ends the scan, which is Crash here.              *)
(***************************************************************************)
EXTENDS Naturals, FiniteSets

CONSTANTS
    Worker,     \* worker processes; cmd/worker runs its scans one after the other
    Last,       \* the last instant: bounds the clock (the code has no bound)
    Deadline,   \* cases.deadline, the first response was due
    D,          \* cfg.ResponseDeadline, the window
    R,          \* cfg.BlockerReviewWindow
    MaxLevel,   \* domain.MaxEscalationLevel
    Height,     \* officials above the assignee, as the ladder resolves them
    MaxFaults,  \* scans that may fail: bounds them (the code has no bound)
    MaxNotes    \* rows that may carry a note: bounds them (the code has no bound)

ASSUME EscalationAssumption ==
    /\ Last \in Nat \ {0} /\ Deadline \in Nat /\ D \in Nat \ {0} /\ R \in Nat
    /\ MaxLevel \in Nat /\ Height \in Nat /\ MaxFaults \in Nat /\ MaxNotes \in Nat

\* The deployment starts one cmd/worker, whose loop runs one scan at a time; nothing in
\* the code keeps a second one out.
ASSUME OneWorker == \A v, w \in Worker : v = w

Instant == 0..Last
Rung == 1..MaxLevel
Status == {"Waiting", "Blocked", "Done", "Closed"}
Later(s, t) == IF s < t THEN t ELSE s
Idle == [pc |-> "idle"]

\* Operators named Bug... stand for no code: each is a plausible slip in the
\* definition after it, kept to confirm that the stated properties notice it.

\* domain.EscalationTarget: a rung per window begun since the anchor.
BugUncapped(anchor, at) == IF at <= anchor THEN 0 ELSE ((at - anchor) \div D) + 1
EscalationTarget(anchor, at) ==
    LET climbed == IF at <= anchor THEN 0 ELSE ((at - anchor) \div D) + 1 IN
    IF climbed > MaxLevel THEN MaxLevel ELSE climbed

\* domain.SilenceLevel: an answer buys a whole window.
SilenceLevel(last, at) ==
    EscalationTarget(IF last = 0 THEN Deadline ELSE Later(Deadline, last + D), at)

\* domain.IsEscalatable, and the candidate query's WHERE.  Waiting stands for Assigned,
\* Acknowledged, Planned, InProgress and Reopened, Closed for Resolved and Disputed.
IsEscalatable(s) == s \in {"Waiting", "Blocked"}

VARIABLES
    now,        \* the wall clock
    status,     \* cases.status
    acted,      \* the latest of acknowledgement, updates, evidence and obstacles; 0 never
    planned,    \* the latest of the plan's and its tasks' times
    pending,    \* obstacles without resolved_at, by when they were declared
    level,      \* cases.escalation_level
    obs,        \* case_observations; resolved = 0 is an open row
    notes,      \* observation_notes, by the row they are on
    audit,      \* the audit_entries written about all this
    scan,       \* scans under way
    act,        \* the official's request under way
    note,       \* the observer's request under way
    faults,     \* scans failed so far
    heard       \* the latest answer ever stored: history, read by nothing

case == <<status, acted, planned, pending, heard>>
vars == <<now, case, level, obs, notes, audit, scan, act, note, faults>>

Row == [rung : Rung, opened : Instant, resolved : Instant]
OpenRows == {o \in obs : o.resolved = 0}
OpenRungs == {o.rung : o \in OpenRows}

\* domain.LastActivityAt and its SQL twin LastActivityByCases.
LastActivity == Later(acted, planned)

Init ==
    /\ now = 1
    /\ status = "Waiting"
    /\ acted = 0
    /\ planned = 0
    /\ pending = {}
    /\ level = 0
    /\ obs = {}
    /\ notes = {}
    /\ audit = {}
    /\ scan = [w \in Worker |-> Idle]
    /\ act = Idle
    /\ note = Idle
    /\ faults = 0
    /\ heard = 0

-----------------------------------------------------------------------------
(* The scan. *)

At(w, pc) == scan[w].pc = pc
Goto(w, h) == scan' = [scan EXCEPT ![w] = h]

\* escalationAnchor: the deadline, or the active obstacle's review-window cap; a
\* Blocked case without an unresolved obstacle has none.
HasAnchor == status = "Blocked" => pending # {}
Anchor == IF status = "Blocked"
          THEN (CHOOSE b \in pending : \A c \in pending : c <= b) + R
          ELSE Deadline

\* ListEscalationCandidates, and with it EscalateOverdue.Run's fixed `now'.
Start(w) ==
    /\ At(w, "idle")
    /\ IsEscalatable(status)
    /\ Goto(w, [pc |-> "activity", now |-> now, level |-> level,
                anchored |-> HasAnchor, anchor |-> IF HasAnchor THEN Anchor ELSE 0])
    /\ UNCHANGED <<now, case, level, obs, notes, audit, act, note, faults>>

ReadActivity(w) ==
    /\ At(w, "activity")
    /\ Goto(w, [pc |-> "open", now |-> scan[w].now, level |-> scan[w].level,
                anchored |-> scan[w].anchored, anchor |-> scan[w].anchor,
                acted |-> LastActivity])
    /\ UNCHANGED <<now, case, level, obs, notes, audit, act, note, faults>>

\* ListObservationsByCases, of which the open rows are kept.
ReadOpen(w) ==
    /\ At(w, "open")
    /\ Goto(w, [pc |-> "raise", now |-> scan[w].now, level |-> scan[w].level,
                anchored |-> scan[w].anchored, anchor |-> scan[w].anchor,
                acted |-> scan[w].acted, open |-> OpenRows])
    /\ UNCHANGED <<now, case, level, obs, notes, audit, act, note, faults>>

\* raiseLevel and SetEscalation: decided on the copy, written WHERE id only.
BugSetsAlways(h) == h.anchored
Overdue(h) == h.anchored /\ EscalationTarget(h.anchor, h.now) > h.level

Raise(w) ==
    LET h == scan[w] IN
    /\ At(w, "raise")
    /\ \/ /\ Overdue(h)
          /\ level' = EscalationTarget(h.anchor, h.now)
          /\ audit' = audit \cup {"escalated"}
       \/ /\ ~ Overdue(h)
          /\ UNCHANGED <<level, audit>>
    /\ Goto(w, [pc |-> "sync", now |-> h.now, acted |-> h.acted, open |-> h.open])
    /\ UNCHANGED <<now, case, obs, notes, act, note, faults>>

\* syncObservations, first half: an answer after any rung opened releases every one.
BugReleasesNewest(h) == h.open # {} /\ \A o \in h.open : o.opened < h.acted
BugReleasesAnyway(h) == h.open # {} /\ h.acted # 0
Answered(h) == h.acted # 0 /\ \E o \in h.open : o.opened < h.acted

\* MissingRungs over the rows still open, cut where the ladder ends.
BugOneRungTooMany(open, target, height) ==
    {k \in Rung : k <= target + 1 /\ k <= height /\ \A o \in open : o.rung # k}
BugOpensTopOnly(open, target, height) ==
    {k \in Rung : k = target /\ k <= height /\ \A o \in open : o.rung # k}
MissingRungs(open, target, height) ==
    {k \in Rung : k <= target /\ k <= height /\ \A o \in open : o.rung # k}

\* ResolveOpenObservations touches every open row of the case, and keeps them all.
BugStampsAgain(rows, at) == {[o EXCEPT !.resolved = at] : o \in rows}
BugDeletesTheRecord(rows, at) == {o \in rows : o.resolved # 0}
Closed(rows, at) == {[o EXCEPT !.resolved = IF @ = 0 THEN at ELSE @] : o \in rows}

\* Ladder.Chain answers, or fails and ends this case's turn.
Sync(w) ==
    LET h == scan[w] IN
    /\ At(w, "sync")
    /\ \/ /\ Answered(h)
          /\ obs' = Closed(obs, h.now)
          /\ audit' = audit \cup {"observation_resolved"}
       \/ /\ ~ Answered(h)
          /\ UNCHANGED <<obs, audit>>
    /\ \E height \in {0, Height} :
        LET rungs == MissingRungs(IF Answered(h) THEN {} ELSE h.open,
                                  SilenceLevel(h.acted, h.now), height) IN
        /\ height = Height => UNCHANGED faults
        /\ height # Height => faults < MaxFaults /\ faults' = faults + 1
        /\ Goto(w, IF rungs = {} THEN Idle ELSE [pc |-> "rungs", now |-> h.now, missing |-> rungs])
    /\ UNCHANGED <<now, case, level, notes, act, note>>

\* OpenObservation, lowest rung first; the partial unique index makes a rung that is
\* already open a no-op.
BugHighestFirst(missing) == CHOOSE k \in missing : \A j \in missing : j <= k
NextRung(missing) == CHOOSE k \in missing : \A j \in missing : k <= j

OpenRung(w) ==
    LET h == scan[w]
        k == NextRung(h.missing) IN
    /\ At(w, "rungs")
    /\ \/ /\ k \notin OpenRungs
          /\ obs' = obs \cup {[rung |-> k, opened |-> h.now, resolved |-> 0]}
          /\ audit' = audit \cup {"observation_opened"}
       \/ /\ k \in OpenRungs
          /\ UNCHANGED <<obs, audit>>
    /\ Goto(w, IF h.missing = {k} THEN Idle ELSE [h EXCEPT !.missing = @ \ {k}])
    /\ UNCHANGED <<now, case, level, notes, act, note, faults>>

\* A repository error, or the process killed between two statements.
Crash(w) ==
    /\ ~ At(w, "idle")
    /\ faults < MaxFaults
    /\ faults' = faults + 1
    /\ Goto(w, Idle)
    /\ UNCHANGED <<now, case, level, obs, notes, audit, act, note>>

Scan(w) == Start(w) \/ ReadActivity(w) \/ ReadOpen(w) \/ Raise(w) \/ Sync(w) \/ OpenRung(w)

-----------------------------------------------------------------------------
(* The case meanwhile.  A use case stamps time.Now() and saves later; a stamp is a    *)
(* fresh instant, so that two events never share one by chance of the clock's grain. *)

\* LastActivityAt: what counts as the official's answer, by the column that keeps its time.
\* An adjudication, a vote, an unblocking plan and an observer's note are not among them.
Answers == {"act", "plan", "obstacle"}

\* The official's request: the status it will save and what it will leave on the record.
Request == [pc : {"row", "drop", "child"}, to : Status, leaves : Answers \cup {"nothing"},
            at : Instant]

Stamp(first, to, leaves) ==
    /\ act = Idle
    /\ now < Last
    /\ now' = now + 1
    /\ act' = [pc |-> first, to |-> to, leaves |-> leaves, at |-> now + 1]
    /\ UNCHANGED <<case, level, obs, notes, audit, scan, note, faults>>

\* Acknowledging, an update, evidence; a plan or a tick; a revised plan; declaring an
\* obstacle; marking done; a dispute, open to an official who never acknowledged.
Work == \E to \in {"Waiting", status} : IsEscalatable(status) /\ Stamp("row", to, "act")
PlanWork == status = "Waiting" /\ acted # 0 /\ Stamp("row", "Waiting", "plan")
Replan == status = "Waiting" /\ planned # 0 /\ Stamp("drop", "Waiting", "plan")
Declare == status = "Waiting" /\ planned # 0 /\ Stamp("row", "Blocked", "obstacle")
MarkDone == status = "Waiting" /\ planned # 0 /\ Stamp("row", "Done", "nothing")
Dispute == status = "Waiting" /\ LastActivity = 0 /\ Stamp("row", "Closed", "nothing")

\* ReplacePlan deletes the old plan, and its times with it, before the new one is stored.
DropPlan ==
    /\ act.pc = "drop"
    /\ planned' = 0
    /\ act' = [act EXCEPT !.pc = "child"]
    /\ UNCHANGED <<now, status, acted, pending, heard, level, obs, notes, audit, scan, note, faults>>

\* Save: the row, then the children.
SaveRow ==
    /\ act.pc = "row"
    /\ status' = act.to
    /\ act' = IF act.leaves \notin Answers THEN Idle ELSE [act EXCEPT !.pc = "child"]
    /\ UNCHANGED <<now, acted, planned, pending, heard, level, obs, notes, audit, scan, note, faults>>

SaveChild ==
    /\ act.pc = "child"
    /\ acted' = IF act.leaves = "plan" THEN acted ELSE Later(acted, act.at)
    /\ planned' = IF act.leaves = "plan" THEN Later(planned, act.at) ELSE planned
    /\ pending' = IF act.leaves = "obstacle" THEN pending \cup {act.at} ELSE pending
    /\ heard' = Later(heard, act.at)
    /\ act' = Idle
    /\ UNCHANGED <<now, status, level, obs, notes, audit, scan, note, faults>>

\* The request dies between two of its statements.
Abandon ==
    /\ act # Idle
    /\ act' = Idle
    /\ UNCHANGED <<now, case, level, obs, notes, audit, scan, note, faults>>

\* The admin's denial and the reporter's word are nobody's answer: no time is read off them.
Deny ==
    /\ status = "Blocked"
    /\ \E b \in pending : pending' = pending \ {b}
    /\ status' = "Waiting"
    /\ UNCHANGED <<now, acted, planned, heard, level, obs, notes, audit, scan, act, note, faults>>

Confirm ==
    /\ status = "Done"
    /\ status' \in {"Waiting", "Closed"}
    /\ UNCHANGED <<now, acted, planned, pending, heard, level, obs, notes, audit, scan, act, note, faults>>

Tick ==
    /\ now < Last
    /\ now' = now + 1
    /\ UNCHANGED <<case, level, obs, notes, audit, scan, act, note, faults>>

-----------------------------------------------------------------------------
(* NoteObservation: the one thing an observer may do. *)

Notable(o) == o.resolved = 0

LoadNote ==
    /\ note = Idle
    /\ Cardinality(notes) < MaxNotes
    /\ \E o \in obs :
        /\ Notable(o)
        /\ note' = [pc |-> "write", rung |-> o.rung, opened |-> o.opened]
    /\ UNCHANGED <<now, case, level, obs, notes, audit, scan, act, faults>>

AddNote ==
    /\ note.pc = "write"
    /\ notes' = notes \cup {[rung |-> note.rung, opened |-> note.opened]}
    /\ note' = [note EXCEPT !.pc = "tell"]
    /\ UNCHANGED <<now, case, level, obs, audit, scan, act, faults>>

TellNote ==
    /\ note.pc = "tell"
    /\ note' = Idle
    /\ audit' = audit \cup {"observation_noted"}
    /\ UNCHANGED <<now, case, level, obs, notes, scan, act, faults>>

DropNote ==
    /\ note # Idle
    /\ note' = Idle
    /\ UNCHANGED <<now, case, level, obs, notes, audit, scan, act, faults>>

-----------------------------------------------------------------------------
Official == Work \/ PlanWork \/ Replan \/ Declare \/ MarkDone \/ Dispute \/ DropPlan \/ SaveRow
            \/ SaveChild \/ Abandon
Observer == LoadNote \/ AddNote \/ TellNote \/ DropNote

Next ==
    \/ \E w \in Worker : Scan(w) \/ Crash(w)
    \/ Official \/ Deny \/ Confirm \/ Observer \/ Tick

Spec == Init /\ [][Next]_vars

\* The ticker fires every minute and a scan that does not fail runs to its end; time
\* passes.  Nothing is asked of the official, the admin, the reporter or the observer.
FairSpec == Spec /\ WF_vars(Tick) /\ \A w \in Worker : WF_vars(Scan(w))

-----------------------------------------------------------------------------
(* Properties. *)

ScanType ==
    {Idle}
    \cup [pc : {"activity"}, now : Instant, level : 0..MaxLevel, anchored : BOOLEAN,
          anchor : Nat]
    \cup [pc : {"open"}, now : Instant, level : 0..MaxLevel, anchored : BOOLEAN,
          anchor : Nat, acted : Instant]
    \cup [pc : {"raise"}, now : Instant, level : 0..MaxLevel, anchored : BOOLEAN,
          anchor : Nat, acted : Instant, open : SUBSET Row]
    \cup [pc : {"sync"}, now : Instant, acted : Instant, open : SUBSET Row]
    \cup [pc : {"rungs"}, now : Instant, missing : SUBSET Rung]

\* Every table, column and request in flight keeps its form.
TypeOK ==
    /\ now \in Instant /\ acted \in Instant /\ planned \in Instant /\ heard \in Instant
    /\ status \in Status
    /\ pending \subseteq Instant
    /\ level \in 0..MaxLevel
    /\ obs \subseteq Row
    /\ notes \subseteq [rung : Rung, opened : Instant]
    /\ audit \subseteq {"escalated", "observation_opened", "observation_resolved", "observation_noted"}
    /\ scan \in [Worker -> ScanType]
    /\ act \in {Idle} \cup Request
    /\ note \in {Idle} \cup [pc : {"write", "tell"}, rung : Rung, opened : Instant]
    /\ faults \in 0..MaxFaults

\* A case becomes visible to no tier before the tiers below it.
InOrder == \A k \in OpenRungs : 1..k \subseteq OpenRungs

\* Nobody is called in on a case before its deadline passed, nor higher than the
\* lateness at that moment reaches, whatever was read when.
CalledInLate ==
    \A o \in obs : Deadline < o.opened /\ o.rung <= EscalationTarget(Deadline, o.opened)

\* The public trail speaks of an escalation, an observation, its end or a note only
\* when there is one.
TrailHasCause ==
    /\ "escalated" \in audit => level > 0
    /\ "observation_opened" \in audit => obs # {}
    /\ "observation_resolved" \in audit => \E o \in obs : o.resolved # 0
    /\ "observation_noted" \in audit => notes # {}

\* What makes the above inductive: the open rungs are the lowest, and what a scan holds is
\* no older than what it will write over.
FreshScan(h) ==
    /\ h.pc # "idle" => 0 < h.now
    /\ h.pc \in {"activity", "open", "raise"} => h.level = level
    /\ h.pc \in {"open", "raise", "sync"} => h.acted <= heard
    /\ h.pc \in {"raise", "sync"} => h.open = OpenRows
    /\ h.pc = "rungs" => \E m, n \in 0..MaxLevel :
          /\ m < n /\ OpenRungs = 1..m /\ h.missing = (m + 1)..n
          /\ n <= EscalationTarget(Deadline, h.now)
ScansAreFresh ==
    /\ \E m \in 0..MaxLevel : OpenRungs = 1..m
    /\ 0 < now /\ acted <= heard /\ planned <= heard
    /\ note.pc = "tell" => notes # {}
    /\ \A w \in Worker : FreshScan(scan[w])

\* What holds of the observers, their rows and the trail in every state: the inductive
\* invariant.
ObserversAreDue == TypeOK /\ InOrder /\ CalledInLate /\ TrailHasCause /\ ScansAreFresh

\* That an official was silent stays on the record: a row is never deleted, and an
\* ended silence keeps the moment it ended.
SilenceStaysOnRecord ==
    [][\A o \in obs : \E p \in obs' :
          /\ p.rung = o.rung /\ p.opened = o.opened
          /\ o.resolved # 0 => p.resolved = o.resolved]_obs

\* An open observation ends only once the official answered after one of those open
\* was opened: no verdict, no note and no other clock releases the observers.
ReleasedByAnAnswer ==
    [][(\E o \in OpenRows : \A p \in OpenRows' : p.rung # o.rung)
          => \E o \in OpenRows : o.opened < heard]_obs

\* The scan, its reads apart from its writes, keeps the promise of Watch.
Promise == INSTANCE Watch WITH watching <- OpenRungs
WatchIsKept == Promise!Spec

\* A silence past the deadline reaches the first rung, unless it ends or the case does.
Unseen ==
    /\ IsEscalatable(status)
    /\ SilenceLevel(LastActivity, now) > 0
    /\ Height > 0
    /\ OpenRungs = {}
SilentIsSeen == Unseen ~> ~ Unseen

\* An official who answered after being put under observation is released from it,
\* unless the case ends first.
Overwatched ==
    /\ IsEscalatable(status)
    /\ \E o \in OpenRows : o.opened < LastActivity
AnsweredIsReleased == Overwatched ~> ~ Overwatched

\* observation.go: an observation is "resolved when the official finally acts".  The code
\* scans only unfinished cases, so one ended by a dispute or by a confirmed completion
\* keeps its observers for good.
LeftOpen == status = "Closed" /\ OpenRows # {}
FinishedIsReleased == LeftOpen ~> ~ LeftOpen
================================================================================
