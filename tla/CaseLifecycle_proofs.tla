------------------------ MODULE CaseLifecycle_proofs ------------------------
(***************************************************************************)
(* Proofs about CaseLifecycle, for any number of requests in flight, plan    *)
(* ids and obstacles: its types, the inductive invariant Inv, and the        *)
(* properties that hold whatever stale copies are saved.                     *)
(***************************************************************************)
EXTENDS CaseRefinement, TLAPS

\* What nothing in the code takes away once it is stored.
Grows ==
    /\ evidence => evidence'
    /\ confirmed \subseteq confirmed'
    /\ Stored \subseteq Stored'
    /\ Judged \subseteq Judged'

\* A copy on its way to a statement is well-formed and keeps what it still needs.
LEMMA AheadType ==
    ASSUME NEW h, NEW at \in Statement,
           h.op \in Op, h.to \in CaseStatus, h.plan \in Plan \cup {None},
           h.task \in {"none", "open", "done"}, h.blockers \in SUBSET Obstacle,
           h.judged \in Obstacle \cup {None}
    PROVE  /\ Ahead(h, at) \in Handler
           /\ Ahead(h, at).op = h.op
           /\ Ahead(h, at).pc = at
           /\ Ahead(h, at).to = IF at \in {"audit", "tell"} THEN "Assigned" ELSE h.to
           /\ at \in Saving => /\ Ahead(h, at).plan = h.plan
                               /\ Ahead(h, at).blockers = h.blockers
           /\ at \in Saving \cup {"verdict"} => Ahead(h, at).judged = h.judged
<1>1. "Assigned" \in CaseStatus
  BY DEF CaseStatus
<1> QED
  BY <1>1 DEF Ahead, Handler, Saving, Replacing

\* The facts a request relies on survive whatever the others store.
LEMMA GrowthBacks ==
    ASSUME Grows, NEW o, Caused(o)
    PROVE  Caused(o)'
  BY DEF Grows, Caused

LEMMA OthersStay ==
    ASSUME TypeOK, InFlight, Grows, NEW c \in Request, NEW d \in Request, d # c,
           req'[d] = req[d], req'[d] # Idle
    PROVE  (Fits(req[d]) /\ Backed(req[d]))'
<1>1. Fits(req[d]) /\ Backed(req[d])
  BY DEF InFlight
<1>2. Fits(req[d])'
  BY <1>1 DEF Fits, Mirrors, Brings
<1>3. (req[d].to \in Outcome => evidence)'
  BY <1>1 DEF Backed, Grows
<1>4. (req[d].pc \in {"mirror", "audit", "tell"} => Caused(req[d].op))'
  BY <1>1, GrowthBacks DEF Backed, Caused, Grows
<1> QED
  BY <1>2, <1>3, <1>4 DEF Backed

\* A request that goes on keeps the table sound if its next statement fits it.
LEMMA Advance ==
    ASSUME TypeOK, InFlight, Grows, NEW c \in Request, req[c] # Idle,
           NEW at \in Statement, Goto(c, at), Fits(Ahead(req[c], at)),
           NEW o, o = req[c].op,
           at \in {"mirror", "audit", "tell"} => Caused(o)'
    PROVE  InFlight' /\ req' \in [Request -> Handler \cup {Idle}]
<1>1. req[c] \in Handler /\ Backed(req[c])
  BY DEF TypeOK, InFlight
<1>2. /\ Ahead(req[c], at) \in Handler
      /\ Ahead(req[c], at).op = o
      /\ Ahead(req[c], at).pc = at
      /\ Ahead(req[c], at).to \in {"Assigned", req[c].to}
  BY <1>1, AheadType DEF Handler
<1>3. req' \in [Request -> Handler \cup {Idle}]
  BY <1>2 DEF Goto, TypeOK
<1>4. req'[c] = Ahead(req[c], at)
  BY DEF Goto, TypeOK
<1>5. Fits(req[c])'
  BY <1>4 DEF Fits, Mirrors, Brings
<1>6. Backed(req[c])'
  <2>1. (req[c].to \in Outcome => evidence)'
    BY <1>1, <1>2, <1>4 DEF Backed, Grows, Outcome
  <2>2. (req[c].pc \in {"mirror", "audit", "tell"} => Caused(req[c].op))'
    BY <1>2, <1>4 DEF Caused
  <2> QED
    BY <2>1, <2>2 DEF Backed
<1>7. ASSUME NEW d \in Request, d # c, req'[d] # Idle PROVE (Fits(req[d]) /\ Backed(req[d]))'
  <2>1. req'[d] = req[d]
    BY <1>7 DEF Goto, TypeOK
  <2> QED
    BY <1>7, <2>1, OthersStay
<1>8. InFlight'
  BY <1>5, <1>6, <1>7 DEF InFlight
<1> QED
  BY <1>3, <1>8

\* A request that ends leaves the others as they were.
LEMMA Ending ==
    ASSUME TypeOK, InFlight, Grows, NEW c \in Request, Finish(c)
    PROVE  InFlight' /\ req' \in [Request -> Handler \cup {Idle}]
<1>1. req' \in [Request -> Handler \cup {Idle}] /\ req'[c] = Idle
  BY DEF Finish, TypeOK
<1>2. ASSUME NEW d \in Request, req'[d] # Idle PROVE (Fits(req[d]) /\ Backed(req[d]))'
  <2>1. d # c /\ req'[d] = req[d]
    BY <1>1, <1>2 DEF Finish, TypeOK
  <2> QED
    BY <1>2, <2>1, OthersStay
<1> QED
  BY <1>1, <1>2 DEF InFlight

-----------------------------------------------------------------------------
(* Loads. *)

\* A request that loads a copy it can stand by keeps the invariant.
LEMMA BeginSound ==
    ASSUME Inv, NEW c \in Request, NEW o \in Op, NEW at \in {"insert", "droptasks", "row", "verdict"},
           NEW s \in CaseStatus, NEW pl \in Plan \cup {None},
           NEW tk \in {"none", "open", "done"}, NEW blk \in SUBSET Obstacle,
           NEW j \in Obstacle \cup {None},
           Begin(c, o, at, s, pl, tk, blk, j),
           s \in Outcome => evidence,
           at \in {"droptasks", "row"} => o \notin {"open", "confirm"} /\ s # "Assigned",
           at = "droptasks" => pl # None,
           at \in {"droptasks", "row"} /\ o = "block" => blk # {},
           o \in {"confirm", "deny"} => j \in Obstacle,
           at = "verdict" => o = "confirm",
           at # "insert" => Brings(o, s)
    PROVE  Inv'
<1> DEFINE new == [op |-> o, to |-> s, plan |-> pl, task |-> tk, blockers |-> blk, judged |-> j]
           h == Ahead(new, at)
<1>1. TypeOK /\ InFlight
  BY DEF Inv
<1>2. req' = [req EXCEPT ![c] = h] /\ UNCHANGED <<rows, trail>>
  BY DEF Begin
<1>3. at \in Statement
  BY DEF Statement
<1>4. /\ h \in Handler
      /\ h.op = o /\ h.pc = at /\ h.to = s
      /\ at \in Saving => h.plan = pl /\ h.blockers = blk
      /\ at \in Saving \cup {"verdict"} => h.judged = j
  BY <1>3, AheadType
<1> HIDE DEF h
<1>5. Fits(h)
  BY <1>4 DEF Fits, Saving, Replacing, Mirrors, Brings
<1>6. req'[c] = h /\ req' \in [Request -> Handler \cup {Idle}]
  BY <1>1, <1>2, <1>4 DEF TypeOK
<1>7. Grows
  BY <1>2 DEF Grows, rows, Stored, Judged
<1>8. Fits(req[c])'
  BY <1>5, <1>6 DEF Fits, Mirrors, Brings
<1>9. Backed(req[c])'
  BY <1>2, <1>4, <1>6 DEF Backed, rows
<1>10. ASSUME NEW d \in Request, d # c, req'[d] # Idle PROVE (Fits(req[d]) /\ Backed(req[d]))'
  <2>1. req'[d] = req[d]
    BY <1>1, <1>2, <1>10 DEF TypeOK
  <2> QED
    BY <1>1, <1>7, <1>10, <2>1, OthersStay
<1>11. InFlight'
  BY <1>8, <1>9, <1>10 DEF InFlight
<1> QED
  BY <1>2, <1>6, <1>11 DEF Inv, TypeOK, DoneNeedsEvidence, PublicHasCause, TaskNeedsPlan,
     TrailTellsTheTruth, Stored, Judged, rows, trail

\* The state machine's moves bring what each use case is expected to bring, and never
\* lead back to Assigned or, but for Done itself, to an outcome without one.
LEMMA MovesBring ==
    ASSUME NEW s, NEW e, NEW t, <<s, e, t>> \in Moves
    PROVE  /\ t \in CaseStatus /\ t # "Assigned"
           /\ e \in {"progress", "replan"} => t = "InProgress"
           /\ e = "block" => t = "Blocked"
           /\ e = "mark_done" => t = "Done"
           /\ e = "confirm_resolved" => t = "Resolved"
           /\ e = "confirm_reopened" => t = "Reopened"
           /\ t \in Outcome => e = "mark_done" \/ s = "Done"
  BY DEF Moves, CaseStatus, Outcome

\* A use case that adds nothing to its copy but the new status.
LEMMA MovedSound ==
    ASSUME Inv, NEW c \in Request, NEW o, NEW e, Moved(c, o, e),
           <<o, e>> \in {<<"accept", "acknowledge">>, <<"dispute", "dispute">>,
                        <<"progress", "progress">>, <<"done", "mark_done">>,
                        <<"solved", "confirm_resolved">>, <<"reopen", "confirm_reopened">>},
           e = "mark_done" => evidence
    PROVE  Inv'
<1>1. PICK s \in CaseStatus : /\ <<status, e, s>> \in Moves
                              /\ Begin(c, o, "row", s, plan, task, Stored, None)
  BY DEF Moved
<1>2. /\ plan \in Plan \cup {None} /\ task \in {"none", "open", "done"}
      /\ Stored \in SUBSET Obstacle /\ o \in Op
  BY DEF Inv, TypeOK, Stored, Op
<1>3. s \in Outcome => evidence
  BY <1>1, MovesBring DEF Inv, DoneNeedsEvidence, Outcome
<1>4. s # "Assigned" /\ Brings(o, s) /\ o \notin {"open", "confirm", "block", "deny"}
  BY <1>1, MovesBring DEF Brings
<1> QED
  BY <1>1, <1>2, <1>3, <1>4, BeginSound

\* A use case that saves the status it loaded.
LEMMA KeptSound ==
    ASSUME Inv, NEW c \in Request, NEW o \in {"tick", "note", "evidence"}, IsWorkable(status),
           NEW tk \in {"none", "open", "done"},
           Begin(c, o, "row", status, plan, tk, Stored, None)
    PROVE  Inv'
<1>1. /\ plan \in Plan \cup {None} /\ status \in CaseStatus /\ status # "Assigned"
      /\ Stored \in SUBSET Obstacle /\ o \in Op
  BY DEF Inv, TypeOK, Stored, Op, IsWorkable, CaseStatus
<1>2. status \in Outcome => evidence
  BY DEF Inv, DoneNeedsEvidence
<1>3. Brings(o, status)
  BY DEF Brings
<1> QED
  BY <1>1, <1>2, <1>3, BeginSound

LEMMA LoadSound ==
    ASSUME Inv, NEW c \in Request, Load(c)
    PROVE  Inv'
<1>1. /\ plan \in Plan \cup {None} /\ task \in {"none", "open", "done"}
      /\ Stored \in SUBSET Obstacle
      /\ obstacles \in [Obstacle -> {"none", "pending"} \cup Verdict]
  BY DEF Inv, TypeOK, Stored
<1>2. status \in Outcome => evidence
  BY DEF Inv, DoneNeedsEvidence
<1>3. CASE LoadOpen(c)
  <2>1. "open" \in Op /\ "Assigned" \in CaseStatus /\ "Assigned" \notin Outcome
    BY DEF Op, CaseStatus, Outcome
  <2> QED
    BY <1>3, <2>1, BeginSound DEF LoadOpen
<1>4. CASE LoadAcknowledge(c)
  BY <1>4, MovedSound DEF LoadAcknowledge
<1>5. CASE LoadProgress(c)
  BY <1>5, MovedSound DEF LoadProgress
<1>6. CASE LoadDone(c)
  BY <1>6, MovedSound DEF LoadDone
<1>7. CASE LoadConfirm(c)
  BY <1>7, MovedSound DEF LoadConfirm
<1>8. CASE LoadTick(c)
  BY <1>8, KeptSound DEF LoadTick
<1>9. CASE LoadNote(c)
  BY <1>1, <1>9, KeptSound DEF LoadNote
<1>10. CASE LoadEvidence(c)
  BY <1>1, <1>10, KeptSound DEF LoadEvidence
<1>11. ASSUME NEW n \in Plan, LoadPlan(c, n) PROVE Inv'
  <2>1. PICK s \in CaseStatus : /\ <<status, "plan", s>> \in Moves
                                /\ Begin(c, "plan", "row", s, n, "open", Stored, None)
    BY <1>11 DEF LoadPlan
  <2>2. s # "Assigned" /\ (s \in Outcome => evidence) /\ Brings("plan", s) /\ "plan" \in Op
    BY <1>2, <2>1, MovesBring DEF Brings, Op, Outcome
  <2> QED
    BY <1>1, <2>1, <2>2, BeginSound
<1>12. ASSUME NEW n \in Plan, LoadReplan(c, n) PROVE Inv'
  <2>1. PICK s \in CaseStatus : /\ <<status, "replan", s>> \in Moves
                                /\ Begin(c, "replan", "droptasks", s, n, "open", Stored, None)
    BY <1>12 DEF LoadReplan
  <2>2. s # "Assigned" /\ (s \in Outcome => evidence) /\ Brings("replan", s) /\ "replan" \in Op
    BY <1>2, <2>1, MovesBring DEF Brings, Op, Outcome
  <2>3. n # None
    BY CasePlanAssumption
  <2> QED
    BY <1>1, <2>1, <2>2, <2>3, BeginSound
<1>13. ASSUME NEW o \in Obstacle, LoadBlock(c, o) PROVE Inv'
  <2>1. PICK s \in CaseStatus : /\ <<status, "block", s>> \in Moves
                                /\ Begin(c, "block", "row", s, plan, task, Stored \cup {o}, None)
    BY <1>13 DEF LoadBlock
  <2>2. s # "Assigned" /\ (s \in Outcome => evidence) /\ Brings("block", s) /\ "block" \in Op
    BY <1>2, <2>1, MovesBring DEF Brings, Op, Outcome
  <2>3. Stored \cup {o} \in SUBSET Obstacle /\ Stored \cup {o} # {}
    BY <1>1
  <2> QED
    BY <1>1, <2>1, <2>2, <2>3, BeginSound
<1>14. ASSUME NEW o \in Obstacle, LoadUphold(c, o) PROVE Inv'
  <2>1. Begin(c, "confirm", "verdict", "Assigned", None, "none", {}, o)
    BY <1>14 DEF LoadUphold
  <2>2. /\ "confirm" \in Op /\ Brings("confirm", "Assigned")
        /\ "Assigned" \in CaseStatus /\ "Assigned" \notin Outcome
    BY DEF Op, Brings, CaseStatus, Outcome
  <2> QED
    BY <2>1, <2>2, BeginSound
<1>15. ASSUME NEW o \in Obstacle, LoadDeny(c, o) PROVE Inv'
  <2>1. PICK s \in CaseStatus : /\ <<status, "progress", s>> \in Moves
                                /\ Begin(c, "deny", "row", s, plan, task, Stored, o)
    BY <1>15 DEF LoadDeny
  <2>2. s # "Assigned" /\ (s \in Outcome => evidence) /\ Brings("deny", s) /\ "deny" \in Op
    BY <1>2, <2>1, MovesBring DEF Brings, Op, Outcome
  <2> QED
    BY <1>1, <2>1, <2>2, BeginSound
<1> QED
  BY <1>3, <1>4, <1>5, <1>6, <1>7, <1>8, <1>9, <1>10, <1>11, <1>12, <1>13, <1>14, <1>15 DEF Load

-----------------------------------------------------------------------------
(* Statements. *)

\* What a request about to run a statement is known to be.
LEMMA AtHand ==
    ASSUME Inv, NEW c \in Request, NEW at, At(c, at)
    PROVE  /\ TypeOK /\ InFlight /\ req[c] # Idle
           /\ req[c] \in Handler /\ req[c].op \in Op /\ req[c].pc = at
           /\ req[c].to \in CaseStatus /\ req[c].plan \in Plan \cup {None}
           /\ req[c].task \in {"none", "open", "done"}
           /\ req[c].blockers \in SUBSET Obstacle
           /\ req[c].judged \in Obstacle \cup {None}
           /\ Fits(req[c]) /\ Backed(req[c])
  BY DEF Inv, TypeOK, InFlight, At, Handler

\* A copy that fits one statement of its Save fits the next.
LEMMA SaveFits ==
    ASSUME NEW h \in Handler, Fits(h), h.pc \in Saving, NEW at \in Saving,
           at \in Replacing \cup {"plan", "task"} => h.plan # None
    PROVE  Fits(Ahead(h, at))
<1>1. at \in Statement
  BY DEF Statement, Saving, Replacing
<1>2. /\ Ahead(h, at).op = h.op
      /\ Ahead(h, at).pc = at
      /\ Ahead(h, at).to = h.to
      /\ Ahead(h, at).plan = h.plan
      /\ Ahead(h, at).blockers = h.blockers
      /\ Ahead(h, at).judged = h.judged
  BY <1>1 DEF Ahead, Saving, Replacing
<1>3. h.to # "Assigned" /\ h.op \notin {"open", "confirm"} /\ (h.op = "block" => h.blockers # {})
  BY DEF Fits
<1>4. h.op = "deny" => h.judged \in Obstacle
  BY DEF Fits
<1>5. Brings(h.op, h.to)
  BY DEF Fits
<1>6. Brings(Ahead(h, at).op, Ahead(h, at).to)
  BY <1>2, <1>5
<1>7. at \notin {"verdict", "word", "mirror", "audit", "tell"}
  BY DEF Saving, Replacing
<1> QED
  BY <1>2, <1>3, <1>4, <1>6, <1>7 DEF Fits

\* So does a request past its Save, at the statement its use case goes on to.
LEMMA PastFits ==
    ASSUME NEW h \in Handler, Fits(h), h.pc \in Saving \cup {"verdict", "word", "mirror", "audit"},
           NEW at \in {"verdict", "word", "mirror", "audit", "tell"},
           at = "verdict" => h.op = "deny" /\ h.pc \in Saving,
           at = "word" => h.op \in {"solved", "reopen"} /\ h.pc \in Saving,
           at = "mirror" => Mirrors(h.op),
           at \in {"verdict", "word", "mirror"} => h.pc # "audit",
           at \in {"audit", "tell"} => h.op \in Kept
    PROVE  Fits(Ahead(h, at))
<1>1. /\ Ahead(h, at).op = h.op
      /\ Ahead(h, at).pc = at
      /\ at \in {"verdict", "word", "mirror"} => Ahead(h, at).to = h.to
      /\ at = "verdict" => Ahead(h, at).judged = h.judged
  BY DEF Ahead
<1>2. at \in {"verdict", "word", "mirror"} => Brings(h.op, h.to)
  BY DEF Fits
<1>3. at \in {"verdict", "word", "mirror"} => Brings(Ahead(h, at).op, Ahead(h, at).to)
  BY <1>1, <1>2
<1>4. at = "verdict" => h.judged \in Obstacle
  BY DEF Fits
<1>5. at \notin Saving
  BY DEF Saving, Replacing
<1> QED
  BY <1>1, <1>3, <1>4, <1>5 DEF Fits, Replacing, Saving

\* After its rows a request reports or ends.
LEMMA ReportKeeps ==
    ASSUME TypeOK, InFlight, Grows, NEW c \in Request, req[c] # Idle,
           req[c].pc \in Saving \cup {"verdict", "word", "mirror"},
           Report(c), NEW o, o = req[c].op, Caused(o)'
    PROVE  InFlight' /\ req' \in [Request -> Handler \cup {Idle}]
<1>1. req[c] \in Handler /\ Fits(req[c])
  BY DEF TypeOK, InFlight
<1>2. CASE o \in Kept
  <2>1. Goto(c, "audit") /\ "audit" \in Statement
    BY <1>2 DEF Report, Statement
  <2>2. Fits(Ahead(req[c], "audit"))
    BY <1>1, <1>2, PastFits
  <2> QED
    BY <2>1, <2>2, Advance
<1>3. CASE o \notin Kept
  BY <1>3, Ending DEF Report
<1> QED
  BY <1>2, <1>3

LEMMA InsertSound ==
    ASSUME Inv, NEW c \in Request, Insert(c)
    PROVE  Inv'
<1>1. TypeOK /\ InFlight
  BY DEF Inv
<1>2. Grows
  BY DEF Grows, Insert, Stored, Judged
<1>3. InFlight' /\ req' \in [Request -> Handler \cup {Idle}]
  BY <1>1, <1>2, Ending DEF Insert
<1>4. status' \in CaseStatus \cup {"NoCase"} /\ (status' \in Outcome => status \in Outcome)
  BY <1>1 DEF Insert, TypeOK, CaseStatus, Outcome
<1> QED
  BY <1>3, <1>4 DEF Insert, Inv, TypeOK, DoneNeedsEvidence, PublicHasCause, TaskNeedsPlan,
     TrailTellsTheTruth, Stored, Judged, trail

\* The statements of ReplacePlan and of Save that write the plan and its week.
LEMMA PlanSound ==
    ASSUME Inv, NEW c \in Request,
           DropTasks(c) \/ DropPlan(c) \/ NewPlan(c) \/ NewTask(c) \/ SavePlan(c) \/ SaveTask(c)
    PROVE  Inv'
<1> DEFINE h == req[c]
<1>1. /\ TypeOK /\ InFlight /\ h # Idle /\ h \in Handler /\ h.op \in Op
      /\ h.plan \in Plan \cup {None} /\ h.task \in {"none", "open", "done"}
      /\ Fits(h) /\ h.pc \in Replacing \cup {"plan", "task"}
  BY AtHand DEF DropTasks, DropPlan, NewPlan, NewTask, SavePlan, SaveTask, Replacing
<1>2. h.plan # None /\ h.pc \in Saving
  BY <1>1 DEF Fits, Saving
<1>3. UNCHANGED <<status, evidence, obstacles, confirmed, public, trail>>
  BY DEF DropTasks, DropPlan, NewPlan, NewTask, SavePlan, SaveTask
<1>4. Grows
  BY <1>3 DEF Grows, Stored, Judged
<1>5. ASSUME NEW at \in Saving, Goto(c, at)
      PROVE  InFlight' /\ req' \in [Request -> Handler \cup {Idle}]
  <2>1. at \in Statement /\ at \notin {"mirror", "audit", "tell"}
    BY DEF Saving, Replacing, Statement
  <2>2. Fits(Ahead(h, at))
    BY <1>1, <1>2, SaveFits
  <2> QED
    BY <1>1, <1>4, <1>5, <2>1, <2>2, Advance
<1>6. InFlight' /\ req' \in [Request -> Handler \cup {Idle}]
  <2>1. {"dropplan", "newplan", "newtask", "row", "task", "children"} \subseteq Saving
    BY DEF Saving, Replacing
  <2>2. Finish(c) \/ \E at \in Saving : Goto(c, at)
    BY <2>1 DEF DropTasks, DropPlan, NewPlan, NewTask, SavePlan, SaveTask
  <2> QED
    BY <1>1, <1>4, <1>5, <2>2, Ending
<1>7. /\ plan' \in Plan \cup {None} /\ task' \in {"none", "open", "done"}
      /\ task' # "none" => plan' # None
  <2>1. /\ plan \in Plan \cup {None} /\ task \in {"none", "open", "done"}
        /\ task # "none" => plan # None
    BY DEF Inv, TypeOK, TaskNeedsPlan
  <2>2. CASE DropTasks(c) \/ DropPlan(c)
    BY <2>1, <2>2 DEF DropTasks, DropPlan
  <2>3. CASE NewPlan(c) \/ SavePlan(c)
    BY <1>1, <1>2, <2>1, <2>3 DEF NewPlan, SavePlan
  <2>4. CASE NewTask(c) \/ SaveTask(c)
    BY <1>1, <1>2, <2>1, <2>4 DEF NewTask, SaveTask, TaskFits
  <2> QED
    BY <2>2, <2>3, <2>4
<1> QED
  BY <1>3, <1>6, <1>7 DEF Inv, TypeOK, DoneNeedsEvidence, PublicHasCause, TaskNeedsPlan,
     TrailTellsTheTruth, Stored, Judged, trail

LEMMA SaveRowSound ==
    ASSUME Inv, NEW c \in Request, SaveRow(c)
    PROVE  Inv'
<1> DEFINE h == req[c]
<1>1. /\ TypeOK /\ InFlight /\ h # Idle /\ h \in Handler /\ h.op \in Op /\ h.pc = "row"
      /\ h.to \in CaseStatus /\ Fits(h) /\ Backed(h)
  BY AtHand DEF SaveRow
<1>2. Grows
  BY DEF SaveRow, Grows, Stored, Judged
<1>3. PICK at \in {"plan", "children"} : Goto(c, at) /\ (at = "plan" => h.plan # None)
  BY DEF SaveRow
<1>4. /\ at \in Saving /\ h.pc \in Saving /\ at \in Statement
      /\ at \in Replacing \cup {"plan", "task"} => at = "plan"
      /\ at \notin {"mirror", "audit", "tell"}
  BY <1>1 DEF Saving, Replacing, Statement
<1>5. Fits(Ahead(h, at))
  BY <1>1, <1>3, <1>4, SaveFits
<1>6. InFlight' /\ req' \in [Request -> Handler \cup {Idle}]
  BY <1>1, <1>2, <1>3, <1>4, <1>5, Advance
<1>7. status' = h.to /\ (h.to \in Outcome => evidence)
  BY <1>1 DEF SaveRow, Backed
<1> QED
  BY <1>1, <1>6, <1>7 DEF SaveRow, Inv, TypeOK, DoneNeedsEvidence, PublicHasCause, TaskNeedsPlan,
     TrailTellsTheTruth, Stored, Judged, trail

LEMMA SaveChildrenSound ==
    ASSUME Inv, NEW c \in Request, SaveChildren(c)
    PROVE  Inv'
<1> DEFINE h == req[c]
<1>1. /\ TypeOK /\ InFlight /\ h # Idle /\ h \in Handler /\ h.op \in Op /\ h.pc = "children"
      /\ h.blockers \in SUBSET Obstacle /\ Fits(h)
  BY AtHand DEF SaveChildren
<1>2. /\ obstacles \in [Obstacle -> {"none", "pending"} \cup Verdict]
      /\ obstacles' = [o \in Obstacle |-> IF o \in h.blockers /\ obstacles[o] = "none"
                                          THEN "pending" ELSE obstacles[o]]
      /\ evidence' = (evidence \/ h.op = "evidence")
  BY <1>1 DEF TypeOK, SaveChildren, NewRow
<1>3. Grows /\ h.blockers \subseteq Stored'
  BY <1>1, <1>2 DEF Grows, Stored, Judged, Verdict, SaveChildren
<1>4. h.pc \in Saving /\ (h.op = "block" => h.blockers # {}) /\ h.op \notin {"open", "confirm"}
  BY <1>1 DEF Fits, Saving
<1>5. InFlight' /\ req' \in [Request -> Handler \cup {Idle}]
  <2>1. CASE h.op = "deny"
    <3>1. Goto(c, "verdict") /\ "verdict" \in Statement
      BY <2>1 DEF SaveChildren, AfterSave, Statement
    <3>2. Fits(Ahead(h, "verdict"))
      BY <1>1, <1>4, <2>1, PastFits
    <3> QED
      BY <1>1, <1>3, <3>1, <3>2, Advance
  <2>2. CASE h.op \in {"solved", "reopen"}
    <3>1. Goto(c, "word") /\ "word" \in Statement
      BY <2>2 DEF SaveChildren, AfterSave, Statement
    <3>2. Fits(Ahead(h, "word"))
      BY <1>1, <1>4, <2>2, PastFits
    <3> QED
      BY <1>1, <1>3, <3>1, <3>2, Advance
  <2>3. CASE h.op \in {"block", "progress", "replan", "done"}
    <3>1. Goto(c, "mirror") /\ "mirror" \in Statement
      BY <2>3 DEF SaveChildren, AfterSave, Statement
    <3>2. Fits(Ahead(h, "mirror"))
      BY <1>1, <1>4, <2>3, PastFits DEF Mirrors
    <3>3. PICK o : o = h.op
      OBVIOUS
    <3>4. Caused(o)'
      BY <1>3, <1>4, <2>3, <3>3 DEF Caused
    <3> QED
      BY <1>1, <1>3, <3>1, <3>2, <3>3, <3>4, Advance
  <2>4. CASE h.op \notin {"deny", "solved", "reopen", "block", "progress", "replan", "done"}
    <3>1. Report(c)
      BY <2>4 DEF SaveChildren, AfterSave
    <3>2. PICK o : o = h.op
      OBVIOUS
    <3>3. Caused(o)'
      BY <1>4, <2>4, <3>2 DEF Caused
    <3> QED
      BY <1>1, <1>3, <1>4, <3>1, <3>2, <3>3, ReportKeeps
  <2> QED
    BY <2>1, <2>2, <2>3, <2>4
<1>6. obstacles' \in [Obstacle -> {"none", "pending"} \cup Verdict] /\ evidence' \in BOOLEAN
  BY <1>2 DEF Inv, TypeOK
<1>7. UNCHANGED <<status, plan, task, confirmed, public, trail>>
  BY DEF SaveChildren
<1>8. TypeOK'
  BY <1>5, <1>6, <1>7 DEF Inv, TypeOK, trail
<1> QED
  BY <1>3, <1>5, <1>7, <1>8 DEF Inv, Grows, DoneNeedsEvidence, PublicHasCause, TaskNeedsPlan,
     TrailTellsTheTruth, trail

LEMMA JudgeSound ==
    ASSUME Inv, NEW c \in Request, Judge(c)
    PROVE  Inv'
<1> DEFINE h == req[c]
<1>1. /\ TypeOK /\ InFlight /\ h # Idle /\ h \in Handler /\ h.pc = "verdict" /\ Fits(h)
  BY AtHand DEF Judge
<1>2. h.op \in {"confirm", "deny"} /\ h.judged \in Obstacle
  BY <1>1 DEF Fits
<1>3. /\ obstacles \in [Obstacle -> {"none", "pending"} \cup Verdict]
      /\ obstacles' = [obstacles EXCEPT ![h.judged] = VerdictOf(h.op)]
      /\ VerdictOf(h.op) \in Verdict
  BY <1>1 DEF TypeOK, Judge, VerdictOf, Verdict
<1>4. UNCHANGED <<status, plan, task, evidence, confirmed, public, trail>>
  BY DEF Judge
<1>5. Grows /\ h.judged \in Judged'
  BY <1>2, <1>3, <1>4 DEF Grows, Stored, Judged, Verdict
<1>6. PICK o : o = h.op
  OBVIOUS
<1>7. Caused(o)'
  BY <1>2, <1>5, <1>6 DEF Caused
<1>8. InFlight' /\ req' \in [Request -> Handler \cup {Idle}]
  <2>1. CASE h.op = "deny"
    <3>1. Goto(c, "mirror") /\ "mirror" \in Statement
      BY <2>1 DEF Judge, Statement
    <3>2. Fits(Ahead(h, "mirror"))
      BY <1>1, <2>1, PastFits DEF Mirrors
    <3> QED
      BY <1>1, <1>5, <1>6, <1>7, <3>1, <3>2, Advance
  <2>2. CASE h.op = "confirm"
    <3>1. Report(c)
      BY <2>2 DEF Judge
    <3> QED
      BY <1>1, <1>5, <1>6, <1>7, <3>1, ReportKeeps
  <2> QED
    BY <1>2, <2>1, <2>2
<1>9. obstacles' \in [Obstacle -> {"none", "pending"} \cup Verdict]
  BY <1>3
<1>10. TypeOK'
  BY <1>4, <1>8, <1>9 DEF Inv, TypeOK, trail
<1> QED
  BY <1>4, <1>5, <1>8, <1>10 DEF Inv, Grows, DoneNeedsEvidence, PublicHasCause, TaskNeedsPlan,
     TrailTellsTheTruth, trail

LEMMA AddConfirmationSound ==
    ASSUME Inv, NEW c \in Request, AddConfirmation(c)
    PROVE  Inv'
<1> DEFINE h == req[c]
<1>1. /\ TypeOK /\ InFlight /\ h # Idle /\ h \in Handler /\ h.pc = "word" /\ Fits(h)
  BY AtHand DEF AddConfirmation
<1>2. h.op \in {"solved", "reopen"}
  BY <1>1 DEF Fits
<1>3. confirmed' = confirmed \cup {IF h.op = "solved" THEN "solved" ELSE "not_solved"}
  BY DEF AddConfirmation
<1>4. UNCHANGED <<status, plan, task, evidence, obstacles, public, trail>> /\ Goto(c, "mirror")
  BY DEF AddConfirmation
<1>5. Grows
  BY <1>3, <1>4 DEF Grows, Stored, Judged
<1>6. PICK o : o = h.op
  OBVIOUS
<1>7. Caused(o)'
  BY <1>2, <1>3, <1>6 DEF Caused
<1>8. "mirror" \in Statement /\ Fits(Ahead(h, "mirror"))
  BY <1>1, <1>2, PastFits DEF Mirrors, Statement
<1>9. InFlight' /\ req' \in [Request -> Handler \cup {Idle}]
  BY <1>1, <1>4, <1>5, <1>6, <1>7, <1>8, Advance
<1>10. TypeOK'
  BY <1>3, <1>4, <1>9 DEF Inv, TypeOK, trail
<1> QED
  BY <1>4, <1>5, <1>9, <1>10 DEF Inv, Grows, DoneNeedsEvidence, PublicHasCause, TaskNeedsPlan,
     TrailTellsTheTruth, trail

\* The public record takes over a status whose cause is stored.
LEMMA MirrorSound ==
    ASSUME Inv, NEW c \in Request, Mirror(c)
    PROVE  Inv'
<1> DEFINE h == req[c]
<1>1. /\ TypeOK /\ InFlight /\ h # Idle /\ h \in Handler /\ h.pc = "mirror"
      /\ h.to \in CaseStatus /\ Fits(h) /\ Backed(h)
  BY AtHand DEF Mirror
<1>2. Mirrors(h.op) /\ Brings(h.op, h.to) /\ Caused(h.op) /\ (h.to \in Outcome => evidence)
  BY <1>1 DEF Fits, Backed
<1>3. UNCHANGED <<status, plan, task, evidence, obstacles, confirmed, trail>>
  BY DEF Mirror
<1>4. Grows
  BY <1>3 DEF Grows, Stored, Judged
<1>5. PICK o : o = h.op
  OBVIOUS
<1>6. Caused(o)'
  BY <1>2, <1>3, <1>5 DEF Caused, Stored, Judged
<1>7. Report(c)
  BY DEF Mirror
<1>8. InFlight' /\ req' \in [Request -> Handler \cup {Idle}]
  BY <1>1, <1>4, <1>5, <1>6, <1>7, ReportKeeps
<1>9. public' \in {public, h.to}
  BY DEF Mirror, Face
<1>10. /\ h.to = "Resolved" => "solved" \in confirmed
       /\ h.to = "Reopened" => "not_solved" \in confirmed
       /\ h.to = "Blocked" => Stored # {}
  BY <1>2 DEF Mirrors, Brings, Caused
<1>11. /\ TypeOK'
       /\ {status', public'} \cap Outcome # {} => evidence
       /\ public' = "Resolved" => "solved" \in confirmed
       /\ public' = "Reopened" => "not_solved" \in confirmed
       /\ public' = "Blocked" => Stored # {}
  BY <1>1, <1>2, <1>3, <1>8, <1>9, <1>10 DEF Inv, TypeOK, DoneNeedsEvidence, PublicHasCause, trail
<1> QED
  BY <1>3, <1>8, <1>11 DEF Inv, DoneNeedsEvidence, PublicHasCause, TaskNeedsPlan,
     TrailTellsTheTruth, Stored, Judged, trail

\* The trail and the messages name a use case whose cause is stored.
LEMMA TrailSound ==
    ASSUME Inv, NEW c \in Request, AppendAudit(c) \/ Tell(c)
    PROVE  Inv'
<1> DEFINE h == req[c]
<1>1. /\ TypeOK /\ InFlight /\ h # Idle /\ h \in Handler /\ h.pc \in {"audit", "tell"}
      /\ Fits(h) /\ Backed(h)
  BY AtHand DEF AppendAudit, Tell
<1>2. h.op \in Kept /\ Caused(h.op)
  BY <1>1 DEF Fits, Backed
<1>3. UNCHANGED rows
  BY DEF AppendAudit, Tell
<1>4. Grows
  BY <1>3 DEF Grows, rows, Stored, Judged
<1>5. InFlight' /\ req' \in [Request -> Handler \cup {Idle}]
  <2>1. CASE Finish(c)
    BY <1>1, <1>4, <2>1, Ending
  <2>2. CASE AppendAudit(c) /\ Goto(c, "tell")
    <3>1. h.pc = "audit" /\ "tell" \in Statement
      BY <2>2 DEF AppendAudit, At, Statement
    <3>2. Fits(Ahead(h, "tell"))
      BY <1>1, <1>2, <3>1, PastFits
    <3>3. PICK o : o = h.op
      OBVIOUS
    <3>4. Caused(o)'
      BY <1>2, <1>3, <3>3 DEF Caused, rows, Stored, Judged
    <3> QED
      BY <1>1, <1>4, <2>2, <3>1, <3>2, <3>3, <3>4, Advance
  <2> QED
    BY <2>1, <2>2 DEF AppendAudit, Tell
<1>6. /\ audit' \subseteq audit \cup {h.op} /\ told' \subseteq told \cup {h.op}
  BY DEF AppendAudit, Tell
<1>7. TrailTellsTheTruth'
  BY <1>2, <1>3, <1>6 DEF Inv, TrailTellsTheTruth, Caused, rows, Stored, Judged
<1>8. TypeOK'
  BY <1>2, <1>3, <1>5, <1>6 DEF Inv, TypeOK, rows
<1> QED
  BY <1>3, <1>5, <1>7, <1>8 DEF Inv, DoneNeedsEvidence, PublicHasCause, TaskNeedsPlan, rows, Stored

LEMMA DieSound ==
    ASSUME Inv, NEW c \in Request, Die(c)
    PROVE  Inv'
<1>1. TypeOK /\ InFlight /\ UNCHANGED <<rows, trail>>
  BY DEF Inv, Die
<1>2. Grows
  BY <1>1 DEF Grows, rows, Stored, Judged
<1>3. InFlight' /\ req' \in [Request -> Handler \cup {Idle}]
  BY <1>1, <1>2, Ending DEF Die
<1> QED
  BY <1>1, <1>3 DEF Inv, TypeOK, DoneNeedsEvidence, PublicHasCause, TaskNeedsPlan,
     TrailTellsTheTruth, Stored, Judged, rows, trail

LEMMA NextSound ==
    ASSUME Inv, Next
    PROVE  Inv'
<1>1. PICK c \in Request : Load(c) \/ Step(c) \/ Die(c)
  BY DEF Next
<1>2. CASE Load(c)
  BY <1>2, LoadSound
<1>3. CASE Step(c)
  BY <1>3, InsertSound, PlanSound, SaveRowSound, SaveChildrenSound, JudgeSound,
     AddConfirmationSound, MirrorSound, TrailSound DEF Step
<1>4. CASE Die(c)
  BY <1>4, DieSound
<1> QED
  BY <1>1, <1>2, <1>3, <1>4

-----------------------------------------------------------------------------
\* Inv holds in every reachable state: the records agree with each other, and every
\* request in flight, however old its copy, still has what it relies on.
THEOREM Invariance == Spec => []Inv
<1>1. Init => Inv
  BY CasePlanAssumption DEF Init, Inv, TypeOK, CaseStatus, DoneNeedsEvidence, Outcome,
     PublicHasCause, TaskNeedsPlan, TrailTellsTheTruth, InFlight
<1>2. Inv /\ [Next]_vars => Inv'
  <2> SUFFICES ASSUME Inv, [Next]_vars PROVE Inv'
    OBVIOUS
  <2>1. CASE Next
    BY <2>1, NextSound
  <2>2. CASE UNCHANGED vars
    <3>1. UNCHANGED <<rows, trail, req>>
      BY <2>2 DEF vars, rows, trail
    <3>2. Grows
      BY <3>1 DEF Grows, rows, Stored, Judged
    <3>3. InFlight'
      BY <3>1 DEF Inv, InFlight, Fits, Mirrors, Brings, Backed, Caused, rows, Stored, Judged
    <3> QED
      BY <3>1, <3>3 DEF Inv, TypeOK, DoneNeedsEvidence, PublicHasCause, TaskNeedsPlan,
         TrailTellsTheTruth, Stored, Judged, rows, trail
  <2> QED
    BY <2>1, <2>2
<1> QED
  BY <1>1, <1>2, PTL DEF Spec

\* TypeOK: every column and every copy keeps to its enumeration.
THEOREM TypeCorrect == Spec => []TypeOK
<1>1. Inv => TypeOK
  BY DEF Inv
<1> QED
  BY <1>1, Invariance, PTL

\* DoneNeedsEvidence: no interleaving of stale saves shows a case as done, or as what
\* comes after, without a stored before/after pair.
THEOREM EvidenceGate == Spec => []DoneNeedsEvidence
<1>1. Inv => DoneNeedsEvidence
  BY DEF Inv
<1> QED
  BY <1>1, Invariance, PTL

\* PublicHasCause: a public outcome always has the reporter's word, or the obstacle, that
\* brought it in the tables.
THEOREM OutcomesAreCaused == Spec => []PublicHasCause
<1>1. Inv => PublicHasCause
  BY DEF Inv
<1> QED
  BY <1>1, Invariance, PTL

\* TaskNeedsPlan: the window of ReplacePlan never leaves a week without its plan.
THEOREM WeeksBelongToPlans == Spec => []TaskNeedsPlan
<1>1. Inv => TaskNeedsPlan
  BY DEF Inv
<1> QED
  BY <1>1, Invariance, PTL

\* TrailTellsTheTruth: neither the trail nor a message runs ahead of the tables.
THEOREM TrailIsTrue == Spec => []TrailTellsTheTruth
<1>1. Inv => TrailTellsTheTruth
  BY DEF Inv
<1> QED
  BY <1>1, Invariance, PTL

\* AnsweredStaysAnswered: a stale save never takes an answered case back to silence.
THEOREM AnswersStand == Spec => AnsweredStaysAnswered
<1>1. ASSUME Inv, Next, status \notin {"NoCase", "Assigned"}
      PROVE  status' \notin {"NoCase", "Assigned"}
  <2>1. ASSUME NEW c \in Request, SaveRow(c) PROVE status' \notin {"NoCase", "Assigned"}
    <3>1. /\ req[c].pc = "row" /\ req[c].to \in CaseStatus /\ Fits(req[c])
      BY <1>1, <2>1, AtHand DEF SaveRow
    <3>2. status' = req[c].to
      BY <2>1 DEF SaveRow
    <3> QED
      BY <3>1, <3>2 DEF Fits, Saving, CaseStatus
  <2>2. ASSUME NEW c \in Request, Insert(c) PROVE status' = status
    BY <1>1, <2>2 DEF Insert
  <2>3. ASSUME NEW c \in Request, Step(c), ~ SaveRow(c), ~ Insert(c) PROVE status' = status
    BY <2>3 DEF Step, DropTasks, DropPlan, NewPlan, NewTask, SavePlan, SaveTask, SaveChildren,
                Judge, AddConfirmation, Mirror, AppendAudit, Tell, rows
  <2>4. ASSUME NEW c \in Request, Load(c) \/ Die(c) PROVE status' = status
    BY <2>4 DEF Load, LoadOpen, LoadAcknowledge, LoadPlan, LoadReplan, LoadTick, LoadProgress,
                LoadNote, LoadBlock, LoadEvidence, LoadDone, LoadConfirm, LoadUphold, LoadDeny,
                Moved, Begin, Die, rows
  <2> QED
    BY <1>1, <2>1, <2>2, <2>3, <2>4 DEF Next
<1>2. Inv /\ [Next]_vars =>
        [status \notin {"NoCase", "Assigned"} => status' \notin {"NoCase", "Assigned"}]_vars
  BY <1>1
<1> QED
  BY <1>2, Invariance, PTL DEF Spec, AnsweredStaysAnswered

\* VerdictsAreKept: copies loaded before a verdict and saved after it leave it alone.
THEOREM VerdictsSurviveSaves == Spec => VerdictsAreKept
<1>1. ASSUME Inv, Next, NEW o \in Obstacle, obstacles[o] \in Verdict
      PROVE  obstacles'[o] \in Verdict
  <2>1. obstacles \in [Obstacle -> {"none", "pending"} \cup Verdict]
    BY <1>1 DEF Inv, TypeOK
  <2>2. ASSUME NEW c \in Request, SaveChildren(c) PROVE obstacles'[o] = obstacles[o]
    BY <1>1, <2>1, <2>2 DEF SaveChildren, NewRow, Verdict
  <2>3. ASSUME NEW c \in Request, Judge(c) PROVE obstacles'[o] \in Verdict
    BY <1>1, <2>1, <2>3 DEF Judge, VerdictOf, Verdict
  <2>4. ASSUME NEW c \in Request, Step(c), ~ SaveChildren(c), ~ Judge(c)
        PROVE  obstacles' = obstacles
    BY <2>4 DEF Step, Insert, DropTasks, DropPlan, NewPlan, NewTask, SaveRow, SavePlan, SaveTask,
                AddConfirmation, Mirror, AppendAudit, Tell, rows
  <2>5. ASSUME NEW c \in Request, Load(c) \/ Die(c) PROVE obstacles' = obstacles
    BY <2>5 DEF Load, LoadOpen, LoadAcknowledge, LoadPlan, LoadReplan, LoadTick, LoadProgress,
                LoadNote, LoadBlock, LoadEvidence, LoadDone, LoadConfirm, LoadUphold, LoadDeny,
                Moved, Begin, Die, rows
  <2> QED
    BY <1>1, <2>2, <2>3, <2>4, <2>5 DEF Next
<1>2. Inv /\ [Next]_vars =>
        [\A o \in Obstacle : obstacles[o] \in Verdict => obstacles'[o] \in Verdict]_vars
  BY <1>1
<1> QED
  BY <1>2, Invariance, PTL DEF Spec, VerdictsAreKept

-----------------------------------------------------------------------------
(* While requests on the case take turns and none dies, CaseLifecycle implements  *)
(* CaseRecord.  Only the request at work matters to what is seen of the case.      *)

Others(c) == \A d \in Request \ {c} : req[d] = Idle

LEMMA Seen ==
    ASSUME NEW c \in Request, Others(c)
    PROVE  /\ StatusBy(Writer) = StatusBy(req[c])
           /\ PlanBy(Writer) = PlanBy(req[c])
           /\ EvidenceBy(Writer) = EvidenceBy(req[c])
           /\ ObstaclesBy(Writer) = ObstaclesBy(req[c])
           /\ WordBy(Writer) = WordBy(req[c])
           /\ PublicBy(Writer) = PublicBy(req[c])
<1>1. CASE Busy(req[c])
  <2>1. Writing = {c}
    BY <1>1 DEF Others, Writing, Busy
  <2>2. Writer = req[c]
    BY <2>1 DEF Writer
  <2> QED
    BY <2>2
<1>2. CASE ~ Busy(req[c])
  <2>1. Writing = {}
    BY <1>2 DEF Others, Writing, Busy
  <2>2. Writer = Idle /\ ~ Busy(Writer)
    BY <2>1 DEF Writer, Busy
  <2> QED
    BY <1>2, <2>2 DEF StatusBy, PlanBy, EvidenceBy, ObstaclesBy, WordBy, PublicBy
<1> QED
  BY <1>1, <1>2

LEMMA SeenAfter ==
    ASSUME NEW c \in Request, Others(c)'
    PROVE  /\ StatusBy(Writer)' = StatusBy(req[c])'
           /\ PlanBy(Writer)' = PlanBy(req[c])'
           /\ EvidenceBy(Writer)' = EvidenceBy(req[c])'
           /\ ObstaclesBy(Writer)' = ObstaclesBy(req[c])'
           /\ WordBy(Writer)' = WordBy(req[c])'
           /\ PublicBy(Writer)' = PublicBy(req[c])'
<1>1. CASE Busy(req[c])'
  <2>1. Writing' = {c}
    BY <1>1 DEF Others, Writing, Busy
  <2>2. Writer' = req'[c]
    BY <2>1 DEF Writer
  <2> QED
    BY <2>2 DEF StatusBy, PlanBy, EvidenceBy, ObstaclesBy, WordBy, PublicBy, Busy, NewRow
<1>2. CASE ~ Busy(req[c])'
  <2>1. Writing' = {}
    BY <1>2 DEF Others, Writing, Busy
  <2>2. Writer' = Idle /\ ~ Busy(Writer)'
    BY <2>1 DEF Writer, Busy
  <2> QED
    BY <1>2, <2>2 DEF StatusBy, PlanBy, EvidenceBy, ObstaclesBy, WordBy, PublicBy
<1> QED
  BY <1>1, <1>2

\* The abstract operations keep a case in step with itself.
LEMMA RecordInStep ==
    ASSUME InStep(Writer), [Abstract!Next]_(Abstract!vars)
    PROVE  InStep(Writer)'
<1>1. /\ PublicBy(Writer) = FaceOf(StatusBy(Writer))
      /\ PlanBy(Writer) = "none" <=>
            StatusBy(Writer) \in {"NoCase", "Assigned", "Acknowledged", "Disputed"}
      /\ StatusBy(Writer) = "Blocked" =>
            \E o \in Obstacle : ObstaclesBy(Writer)[o] \in {"pending", "confirmed"}
  BY DEF InStep
<1>2. CASE UNCHANGED Abstract!vars
  BY <1>1, <1>2 DEF InStep, Abstract!vars
<1>3. CASE \/ Abstract!Open \/ Abstract!MakePlan \/ Abstract!Revise \/ Abstract!Resume
           \/ Abstract!MarkDone \/ \E s \in {"Acknowledged", "Disputed"} : Abstract!Answer(s)
           \/ \E outcome \in {"solved", "not_solved"} : Abstract!Close(outcome)
  BY <1>1, <1>3 DEF InStep, FaceOf, Abstract!Open, Abstract!MakePlan, Abstract!Revise,
     Abstract!Resume, Abstract!MarkDone, Abstract!Answer, Abstract!Close, Abstract!Become,
     Abstract!Working
<1>4. CASE Abstract!Tick \/ Abstract!Attach
  BY <1>1, <1>4 DEF InStep, FaceOf, Abstract!Tick, Abstract!Attach, Abstract!Working
<1>5. ASSUME NEW o \in Obstacle, Abstract!Block(o) PROVE InStep(Writer)'
  <2>1. ObstaclesBy(Writer)'[o] = "pending"
    BY <1>5 DEF Abstract!Block, ObstaclesBy
  <2> QED
    BY <1>1, <1>5, <2>1 DEF InStep, FaceOf, Abstract!Block, Abstract!Become
<1>6. ASSUME NEW o \in Obstacle, Abstract!Uphold(o) PROVE InStep(Writer)'
  <2>1. \A x \in Obstacle : \/ ObstaclesBy(Writer)'[x] = ObstaclesBy(Writer)[x]
                           \/ ObstaclesBy(Writer)'[x] = "confirmed"
    BY <1>6 DEF Abstract!Uphold, ObstaclesBy
  <2> QED
    BY <1>1, <1>6, <2>1 DEF InStep, FaceOf, Abstract!Uphold
<1>7. ASSUME NEW o \in Obstacle, Abstract!Deny(o) PROVE InStep(Writer)'
  BY <1>1, <1>7 DEF InStep, FaceOf, Abstract!Deny, Abstract!Become, Abstract!Working
<1> QED
  BY <1>2, <1>3, <1>4, <1>5, <1>6, <1>7 DEF Abstract!Next

\* A step of a request on its own keeps the serial invariant if its copy stays fresh and
\* what is seen of the case moves by one abstract operation at most.
LEMMA Serially ==
    ASSUME SerialInv, NEW c \in Request, Others(c)', [Abstract!Next]_(Abstract!vars),
           req'[c] # Idle => Fresh(req[c])',
           req'[c] = Idle => Paired'
    PROVE  SerialInv'
<1>1. OneAtATime'
  BY DEF Others, OneAtATime
<1>2. \A d \in Request : req'[d] # Idle => Fresh(req[d])'
  BY DEF Others
<1>3. (Quiet => Paired)'
  BY DEF Quiet
<1>4. InStep(Writer)'
  BY RecordInStep DEF SerialInv
<1> QED
  BY <1>1, <1>2, <1>3, <1>4 DEF SerialInv

LEMMA HiddenStep ==
    ASSUME NEW c \in Request, Others(c), Others(c)',
           StatusBy(req[c])' = StatusBy(req[c]),
           PlanBy(req[c])' = PlanBy(req[c]),
           EvidenceBy(req[c])' = EvidenceBy(req[c]),
           ObstaclesBy(req[c])' = ObstaclesBy(req[c]),
           WordBy(req[c])' = WordBy(req[c]),
           PublicBy(req[c])' = PublicBy(req[c])
    PROVE  UNCHANGED Abstract!vars
  BY Seen, SeenAfter DEF Abstract!vars

\* A use case that has loaded a fresh copy has shown nothing of it yet.
LEMMA BeginFresh ==
    ASSUME Inv, SerialInv, Serial, NEW c \in Request, NEW o \in Op, NEW at \in Statement,
           NEW s, NEW pl, NEW tk, NEW blk, NEW j,
           Begin(c, o, at, s, pl, tk, blk, j), at = FirstWrite(o),
           NEW k, k = Ahead([op |-> o, to |-> s, plan |-> pl, task |-> tk, blockers |-> blk,
                             judged |-> j], at),
           Fresh(k)
    PROVE  SerialInv' /\ UNCHANGED Abstract!vars
<1>1. Quiet /\ req' = [req EXCEPT ![c] = k] /\ UNCHANGED <<rows, trail>>
  BY DEF Begin
<1>2. req'[c] = k /\ Others(c) /\ Others(c)' /\ req[c] = Idle
  BY <1>1 DEF Inv, TypeOK, Others, Quiet
<1>3. k.op = o /\ k.pc = at
  BY DEF Ahead
<1>4. k # Idle
  BY <1>3 DEF Idle, Op
<1>5. ~ Busy(k) /\ ~ Busy(req[c])
  BY <1>2, <1>3 DEF Busy
<1>6. /\ StatusBy(req[c])' = StatusBy(req[c])
      /\ PlanBy(req[c])' = PlanBy(req[c])
      /\ EvidenceBy(req[c])' = EvidenceBy(req[c])
      /\ ObstaclesBy(req[c])' = ObstaclesBy(req[c])
      /\ WordBy(req[c])' = WordBy(req[c])
      /\ PublicBy(req[c])' = PublicBy(req[c])
  BY <1>1, <1>2, <1>5 DEF StatusBy, PlanBy, EvidenceBy, ObstaclesBy, WordBy, PublicBy, Busy, rows
<1>7. UNCHANGED Abstract!vars
  BY <1>2, <1>6, HiddenStep
<1>8. Fresh(req[c])'
  BY <1>1, <1>2 DEF Fresh, Allowed, CopyOfPlan, CopyOfObstacles, Paired, Busy, Stored, rows
<1> QED
  BY <1>2, <1>4, <1>7, <1>8, Serially

\* Between requests what is seen is what is stored.
LEMMA Calm ==
    ASSUME SerialInv, Quiet
    PROVE  /\ Paired
           /\ public = FaceOf(status)
           /\ task = "none" <=> status \in {"NoCase", "Assigned", "Acknowledged", "Disputed"}
           /\ status = "Blocked" => \E o \in Obstacle : obstacles[o] \in {"pending", "confirmed"}
<1>1. Writing = {}
  BY DEF Quiet, Writing, Busy
<1>2. Writer = Idle /\ ~ Busy(Writer)
  BY <1>1 DEF Writer, Busy
<1>3. /\ StatusBy(Writer) = status /\ PlanBy(Writer) = task /\ PublicBy(Writer) = public
      /\ \A o \in Obstacle : ObstaclesBy(Writer)[o] = obstacles[o]
  BY <1>2 DEF StatusBy, PlanBy, PublicBy, ObstaclesBy
<1> QED
  BY <1>3 DEF SerialInv, InStep

\* The state machine's moves lead where each use case says.
LEMMA MovesAllow ==
    ASSUME NEW s, NEW e, NEW t, <<s, e, t>> \in Moves
    PROVE  /\ e = "acknowledge" => s = "Assigned" /\ t = "Acknowledged"
           /\ e = "dispute" => s = "Assigned" /\ t = "Disputed"
           /\ e = "plan" => s = "Acknowledged" /\ t = "Planned"
           /\ e = "progress" => IsWorkable(s)
           /\ e = "replan" => s \in {"InProgress", "Reopened"}
           /\ e = "block" => s \in {"Planned", "InProgress"}
           /\ e = "mark_done" => s = "InProgress"
           /\ e \in {"confirm_resolved", "confirm_reopened"} => s = "Done"
  BY DEF Moves, IsWorkable

LEMMA FirstWrites ==
    /\ FirstWrite("open") = "insert"
    /\ FirstWrite("replan") = "droptasks"
    /\ FirstWrite("confirm") = "verdict"
    /\ \A o \in Op \ {"open", "replan", "confirm"} : FirstWrite(o) = "row"
  BY DEF FirstWrite, Op

\* A use case that is about to save the whole copy.
LEMMA RowFresh ==
    ASSUME Inv, SerialInv, Serial, NEW c \in Request,
           NEW o \in Op \ {"open", "replan", "confirm"},
           NEW s, NEW pl \in Plan \cup {None}, NEW tk, NEW blk, NEW j,
           Begin(c, o, "row", s, pl, tk, blk, j),
           Allowed([op |-> o, to |-> s, task |-> tk]),
           pl = None <=> tk = "none",
           plan = IF o = "plan" THEN None ELSE pl,
           tk = "done" \/ task # "done",
           IF o = "block" THEN \E b \in Obstacle \ Stored : blk = Stored \cup {b}
                          ELSE blk = Stored,
           IF o = "deny" THEN j \in Obstacle /\ obstacles[j] = "pending" ELSE j = None
    PROVE  SerialInv' /\ UNCHANGED Abstract!vars
<1> DEFINE new == [op |-> o, to |-> s, plan |-> pl, task |-> tk, blockers |-> blk, judged |-> j]
<1>1. PICK k : k = Ahead(new, "row")
  OBVIOUS
<1>2. /\ k.op = o /\ k.pc = "row" /\ k.to = s /\ k.plan = pl /\ k.task = tk
      /\ k.blockers = blk /\ k.judged = j
  BY <1>1 DEF Ahead
<1>3. "row" \in Statement /\ FirstWrite(o) = "row"
  BY FirstWrites DEF Statement
<1>4. Allowed(k)
  BY <1>2 DEF Allowed
<1>5. Paired
  BY Calm DEF Begin
<1>6. CopyOfPlan(k)
  BY <1>2, <1>5 DEF CopyOfPlan, Op, Saving, Replacing
<1>7. CopyOfObstacles(k)
  BY <1>2 DEF CopyOfObstacles, Op, Saving, Replacing
<1>8. Fresh(k)
  BY <1>2, <1>3, <1>4, <1>6, <1>7 DEF Fresh, Busy, Saving, Replacing
<1> QED
  BY <1>1, <1>3, <1>8, BeginFresh

\* ... with nothing in it but a new status.
LEMMA MovedFresh ==
    ASSUME Inv, SerialInv, Serial, NEW c \in Request, NEW o, NEW e, Moved(c, o, e),
           <<o, e>> \in {<<"accept", "acknowledge">>, <<"dispute", "dispute">>,
                        <<"progress", "progress">>, <<"done", "mark_done">>,
                        <<"solved", "confirm_resolved">>, <<"reopen", "confirm_reopened">>},
           e = "mark_done" => evidence
    PROVE  SerialInv' /\ UNCHANGED Abstract!vars
<1>1. PICK s \in CaseStatus : /\ <<status, e, s>> \in Moves
                              /\ Begin(c, o, "row", s, plan, task, Stored, None)
  BY DEF Moved
<1>2. Paired
  BY <1>1, Calm DEF Begin
<1>3. plan \in Plan \cup {None} /\ task \in {"none", "open", "done"}
  BY DEF Inv, TypeOK
<1>4. o \in Op \ {"open", "plan", "replan", "confirm", "block", "deny"}
  BY DEF Op
<1>5. Allowed([op |-> o, to |-> s, task |-> task])
  BY <1>1, MovesAllow DEF Allowed
<1> QED
  BY <1>1, <1>2, <1>3, <1>4, <1>5, RowFresh DEF Paired

\* ... with the status as it was loaded.
LEMMA KeptFresh ==
    ASSUME Inv, SerialInv, Serial, NEW c \in Request, NEW o \in {"tick", "note", "evidence"},
           IsWorkable(status), NEW tk \in {"none", "open", "done"},
           tk = IF o = "tick" THEN "done" ELSE task,
           o = "tick" => plan # None,
           Begin(c, o, "row", status, plan, tk, Stored, None)
    PROVE  SerialInv' /\ UNCHANGED Abstract!vars
<1>1. Paired
  BY Calm DEF Begin
<1>2. plan \in Plan \cup {None} /\ task \in {"none", "open", "done"}
  BY DEF Inv, TypeOK
<1>3. o \in Op \ {"open", "plan", "replan", "confirm", "block", "deny"}
  BY DEF Op
<1>4. Allowed([op |-> o, to |-> status, task |-> tk])
  BY DEF Allowed
<1> QED
  BY <1>1, <1>2, <1>3, <1>4, RowFresh DEF Paired

LEMMA LoadFresh ==
    ASSUME Inv, SerialInv, Serial, NEW c \in Request, Load(c)
    PROVE  SerialInv' /\ UNCHANGED Abstract!vars
<1>1. /\ plan \in Plan \cup {None} /\ task \in {"none", "open", "done"}
      /\ obstacles \in [Obstacle -> {"none", "pending"} \cup Verdict]
  BY DEF Inv, TypeOK
<1>2. None \notin Plan /\ None \notin Obstacle
  BY CasePlanAssumption
<1>3. CASE LoadOpen(c)
  <2>1. Begin(c, "open", "insert", "Assigned", None, "none", {}, None) /\ status = "NoCase"
    BY <1>3 DEF LoadOpen
  <2>2. PICK k : k = Ahead([op |-> "open", to |-> "Assigned", plan |-> None, task |-> "none",
                            blockers |-> {}, judged |-> None], "insert")
    OBVIOUS
  <2>3. /\ k.op = "open" /\ k.pc = "insert" /\ k.to = "Assigned" /\ k.plan = None
        /\ k.task = "none" /\ k.blockers = {} /\ k.judged = None
    BY <2>2 DEF Ahead
  <2>4. Paired
    BY <2>1, Calm DEF Begin
  <2>5. Fresh(k)
    BY <2>1, <2>3, <2>4, FirstWrites
    DEF Fresh, Allowed, CopyOfPlan, CopyOfObstacles, Busy, Saving, Replacing
  <2> QED
    BY <2>1, <2>2, <2>5, FirstWrites, BeginFresh DEF Op, Statement
<1>4. CASE LoadAcknowledge(c)
  BY <1>4, MovedFresh DEF LoadAcknowledge
<1>5. CASE LoadProgress(c)
  BY <1>5, MovedFresh DEF LoadProgress
<1>6. CASE LoadDone(c)
  BY <1>6, MovedFresh DEF LoadDone
<1>7. CASE LoadConfirm(c)
  BY <1>7, MovedFresh DEF LoadConfirm
<1>8. CASE LoadTick(c)
  BY <1>8, KeptFresh DEF LoadTick
<1>9. CASE LoadNote(c)
  BY <1>1, <1>9, KeptFresh DEF LoadNote
<1>10. CASE LoadEvidence(c)
  BY <1>1, <1>10, KeptFresh DEF LoadEvidence
<1>11. ASSUME NEW n \in Plan, LoadPlan(c, n) PROVE SerialInv' /\ UNCHANGED Abstract!vars
  <2>1. PICK s \in CaseStatus : /\ <<status, "plan", s>> \in Moves
                                /\ Begin(c, "plan", "row", s, n, "open", Stored, None)
    BY <1>11 DEF LoadPlan
  <2>2. status = "Acknowledged" /\ s = "Planned"
    BY <2>1, MovesAllow
  <2>3. plan = None /\ task = "none"
    BY <2>1, <2>2, Calm DEF Begin, Paired
  <2>4. Allowed([op |-> "plan", to |-> s, task |-> "open"])
    BY <2>2 DEF Allowed
  <2> QED
    BY <1>2, <2>1, <2>3, <2>4, RowFresh DEF Op
<1>12. ASSUME NEW n \in Plan, LoadReplan(c, n) PROVE SerialInv' /\ UNCHANGED Abstract!vars
  <2>1. PICK s \in CaseStatus : /\ <<status, "replan", s>> \in Moves
                                /\ Begin(c, "replan", "droptasks", s, n, "open", Stored, None)
    BY <1>12 DEF LoadReplan
  <2>2. PICK k : k = Ahead([op |-> "replan", to |-> s, plan |-> n, task |-> "open",
                            blockers |-> Stored, judged |-> None], "droptasks")
    OBVIOUS
  <2>3. /\ k.op = "replan" /\ k.pc = "droptasks" /\ k.to = s /\ k.plan = n
        /\ k.task = "open" /\ k.blockers = Stored /\ k.judged = None
    BY <2>2 DEF Ahead
  <2>4. Paired
    BY <2>1, Calm DEF Begin
  <2>5. Allowed(k)
    BY <2>1, <2>3, MovesAllow DEF Allowed
  <2>6. Fresh(k)
    BY <1>2, <2>3, <2>4, <2>5, FirstWrites
    DEF Fresh, CopyOfPlan, CopyOfObstacles, Busy, Saving, Replacing
  <2> QED
    BY <2>1, <2>2, <2>6, FirstWrites, BeginFresh DEF Op, Statement
<1>13. ASSUME NEW o \in Obstacle, LoadBlock(c, o) PROVE SerialInv' /\ UNCHANGED Abstract!vars
  <2>1. PICK s \in CaseStatus : /\ <<status, "block", s>> \in Moves
                                /\ Begin(c, "block", "row", s, plan, task, Stored \cup {o}, None)
    BY <1>13 DEF LoadBlock
  <2>2. o \notin Stored
    BY <1>13 DEF LoadBlock, FreshObstacle
  <2>3. Paired
    BY <2>1, Calm DEF Begin
  <2>4. Allowed([op |-> "block", to |-> s, task |-> task])
    BY <2>1, MovesAllow DEF Allowed
  <2> QED
    BY <1>1, <2>1, <2>2, <2>3, <2>4, RowFresh DEF Op, Paired
<1>14. ASSUME NEW o \in Obstacle, LoadUphold(c, o) PROVE SerialInv' /\ UNCHANGED Abstract!vars
  <2>1. Begin(c, "confirm", "verdict", "Assigned", None, "none", {}, o) /\ obstacles[o] = "pending"
    BY <1>14 DEF LoadUphold, Judgeable
  <2>2. PICK k : k = Ahead([op |-> "confirm", to |-> "Assigned", plan |-> None, task |-> "none",
                            blockers |-> {}, judged |-> o], "verdict")
    OBVIOUS
  <2>3. /\ k.op = "confirm" /\ k.pc = "verdict" /\ k.to = "Assigned" /\ k.plan = None
        /\ k.task = "none" /\ k.blockers = {} /\ k.judged = o
    BY <2>2 DEF Ahead
  <2>4. Paired
    BY <2>1, Calm DEF Begin
  <2>5. Fresh(k)
    BY <2>1, <2>3, <2>4, FirstWrites
    DEF Fresh, Allowed, CopyOfPlan, CopyOfObstacles, Busy, Saving, Replacing
  <2> QED
    BY <2>1, <2>2, <2>5, FirstWrites, BeginFresh DEF Op, Statement
<1>15. ASSUME NEW o \in Obstacle, LoadDeny(c, o) PROVE SerialInv' /\ UNCHANGED Abstract!vars
  <2>1. PICK s \in CaseStatus : /\ <<status, "progress", s>> \in Moves
                                /\ Begin(c, "deny", "row", s, plan, task, Stored, o)
    BY <1>15 DEF LoadDeny
  <2>2. obstacles[o] = "pending"
    BY <1>15 DEF LoadDeny, Judgeable
  <2>3. Paired
    BY <2>1, Calm DEF Begin
  <2>4. Allowed([op |-> "deny", to |-> s, task |-> task])
    BY <2>1, MovesAllow DEF Allowed
  <2> QED
    BY <1>1, <2>1, <2>2, <2>3, <2>4, RowFresh DEF Op, Paired
<1> QED
  BY <1>3, <1>4, <1>5, <1>6, <1>7, <1>8, <1>9, <1>10, <1>11, <1>12, <1>13, <1>14, <1>15 DEF Load

\* What a request about to run a statement relies on while it is alone.
LEMMA AloneAt ==
    ASSUME Inv, SerialInv, NEW c \in Request, NEW at, At(c, at)
    PROVE  /\ TypeOK /\ Others(c) /\ req[c] # Idle
           /\ req[c] \in Handler /\ req[c].op \in Op /\ req[c].pc = at
           /\ req[c].to \in CaseStatus /\ req[c].plan \in Plan \cup {None}
           /\ req[c].task \in {"none", "open", "done"}
           /\ req[c].blockers \in SUBSET Obstacle
           /\ req[c].judged \in Obstacle \cup {None}
           /\ Fits(req[c]) /\ Fresh(req[c])
<1>1. Others(c) /\ Fresh(req[c])
  BY DEF SerialInv, OneAtATime, Others, At
<1> QED
  BY <1>1, AtHand

LEMMA GoOn ==
    ASSUME TypeOK, NEW c \in Request, Others(c), req[c] # Idle, NEW at \in Statement, Goto(c, at)
    PROVE  /\ Others(c)' /\ req'[c] # Idle
           /\ req'[c].op = req[c].op /\ req'[c].pc = at
           /\ at \notin {"audit", "tell"} => req'[c].to = req[c].to
           /\ at \in Saving => /\ req'[c].plan = req[c].plan
                               /\ req'[c].task = req[c].task
                               /\ req'[c].blockers = req[c].blockers
           /\ at \notin Saving \cup {"insert"} => req'[c].blockers = {}
           /\ at \in Saving \cup {"verdict"} => req'[c].judged = req[c].judged
           /\ at \in {"mirror", "audit", "tell"} => req'[c].judged = None
           /\ at = "word" => req'[c].judged = req[c].judged
<1>1. req'[c] = Ahead(req[c], at) /\ Others(c)' /\ req[c].op \in Op
  BY DEF Goto, TypeOK, Others, Handler
<1>2. req'[c] # Idle
  BY <1>1 DEF Ahead, Idle, Op
<1>3. at \in Saving => at \notin {"verdict", "word", "mirror", "audit", "tell"}
  BY DEF Saving, Replacing
<1>4. at \notin Saving => at \in {"insert", "verdict", "word", "mirror", "audit", "tell"}
  BY DEF Saving, Replacing, Statement
<1> QED
  BY <1>1, <1>2, <1>3, <1>4 DEF Ahead

LEMMA Ends ==
    ASSUME TypeOK, NEW c \in Request, Others(c), Finish(c)
    PROVE  Others(c)' /\ req'[c] = Idle
  BY DEF Finish, TypeOK, Others

\* After its rows nothing of a request is left to be seen.
LEMMA ReportFresh ==
    ASSUME SerialInv, TypeOK, NEW c \in Request, Others(c), req[c] # Idle, Report(c),
           Paired', [Abstract!Next]_(Abstract!vars)
    PROVE  SerialInv'
<1>1. CASE Finish(c)
  BY <1>1, Ends, Serially
<1>2. CASE Goto(c, "audit")
  <2>1. "audit" \in Statement /\ "audit" \notin Saving
    BY DEF Statement, Saving, Replacing
  <2>2. /\ Others(c)' /\ req'[c] # Idle /\ req'[c].pc = "audit"
        /\ req'[c].blockers = {} /\ req'[c].judged = None
    BY <1>2, <2>1, GoOn
  <2>3. FirstWrite(req'[c].op) # "audit" /\ ~ Busy(req'[c])
    BY <2>2 DEF FirstWrite, Busy
  <2>4. Fresh(req[c])'
    BY <2>1, <2>2, <2>3
    DEF Fresh, Busy, FirstWrite, CopyOfPlan, CopyOfObstacles, Paired, Replacing
  <2> QED
    BY <2>2, <2>4, Serially
<1> QED
  BY <1>1, <1>2 DEF Report

LEMMA ReportDone ==
    ASSUME TypeOK, NEW c \in Request, Others(c), req[c] # Idle, Report(c)
    PROVE  Others(c)' /\ ~ Busy(req[c])'
<1>1. CASE Finish(c)
  BY <1>1, Ends DEF Busy
<1>2. CASE Goto(c, "audit")
  BY <1>2, GoOn DEF Busy, Statement
<1> QED
  BY <1>1, <1>2 DEF Report

-----------------------------------------------------------------------------
(* The statements, alone. *)

Abstractly == [Abstract!Next]_(Abstract!vars)

LEMMA InsertFresh ==
    ASSUME Inv, SerialInv, NEW c \in Request, Insert(c)
    PROVE  SerialInv' /\ Abstractly
<1>1. /\ TypeOK /\ Others(c) /\ Fresh(req[c]) /\ req[c].pc = "insert"
  BY AloneAt DEF Insert
<1>2. Others(c)' /\ req'[c] = Idle
  BY <1>1, Ends DEF Insert
<1>3. req[c].op = "open" /\ FirstWrite("open") = "insert"
  BY <1>1, FirstWrites DEF Fresh
<1>4. ~ Busy(req[c]) /\ ~ Busy(req[c])'
  BY <1>1, <1>2, <1>3 DEF Busy
<1>5. status = "NoCase" /\ Paired
  BY <1>1, <1>3 DEF Fresh, Allowed, CopyOfPlan
<1>6. /\ status' = "Assigned"
      /\ UNCHANGED <<plan, task, evidence, obstacles, confirmed, public>>
  BY <1>5 DEF Insert
<1>7. InStep(Writer)
  BY DEF SerialInv
<1>8. /\ StatusBy(Writer) = "NoCase" /\ StatusBy(Writer)' = "Assigned"
      /\ PublicBy(Writer) = public /\ PublicBy(Writer)' = public
      /\ UNCHANGED <<PlanBy(Writer), EvidenceBy(Writer), ObstaclesBy(Writer), WordBy(Writer)>>
  <2>1. /\ StatusBy(req[c]) = "NoCase" /\ StatusBy(req[c])' = "Assigned"
        /\ PublicBy(req[c]) = public /\ PublicBy(req[c])' = public
    BY <1>4, <1>5, <1>6 DEF StatusBy, PublicBy
  <2>2. /\ PlanBy(req[c])' = PlanBy(req[c])
        /\ EvidenceBy(req[c])' = EvidenceBy(req[c])
        /\ ObstaclesBy(req[c])' = ObstaclesBy(req[c])
        /\ WordBy(req[c])' = WordBy(req[c])
    BY <1>4, <1>6 DEF PlanBy, EvidenceBy, ObstaclesBy, WordBy
  <2> QED
    BY <1>1, <1>2, <2>1, <2>2, Seen, SeenAfter
<1>9. public = "Assigned"
  BY <1>7, <1>8 DEF InStep, FaceOf
<1>10. Abstract!Open
  BY <1>8, <1>9 DEF Abstract!Open, Abstract!Become
<1>11. Paired'
  BY <1>5, <1>6 DEF Paired
<1> QED
  BY <1>2, <1>10, <1>11, Serially DEF Abstractly, Abstract!Next

\* The row goes in, and with it what the copy brings is seen.
LEMMA RowKeepsCopy ==
    ASSUME Inv, SerialInv, NEW c \in Request, SaveRow(c)
    PROVE  /\ Others(c)' /\ req'[c] # Idle /\ Fresh(req[c])' /\ Busy(req[c])'
           /\ req'[c].op = req[c].op /\ req'[c].pc \in {"plan", "children"}
           /\ req'[c].to = req[c].to /\ req'[c].task = req[c].task
           /\ req'[c].blockers = req[c].blockers /\ req'[c].judged = req[c].judged
<1> DEFINE h == req[c]
<1>1. /\ TypeOK /\ Others(c) /\ Fresh(h) /\ h # Idle /\ h.pc = "row" /\ h.op \in Op
      /\ h.plan \in Plan \cup {None} /\ h.task \in {"none", "open", "done"}
      /\ h.op \notin {"open", "confirm"}
  BY AloneAt DEF SaveRow, Fits, Saving
<1>2. PICK at \in {"plan", "children"} :
         Goto(c, at) /\ at = IF h.plan # None THEN "plan" ELSE "children"
  BY DEF SaveRow
<1>3. /\ at \in Statement /\ at \in Saving /\ at \notin Replacing \cup {"row", "audit", "tell"}
      /\ "row" \in Saving
  BY DEF Statement, Saving, Replacing
<1>4. /\ Others(c)' /\ req'[c] # Idle
      /\ req'[c].op = h.op /\ req'[c].pc = at
      /\ req'[c].to = h.to /\ req'[c].plan = h.plan /\ req'[c].task = h.task
      /\ req'[c].blockers = h.blockers /\ req'[c].judged = h.judged
  BY <1>1, <1>2, <1>3, GoOn
<1>5. FirstWrite(h.op) \notin {"plan", "children"} /\ (h.op # "replan" => FirstWrite(h.op) = "row")
  BY <1>1, FirstWrites
<1>6. Busy(req[c])'
  BY <1>2, <1>4, <1>5 DEF Busy
<1>7. /\ status' = h.to
      /\ UNCHANGED <<plan, task, evidence, obstacles, confirmed, public>>
  BY DEF SaveRow
<1>8. /\ h.plan = None <=> h.task = "none"
      /\ plan = IF h.op = "plan" THEN None ELSE h.plan
      /\ h.task = "done" \/ task # "done"
      /\ h.op = "replan" => h.task = "open"
      /\ h.op # "replan" => Paired
      /\ h.op = "plan" => h.task = "open"
  BY <1>1, <1>3, <1>5 DEF Fresh, CopyOfPlan, Allowed
<1>9. at = "children" => plan = h.plan /\ task = h.task
  BY <1>2, <1>8 DEF Paired
<1>10. CopyOfPlan(req[c])'
  BY <1>2, <1>3, <1>4, <1>5, <1>7, <1>8, <1>9 DEF CopyOfPlan, Replacing
<1>11. CopyOfObstacles(req[c])'
  BY <1>1, <1>3, <1>4, <1>7 DEF Fresh, CopyOfObstacles, Stored
<1>12. Fresh(req[c])'
  BY <1>2, <1>3, <1>4, <1>5, <1>7, <1>10, <1>11 DEF Fresh
<1> QED
  BY <1>2, <1>4, <1>6, <1>12

LEMMA RowSeen ==
    ASSUME Inv, SerialInv, NEW c \in Request, SaveRow(c), NEW h, h = req[c]
    PROVE  /\ StatusBy(Writer)' = h.to
           /\ PlanBy(Writer)' = h.task
           /\ EvidenceBy(Writer)' = (evidence \/ h.op = "evidence")
           /\ ObstaclesBy(Writer)' = [o \in Obstacle |->
                 IF o = h.judged THEN VerdictOf(h.op)
                 ELSE IF NewRow(h, o) THEN "pending" ELSE obstacles[o]]
           /\ WordBy(Writer)' = confirmed \cup
                 {w \in {"solved", "not_solved"} :
                     h.op = IF w = "solved" THEN "solved" ELSE "reopen"}
           /\ PublicBy(Writer)' = (IF Mirrors(h.op) THEN h.to ELSE public)
<1> DEFINE k == req'[c]
<1>1. /\ Others(c)' /\ Busy(req[c])'
      /\ k.op = h.op /\ k.pc \in {"plan", "children"} /\ k.to = h.to /\ k.task = h.task
      /\ k.blockers = h.blockers /\ k.judged = h.judged
  BY RowKeepsCopy
<1>2. UNCHANGED <<plan, task, evidence, obstacles, confirmed, public>>
  BY DEF SaveRow
<1>3. StatusBy(req[c])' = h.to /\ PlanBy(req[c])' = h.task
  BY <1>1 DEF StatusBy, PlanBy
<1>4. EvidenceBy(req[c])' = (evidence \/ h.op = "evidence")
  BY <1>1, <1>2 DEF EvidenceBy
<1>5. ObstaclesBy(req[c])' = [o \in Obstacle |->
                 IF o = h.judged THEN VerdictOf(h.op)
                 ELSE IF NewRow(h, o) THEN "pending" ELSE obstacles[o]]
  BY <1>1, <1>2 DEF ObstaclesBy, NewRow
<1>6. WordBy(req[c])' = confirmed \cup
                 {w \in {"solved", "not_solved"} :
                     h.op = IF w = "solved" THEN "solved" ELSE "reopen"}
  BY <1>1, <1>2 DEF WordBy
<1>7. PublicBy(req[c])' = (IF Mirrors(h.op) THEN h.to ELSE public)
  BY <1>1, <1>2 DEF PublicBy, Mirrors
<1> QED
  BY <1>1, <1>3, <1>4, <1>5, <1>6, <1>7, SeenAfter

\* What is seen of a case whose request has written nothing.
LEMMA Unseen ==
    ASSUME NEW c \in Request, Others(c), ~ Busy(req[c]), evidence \in BOOLEAN
    PROVE  /\ StatusBy(Writer) = status
           /\ PlanBy(Writer) = task
           /\ EvidenceBy(Writer) = evidence
           /\ ObstaclesBy(Writer) = [o \in Obstacle |-> obstacles[o]]
           /\ WordBy(Writer) = confirmed
           /\ PublicBy(Writer) = public
<1>1. /\ StatusBy(req[c]) = status /\ PlanBy(req[c]) = task /\ EvidenceBy(req[c]) = evidence
      /\ PublicBy(req[c]) = public
  BY DEF StatusBy, PlanBy, EvidenceBy, PublicBy
<1>2. ObstaclesBy(req[c]) = [o \in Obstacle |-> obstacles[o]]
  BY DEF ObstaclesBy
<1>3. WordBy(req[c]) = confirmed
  BY DEF WordBy
<1> QED
  BY <1>1, <1>2, <1>3, Seen

\* A use case takes its abstract step with its row.
LEMMA RowRefines ==
    ASSUME Inv, SerialInv, NEW c \in Request, SaveRow(c)
    PROVE  Abstractly
<1>1. PICK h : h = req[c]
  OBVIOUS
<1>2. /\ TypeOK /\ Others(c) /\ Fresh(h) /\ h # Idle /\ h.pc = "row" /\ h.op \in Op
      /\ h.judged \in Obstacle \cup {None} /\ Brings(h.op, h.to)
      /\ h.op \notin {"open", "confirm"}
  BY <1>1, AloneAt DEF SaveRow, Fits, Saving
<1>3. /\ StatusBy(Writer)' = h.to
      /\ PlanBy(Writer)' = h.task
      /\ EvidenceBy(Writer)' = (evidence \/ h.op = "evidence")
      /\ ObstaclesBy(Writer)' = [o \in Obstacle |->
            IF o = h.judged THEN VerdictOf(h.op)
            ELSE IF NewRow(h, o) THEN "pending" ELSE obstacles[o]]
      /\ WordBy(Writer)' = confirmed \cup
            {w \in {"solved", "not_solved"} :
                h.op = IF w = "solved" THEN "solved" ELSE "reopen"}
      /\ PublicBy(Writer)' = (IF Mirrors(h.op) THEN h.to ELSE public)
  BY <1>1, RowSeen
<1>4. /\ obstacles \in [Obstacle -> {"none", "pending"} \cup Verdict]
      /\ evidence \in BOOLEAN /\ None \notin Obstacle /\ "row" \in Saving
  BY <1>2, CasePlanAssumption DEF TypeOK, Saving
<1>5. /\ h.op # "block" => h.blockers = Stored
      /\ h.op = "block" => \E o \in Obstacle \ Stored : h.blockers = Stored \cup {o}
      /\ h.op = "deny" => h.judged \in Obstacle /\ obstacles[h.judged] = "pending"
      /\ h.op # "deny" => h.judged = None
  BY <1>2, <1>4 DEF Fresh, CopyOfObstacles
<1>6. CASE h.op = "replan"
  <2>1. Busy(h)
    BY <1>2, <1>6, FirstWrites DEF Busy
  <2>2. /\ StatusBy(h) = h.to /\ PlanBy(h) = h.task
        /\ EvidenceBy(h) = (evidence \/ h.op = "evidence")
        /\ ObstaclesBy(h) = [o \in Obstacle |->
              IF o = h.judged THEN VerdictOf(h.op)
              ELSE IF NewRow(h, o) THEN "pending" ELSE obstacles[o]]
        /\ WordBy(h) = confirmed \cup
              {w \in {"solved", "not_solved"} :
                  h.op = IF w = "solved" THEN "solved" ELSE "reopen"}
        /\ PublicBy(h) = (IF Mirrors(h.op) THEN h.to ELSE public)
    BY <1>2, <2>1 DEF StatusBy, PlanBy, EvidenceBy, ObstaclesBy, WordBy, PublicBy
  <2>3. UNCHANGED Abstract!vars
    BY <1>1, <1>2, <1>3, <2>2, Seen DEF Abstract!vars
  <2> QED
    BY <2>3 DEF Abstractly
<1>7. CASE h.op # "replan"
  <2>1. ~ Busy(h) /\ Allowed(h)
    BY <1>2, <1>7, FirstWrites DEF Busy, Fresh
  <2>2. /\ StatusBy(Writer) = status /\ PlanBy(Writer) = task /\ EvidenceBy(Writer) = evidence
        /\ ObstaclesBy(Writer) = [o \in Obstacle |-> obstacles[o]]
        /\ WordBy(Writer) = confirmed /\ PublicBy(Writer) = public
    BY <1>1, <1>2, <1>4, <2>1, Unseen
  <2>3. public = FaceOf(status)
    BY <2>2 DEF SerialInv, InStep
  <2>4. h.op \notin {"block", "deny"} => ObstaclesBy(Writer)' = ObstaclesBy(Writer)
    BY <1>3, <1>4, <1>5, <2>2 DEF NewRow, Stored
  <2>5. h.op \notin {"solved", "reopen"} => WordBy(Writer)' = WordBy(Writer)
    BY <1>3, <2>2
  <2>6. h.op # "evidence" => EvidenceBy(Writer)' = EvidenceBy(Writer)
    BY <1>3, <1>4, <2>2
  <2>7. CASE h.op \in {"accept", "dispute"}
    <3>1. /\ status = "Assigned" /\ h.to \in {"Acknowledged", "Disputed"} /\ h.task = task
          /\ ~ Mirrors(h.op)
      BY <2>1, <2>7 DEF Allowed, Mirrors
    <3>2. Abstract!Answer(h.to)
      BY <1>3, <2>2, <2>3, <2>4, <2>5, <2>6, <2>7, <3>1
      DEF Abstract!Answer, Abstract!Become, FaceOf
    <3> QED
      BY <3>1, <3>2 DEF Abstractly, Abstract!Next
  <2>8. CASE h.op = "plan"
    <3>1. status = "Acknowledged" /\ h.to = "Planned" /\ h.task = "open" /\ ~ Mirrors(h.op)
      BY <2>1, <2>8 DEF Allowed, Mirrors
    <3>2. Abstract!MakePlan
      BY <1>3, <2>2, <2>3, <2>4, <2>5, <2>6, <2>8, <3>1
      DEF Abstract!MakePlan, Abstract!Become, FaceOf
    <3> QED
      BY <3>2 DEF Abstractly, Abstract!Next
  <2>9. CASE h.op \in {"tick", "note", "evidence"}
    <3>1. /\ IsWorkable(status) /\ h.to = status /\ ~ Mirrors(h.op)
          /\ h.task = IF h.op = "tick" THEN "done" ELSE task
      BY <2>1, <2>9 DEF Allowed, Mirrors
    <3>2. CASE h.op = "tick"
      <4>1. Abstract!Tick
        BY <1>3, <2>2, <2>4, <2>5, <2>6, <3>1, <3>2 DEF Abstract!Tick, Abstract!Working, IsWorkable
      <4> QED
        BY <4>1 DEF Abstractly, Abstract!Next
    <3>3. CASE h.op = "evidence"
      <4>1. Abstract!Attach
        BY <1>3, <2>2, <2>4, <2>5, <3>1, <3>3 DEF Abstract!Attach, Abstract!Working, IsWorkable
      <4> QED
        BY <4>1 DEF Abstractly, Abstract!Next
    <3>4. CASE h.op = "note"
      BY <1>3, <2>2, <2>4, <2>5, <2>6, <3>1, <3>4 DEF Abstractly, Abstract!vars
    <3> QED
      BY <2>9, <3>2, <3>3, <3>4
  <2>10. CASE h.op = "progress"
    <3>1. IsWorkable(status) /\ h.to = "InProgress" /\ h.task = task /\ Mirrors(h.op)
      BY <1>2, <2>1, <2>10 DEF Allowed, Mirrors, Brings
    <3>2. Abstract!Resume
      BY <1>3, <2>2, <2>4, <2>5, <2>6, <2>10, <3>1
      DEF Abstract!Resume, Abstract!Become, Abstract!Working, IsWorkable
    <3> QED
      BY <3>2 DEF Abstractly, Abstract!Next
  <2>11. CASE h.op = "done"
    <3>1. status = "InProgress" /\ evidence /\ h.to = "Done" /\ h.task = task /\ Mirrors(h.op)
      BY <1>2, <2>1, <2>11 DEF Allowed, Mirrors, Brings
    <3>2. Abstract!MarkDone
      BY <1>3, <2>2, <2>4, <2>5, <2>6, <2>11, <3>1 DEF Abstract!MarkDone, Abstract!Become
    <3> QED
      BY <3>2 DEF Abstractly, Abstract!Next
  <2>12. CASE h.op \in {"solved", "reopen"}
    <3> DEFINE outcome == IF h.op = "solved" THEN "solved" ELSE "not_solved"
    <3>1. /\ status = "Done" /\ h.task = task /\ Mirrors(h.op)
          /\ h.to = IF outcome = "solved" THEN "Resolved" ELSE "Reopened"
      BY <1>2, <2>1, <2>12 DEF Allowed, Mirrors, Brings
    <3>2. WordBy(Writer)' = WordBy(Writer) \cup {outcome}
      BY <1>3, <2>2, <2>12
    <3>3. Abstract!Close(outcome)
      BY <1>3, <2>2, <2>4, <2>6, <2>12, <3>1, <3>2 DEF Abstract!Close, Abstract!Become
    <3> QED
      BY <3>3 DEF Abstractly, Abstract!Next
  <2>13. CASE h.op = "block"
    <3>1. /\ status \in {"Planned", "InProgress"} /\ h.to = "Blocked" /\ h.task = task
          /\ Mirrors(h.op)
      BY <1>2, <2>1, <2>13 DEF Allowed, Mirrors, Brings
    <3>2. PICK o \in Obstacle \ Stored : h.blockers = Stored \cup {o}
      BY <1>5, <2>13
    <3>3. ObstaclesBy(Writer)' = [ObstaclesBy(Writer) EXCEPT ![o] = "pending"]
      BY <1>3, <1>4, <1>5, <2>2, <2>13, <3>2 DEF NewRow, Stored
    <3>4. ObstaclesBy(Writer)[o] = "none"
      BY <2>2, <3>2 DEF Stored
    <3>5. Abstract!Block(o)
      BY <1>3, <2>2, <2>5, <2>6, <2>13, <3>1, <3>3, <3>4 DEF Abstract!Block, Abstract!Become
    <3> QED
      BY <3>5 DEF Abstractly, Abstract!Next
  <2>14. CASE h.op = "deny"
    <3>1. /\ IsWorkable(status) /\ h.to = "InProgress" /\ h.task = task /\ Mirrors(h.op)
          /\ VerdictOf(h.op) = "denied"
      BY <1>2, <2>1, <2>14 DEF Allowed, Mirrors, Brings, VerdictOf
    <3>2. ObstaclesBy(Writer)' = [ObstaclesBy(Writer) EXCEPT ![h.judged] = "denied"]
      BY <1>3, <1>4, <1>5, <2>2, <2>14, <3>1 DEF NewRow, Stored
    <3>3. Abstract!Deny(h.judged)
      BY <1>3, <1>5, <2>2, <2>5, <2>6, <2>14, <3>1, <3>2
      DEF Abstract!Deny, Abstract!Become, Abstract!Working, IsWorkable
    <3> QED
      BY <1>5, <2>14, <3>3 DEF Abstractly, Abstract!Next
  <2> QED
    BY <1>2, <1>7, <2>7, <2>8, <2>9, <2>10, <2>11, <2>12, <2>13, <2>14 DEF Op
<1> QED
  BY <1>6, <1>7

LEMMA SaveRowFresh ==
    ASSUME Inv, SerialInv, NEW c \in Request, SaveRow(c)
    PROVE  SerialInv' /\ Abstractly
  BY RowKeepsCopy, RowRefines, Serially DEF Abstractly

\* The week's row goes first, and with it the revised plan is seen.
LEMMA DropTasksFresh ==
    ASSUME Inv, SerialInv, NEW c \in Request, DropTasks(c)
    PROVE  SerialInv' /\ Abstractly
<1> DEFINE h == req[c]
           k == req'[c]
<1>1. /\ TypeOK /\ Others(c) /\ Fresh(h) /\ Fits(h) /\ h # Idle /\ h.pc = "droptasks"
      /\ Goto(c, "dropplan") /\ task' = "none"
      /\ UNCHANGED <<status, plan, evidence, obstacles, confirmed, public>>
  BY AloneAt DEF DropTasks
<1>2. /\ "dropplan" \in Statement /\ "dropplan" \in Saving /\ "droptasks" \in Saving
      /\ "dropplan" \in Replacing /\ "droptasks" \in Replacing
  BY DEF Statement, Saving, Replacing
<1>3. /\ Others(c)' /\ k # Idle /\ k.op = h.op /\ k.pc = "dropplan"
      /\ k.to = h.to /\ k.plan = h.plan /\ k.task = h.task
      /\ k.blockers = h.blockers /\ k.judged = h.judged
  BY <1>1, <1>2, GoOn
<1>4. /\ h.op = "replan" /\ FirstWrite("replan") = "droptasks"
      /\ ~ Busy(h) /\ Busy(req[c])'
  BY <1>1, <1>2, <1>3, FirstWrites DEF Fresh, Busy
<1>5. /\ status \in {"InProgress", "Reopened"} /\ h.to = "InProgress" /\ h.task = "open"
      /\ h.blockers = Stored /\ h.judged = None /\ h.plan # None /\ None \notin Obstacle
  BY <1>1, <1>2, <1>4, CasePlanAssumption
  DEF Fresh, Fits, Allowed, Brings, CopyOfPlan, CopyOfObstacles
<1>6. /\ evidence \in BOOLEAN /\ obstacles \in [Obstacle -> {"none", "pending"} \cup Verdict]
  BY <1>1 DEF TypeOK
<1>7. /\ StatusBy(Writer) = status /\ PlanBy(Writer) = task /\ EvidenceBy(Writer) = evidence
      /\ ObstaclesBy(Writer) = [o \in Obstacle |-> obstacles[o]]
      /\ WordBy(Writer) = confirmed /\ PublicBy(Writer) = public
  BY <1>1, <1>4, <1>6, Unseen
<1>8. /\ StatusBy(req[c])' = "InProgress" /\ PlanBy(req[c])' = "open"
      /\ PublicBy(req[c])' = "InProgress" /\ EvidenceBy(req[c])' = evidence
  BY <1>1, <1>3, <1>4, <1>5, <1>6 DEF StatusBy, PlanBy, PublicBy, EvidenceBy, Mirrors
<1>9. ObstaclesBy(req[c])' = [o \in Obstacle |-> obstacles[o]]
  BY <1>1, <1>3, <1>4, <1>5 DEF ObstaclesBy, NewRow, Stored
<1>10. WordBy(req[c])' = confirmed
  BY <1>1, <1>3, <1>4 DEF WordBy
<1>11. Abstract!Revise
  BY <1>3, <1>5, <1>7, <1>8, <1>9, <1>10, SeenAfter DEF Abstract!Revise, Abstract!Become
<1>12. CopyOfPlan(req[c])'
  BY <1>1, <1>3, <1>4, <1>5 DEF CopyOfPlan, Replacing, Saving
<1>13. CopyOfObstacles(req[c])'
  BY <1>1, <1>2, <1>3, <1>4, <1>5 DEF CopyOfObstacles, Stored
<1>14. Fresh(req[c])'
  BY <1>2, <1>3, <1>4, <1>12, <1>13 DEF Fresh
<1> QED
  BY <1>3, <1>11, <1>14, Serially DEF Abstractly, Abstract!Next

\* The other statements that write the plan and its week show nothing new.
LEMMA PlanHidden ==
    ASSUME Inv, SerialInv, NEW c \in Request,
           DropPlan(c) \/ NewPlan(c) \/ NewTask(c) \/ SavePlan(c) \/ SaveTask(c)
    PROVE  SerialInv' /\ Abstractly
<1> DEFINE h == req[c]
           k == req'[c]
<1>1. /\ TypeOK /\ Others(c) /\ Fresh(h) /\ Fits(h) /\ h # Idle /\ h.op \in Op
      /\ h.pc \in {"dropplan", "newplan", "newtask", "plan", "task"}
  BY AloneAt DEF DropPlan, NewPlan, NewTask, SavePlan, SaveTask
<1>2. UNCHANGED <<status, evidence, obstacles, confirmed, public>>
  BY DEF DropPlan, NewPlan, NewTask, SavePlan, SaveTask
<1>3. /\ h.pc \in Saving /\ h.plan # None /\ CopyOfPlan(h) /\ CopyOfObstacles(h)
      /\ h.task # "none" /\ h.op \notin {"open", "confirm"}
      /\ h.pc \in Replacing => h.op = "replan"
  BY <1>1 DEF Fresh, Fits, CopyOfPlan, Saving, Replacing
<1>4. Busy(h)
  BY <1>1, <1>3, FirstWrites DEF Busy, Replacing
<1>5. PICK at \in {"newplan", "newtask", "row", "task", "children"} :
         /\ Goto(c, at)
         /\ at = "newplan" => h.pc = "dropplan" /\ plan' = None /\ task' = "none"
         /\ at = "newtask" => h.pc = "newplan" /\ plan' = h.plan /\ task' = "none"
         /\ at = "row" => h.pc = "newtask" /\ plan' = h.plan /\ task' = "open"
         /\ at = "task" => h.pc = "plan" /\ plan' = h.plan /\ task' = task
         /\ at = "children" => h.pc = "task" /\ plan' = h.plan /\ task' = h.task
  <2>1. CASE DropPlan(c)
    BY <2>1 DEF DropPlan, At
  <2>2. CASE NewPlan(c)
    <3>1. plan = None /\ task = "none" /\ h.pc = "newplan"
      BY <1>3, <2>2 DEF NewPlan, At, CopyOfPlan
    <3> QED
      BY <2>2, <3>1 DEF NewPlan
  <2>3. CASE NewTask(c)
    <3>1. TaskFits(h) /\ plan = h.plan /\ h.pc = "newtask"
      BY <1>3, <2>3 DEF NewTask, At, CopyOfPlan, TaskFits
    <3> QED
      BY <2>3, <3>1 DEF NewTask
  <2>4. CASE SavePlan(c)
    <3>1. plan \in {None, h.plan} /\ h.pc = "plan"
      BY <1>3, <2>4 DEF SavePlan, At, CopyOfPlan
    <3> QED
      BY <1>3, <2>4, <3>1 DEF SavePlan
  <2>5. CASE SaveTask(c)
    <3>1. TaskFits(h) /\ plan = h.plan /\ h.pc = "task"
      BY <1>3, <2>5 DEF SaveTask, At, CopyOfPlan, TaskFits
    <3> QED
      BY <2>5, <3>1 DEF SaveTask
  <2> QED
    BY <2>1, <2>2, <2>3, <2>4, <2>5
<1>6. at \in Statement /\ at \in Saving /\ at \notin {"droptasks", "plan"}
  BY DEF Statement, Saving, Replacing
<1>7. /\ Others(c)' /\ k # Idle /\ k.op = h.op /\ k.pc = at
      /\ k.to = h.to /\ k.plan = h.plan /\ k.task = h.task
      /\ k.blockers = h.blockers /\ k.judged = h.judged
  BY <1>1, <1>5, <1>6, GoOn
<1>8. FirstWrite(h.op) # at
  BY <1>1, <1>3, <1>5, <1>6, FirstWrites DEF Replacing
<1>9. Busy(req[c])'
  BY <1>6, <1>7, <1>8 DEF Busy, Saving, Replacing
<1>10. CopyOfPlan(req[c])'
  BY <1>1, <1>3, <1>5, <1>6, <1>7, <1>8 DEF CopyOfPlan, Replacing
<1>11. CopyOfObstacles(req[c])'
  BY <1>2, <1>3, <1>6, <1>7 DEF CopyOfObstacles, Stored
<1>12. Fresh(req[c])'
  <2>1. k.pc \notin Replacing \cup {"row"} => status' = k.to
    BY <1>1, <1>2, <1>4, <1>5, <1>7 DEF Fresh, Replacing
  <2>2. k.pc \in Replacing => k.op = "replan"
    BY <1>3, <1>5, <1>7 DEF Replacing
  <2> QED
    BY <1>5, <1>7, <1>8, <1>10, <1>11, <2>1, <2>2 DEF Fresh
<1>13. /\ StatusBy(req[c])' = StatusBy(req[c])
       /\ EvidenceBy(req[c])' = EvidenceBy(req[c])
       /\ WordBy(req[c])' = WordBy(req[c])
       /\ PublicBy(req[c])' = PublicBy(req[c])
  BY <1>2, <1>4, <1>7, <1>9 DEF StatusBy, EvidenceBy, WordBy, PublicBy, Mirrors
<1>14. ObstaclesBy(req[c])' = ObstaclesBy(req[c])
  BY <1>2, <1>4, <1>7, <1>9 DEF ObstaclesBy, NewRow
<1>15. PlanBy(req[c])' = PlanBy(req[c])
  BY <1>1, <1>4, <1>5, <1>7, <1>9 DEF PlanBy
<1>16. UNCHANGED Abstract!vars
  BY <1>1, <1>7, <1>13, <1>14, <1>15, HiddenStep
<1> QED
  BY <1>7, <1>12, <1>16, Serially DEF Abstractly

\* The children of a copy: its Save is done, and the case row, the plan and the week are
\* as they will stay.
LEMMA SaveChildrenFresh ==
    ASSUME Inv, SerialInv, NEW c \in Request, SaveChildren(c)
    PROVE  SerialInv' /\ Abstractly
<1> DEFINE h == req[c]
           k == req'[c]
<1>1. /\ TypeOK /\ Others(c) /\ Fresh(h) /\ Fits(h) /\ h # Idle /\ h.pc = "children"
      /\ h.op \in Op /\ h.judged \in Obstacle \cup {None}
  BY AloneAt DEF SaveChildren
<1>2. /\ evidence' = (evidence \/ h.op = "evidence")
      /\ obstacles' = [o \in Obstacle |-> IF NewRow(h, o) THEN "pending" ELSE obstacles[o]]
      /\ IF AfterSave(h.op) = "audit" THEN Report(c) ELSE Goto(c, AfterSave(h.op))
      /\ UNCHANGED <<status, plan, task, confirmed, public>>
  BY DEF SaveChildren
<1>3. /\ h.pc \in Saving /\ CopyOfPlan(h) /\ CopyOfObstacles(h)
      /\ h.op \notin {"open", "confirm"} /\ None \notin Obstacle
      /\ Brings(h.op, h.to)
  BY <1>1, CasePlanAssumption DEF Fresh, Fits, Saving
<1>4. /\ evidence \in BOOLEAN /\ obstacles \in [Obstacle -> {"none", "pending"} \cup Verdict]
  BY <1>1 DEF TypeOK
<1>5. /\ FirstWrite(h.op) # "children" /\ FirstWrite(h.op) \notin {"verdict", "word", "mirror"}
      /\ Busy(h)
  BY <1>1, <1>3, FirstWrites DEF Busy
<1>6. status = h.to /\ plan = h.plan /\ task = h.task /\ (plan = None <=> task = "none")
  BY <1>1, <1>3, <1>5 DEF Fresh, CopyOfPlan, Replacing
<1>7. /\ h.op = "deny" => h.judged \in Obstacle /\ obstacles[h.judged] = "pending"
      /\ h.op # "deny" => h.judged = None
      /\ h.op = "deny" => \A o \in Obstacle : ~ NewRow(h, o)
  BY <1>3 DEF CopyOfObstacles, NewRow, Stored
<1>8. /\ StatusBy(h) = status /\ PlanBy(h) = task
      /\ EvidenceBy(h) = (evidence \/ h.op = "evidence")
      /\ PublicBy(h) = (IF Mirrors(h.op) THEN h.to ELSE public)
  BY <1>1, <1>5, <1>6 DEF StatusBy, PlanBy, EvidenceBy, PublicBy
<1>9. ObstaclesBy(h) = [o \in Obstacle |->
          IF h.op = "deny" /\ o = h.judged THEN VerdictOf(h.op) ELSE obstacles'[o]]
  BY <1>2, <1>3, <1>4, <1>5, <1>7 DEF ObstaclesBy
<1>10. Paired'
  BY <1>2, <1>6 DEF Paired
<1>11. ASSUME NEW at \in {"verdict", "word", "mirror"}, Goto(c, at),
              at = "verdict" <=> h.op = "deny"
       PROVE  SerialInv' /\ Abstractly
  <2>1. at \in Statement /\ at \notin Saving
    BY DEF Statement, Saving, Replacing
  <2>2. /\ Others(c)' /\ k # Idle /\ k.op = h.op /\ k.pc = at /\ k.to = h.to
        /\ k.blockers = {} /\ k.judged = IF h.op = "deny" THEN h.judged ELSE None
    BY <1>1, <1>7, <1>11, <2>1, GoOn
  <2>3. Busy(req[c])'
    BY <1>5, <2>2 DEF Busy
  <2>4. /\ StatusBy(req[c])' = StatusBy(h) /\ PlanBy(req[c])' = PlanBy(h)
        /\ EvidenceBy(req[c])' = EvidenceBy(h) /\ PublicBy(req[c])' = PublicBy(h)
    BY <1>2, <1>6, <1>8, <2>2, <2>3 DEF StatusBy, PlanBy, EvidenceBy, PublicBy, Mirrors
  <2>5. ObstaclesBy(req[c])' = ObstaclesBy(h)
    BY <1>3, <1>9, <2>2, <2>3 DEF ObstaclesBy, NewRow
  <2>6. WordBy(req[c])' = WordBy(h)
    BY <1>2, <1>5, <2>2, <2>3 DEF WordBy
  <2>7. UNCHANGED Abstract!vars
    BY <1>1, <2>2, <2>4, <2>5, <2>6, HiddenStep
  <2>8. CopyOfPlan(req[c])'
    BY <1>10, <2>1, <2>2 DEF CopyOfPlan, Replacing
  <2>9. CopyOfObstacles(req[c])'
    <3>1. h.op = "deny" => h.judged \in Obstacle /\ obstacles'[h.judged] = "pending"
      BY <1>2, <1>7
    <3>2. h.op # "confirm" /\ (at = "verdict" <=> h.op = "deny")
      BY <1>3, <1>11
    <3> QED
      BY <2>1, <2>2, <3>1, <3>2 DEF CopyOfObstacles
  <2>10. Fresh(req[c])'
    BY <1>2, <1>5, <1>6, <2>1, <2>2, <2>8, <2>9 DEF Fresh, Saving, Replacing
  <2> QED
    BY <2>2, <2>7, <2>10, Serially DEF Abstractly
<1>12. CASE AfterSave(h.op) # "audit"
  <2>1. /\ AfterSave(h.op) \in {"verdict", "word", "mirror"}
        /\ AfterSave(h.op) = "verdict" <=> h.op = "deny"
    BY <1>12 DEF AfterSave
  <2> QED
    BY <1>2, <1>11, <1>12, <2>1
<1>13. CASE AfterSave(h.op) = "audit"
  <2>1. h.op \notin {"deny", "solved", "reopen", "block", "progress", "replan", "done"}
    BY <1>13 DEF AfterSave
  <2>2. ~ Mirrors(h.op)
    BY <2>1 DEF Mirrors
  <2>3. Others(c)' /\ ~ Busy(req[c])'
    BY <1>1, <1>2, <1>13, ReportDone
  <2>4. /\ StatusBy(req[c])' = StatusBy(h) /\ PlanBy(req[c])' = PlanBy(h)
        /\ PublicBy(req[c])' = PublicBy(h)
    BY <1>2, <1>8, <2>2, <2>3 DEF StatusBy, PlanBy, PublicBy
  <2>5. ObstaclesBy(req[c])' = ObstaclesBy(h)
    BY <1>9, <2>1, <2>3 DEF ObstaclesBy
  <2>6. WordBy(req[c])' = WordBy(h)
    BY <1>2, <2>1, <2>3 DEF WordBy
  <2>7. EvidenceBy(req[c])' = EvidenceBy(h)
    BY <1>2, <1>4, <1>8, <2>3 DEF EvidenceBy
  <2>8. UNCHANGED Abstract!vars
    BY <1>1, <2>3, <2>4, <2>5, <2>6, <2>7, HiddenStep
  <2> QED
    BY <1>1, <1>2, <1>10, <1>13, <2>8, ReportFresh DEF Abstractly
<1> QED
  BY <1>12, <1>13

\* The verdict: of a denial it was seen with the row, of a confirmation it is all there is.
LEMMA JudgeFresh ==
    ASSUME Inv, SerialInv, NEW c \in Request, Judge(c)
    PROVE  SerialInv' /\ Abstractly
<1> DEFINE h == req[c]
           k == req'[c]
<1>1. /\ TypeOK /\ Others(c) /\ Fresh(h) /\ Fits(h) /\ h # Idle /\ h.pc = "verdict"
      /\ h.op \in {"confirm", "deny"} /\ h.op \in Op
  BY AloneAt DEF Judge, Fits
<1>2. /\ obstacles' = [obstacles EXCEPT ![h.judged] = VerdictOf(h.op)]
      /\ UNCHANGED <<status, plan, task, evidence, confirmed, public>>
  BY DEF Judge
<1>3. "verdict" \notin Saving
  BY DEF Saving, Replacing
<1>4. /\ h.judged \in Obstacle /\ obstacles[h.judged] = "pending" /\ h.blockers = {} /\ Paired
  BY <1>1, <1>3 DEF Fresh, CopyOfObstacles, CopyOfPlan
<1>5. /\ obstacles \in [Obstacle -> {"none", "pending"} \cup Verdict] /\ evidence \in BOOLEAN
      /\ None \notin Obstacle
  BY <1>1, CasePlanAssumption DEF TypeOK
<1>6. Paired'
  BY <1>2, <1>4 DEF Paired
<1>7. CASE h.op = "confirm"
  <2>1. Report(c) /\ ~ Busy(h) /\ VerdictOf(h.op) = "confirmed"
    BY <1>1, <1>7, FirstWrites DEF Judge, Busy, VerdictOf
  <2>2. Others(c)' /\ ~ Busy(req[c])'
    BY <1>1, <2>1, ReportDone
  <2>3. /\ StatusBy(req[c])' = StatusBy(h) /\ PlanBy(req[c])' = PlanBy(h)
        /\ EvidenceBy(req[c])' = EvidenceBy(h) /\ WordBy(req[c])' = WordBy(h)
        /\ PublicBy(req[c])' = PublicBy(h)
    BY <1>2, <2>1, <2>2 DEF StatusBy, PlanBy, EvidenceBy, WordBy, PublicBy
  <2>4. ObstaclesBy(h) = [o \in Obstacle |-> obstacles[o]]
    BY <2>1 DEF ObstaclesBy
  <2>5. ObstaclesBy(req[c])' = [ObstaclesBy(h) EXCEPT ![h.judged] = "confirmed"]
    BY <1>2, <1>4, <1>5, <2>1, <2>2, <2>4 DEF ObstaclesBy
  <2>6. Abstract!Uphold(h.judged)
    BY <1>1, <1>4, <2>2, <2>3, <2>4, <2>5, Seen, SeenAfter DEF Abstract!Uphold
  <2>7. [Abstract!Next]_(Abstract!vars)
    BY <1>4, <2>6 DEF Abstract!Next
  <2> QED
    BY <1>1, <1>6, <2>1, <2>7, ReportFresh DEF Abstractly
<1>8. CASE h.op = "deny"
  <2>1. Goto(c, "mirror") /\ "mirror" \in Statement /\ "mirror" \notin Saving
    BY <1>8 DEF Judge, Statement, Saving, Replacing
  <2>2. /\ Others(c)' /\ k # Idle /\ k.op = h.op /\ k.pc = "mirror" /\ k.to = h.to
        /\ k.blockers = {} /\ k.judged = None
    BY <1>1, <2>1, GoOn
  <2>3. FirstWrite("deny") = "row" /\ Busy(h) /\ Busy(req[c])'
    BY <1>1, <1>8, <2>2, FirstWrites DEF Busy
  <2>4. /\ StatusBy(req[c])' = StatusBy(h) /\ PlanBy(req[c])' = PlanBy(h)
        /\ EvidenceBy(req[c])' = EvidenceBy(h) /\ WordBy(req[c])' = WordBy(h)
        /\ PublicBy(req[c])' = PublicBy(h)
    BY <1>1, <1>2, <2>2, <2>3 DEF StatusBy, PlanBy, EvidenceBy, WordBy, PublicBy, Mirrors
  <2>5. ObstaclesBy(h) = [o \in Obstacle |->
            IF o = h.judged THEN VerdictOf(h.op) ELSE obstacles[o]]
    BY <1>4, <2>3 DEF ObstaclesBy, NewRow
  <2>6. ObstaclesBy(req[c])' = [o \in Obstacle |-> obstacles'[o]]
    BY <1>5, <2>2, <2>3 DEF ObstaclesBy, NewRow
  <2>7. ObstaclesBy(req[c])' = ObstaclesBy(h)
    BY <1>2, <1>4, <1>5, <2>5, <2>6
  <2>8. UNCHANGED Abstract!vars
    BY <1>1, <2>2, <2>4, <2>7, HiddenStep
  <2>9. Fresh(req[c])'
    <3>1. status = h.to
      BY <1>1, <1>3, <2>3 DEF Fresh, Saving, Replacing
    <3>2. CopyOfPlan(req[c])'
      BY <1>6, <2>1, <2>2 DEF CopyOfPlan, Replacing
    <3>3. CopyOfObstacles(req[c])'
      BY <2>1, <2>2 DEF CopyOfObstacles
    <3> QED
      BY <1>2, <1>8, <2>1, <2>2, <2>3, <3>1, <3>2, <3>3 DEF Fresh, Replacing
  <2> QED
    BY <2>2, <2>8, <2>9, Serially DEF Abstractly
<1> QED
  BY <1>1, <1>7, <1>8

\* The reporter's word, seen with the row.
LEMMA AddConfirmationFresh ==
    ASSUME Inv, SerialInv, NEW c \in Request, AddConfirmation(c)
    PROVE  SerialInv' /\ Abstractly
<1> DEFINE h == req[c]
           k == req'[c]
<1>1. /\ TypeOK /\ Others(c) /\ Fresh(h) /\ h # Idle /\ h.pc = "word"
      /\ h.op \in {"solved", "reopen"}
  BY AloneAt DEF AddConfirmation, Fits
<1>2. /\ confirmed' = confirmed \cup {IF h.op = "solved" THEN "solved" ELSE "not_solved"}
      /\ Goto(c, "mirror")
      /\ UNCHANGED <<status, plan, task, evidence, obstacles, public>>
  BY DEF AddConfirmation
<1>3. /\ "mirror" \in Statement /\ "mirror" \notin Saving /\ "word" \notin Saving
      /\ FirstWrite(h.op) = "row"
  BY <1>1, FirstWrites DEF Statement, Saving, Replacing, Op
<1>4. /\ Others(c)' /\ k # Idle /\ k.op = h.op /\ k.pc = "mirror" /\ k.to = h.to
      /\ k.blockers = {} /\ k.judged = None
  BY <1>1, <1>2, <1>3, GoOn
<1>5. Busy(h) /\ Busy(req[c])'
  BY <1>1, <1>3, <1>4 DEF Busy
<1>6. h.blockers = {} /\ h.judged = None /\ status = h.to /\ Paired /\ None \notin Obstacle
  BY <1>1, <1>3, <1>5, CasePlanAssumption
  DEF Fresh, CopyOfObstacles, CopyOfPlan, Saving, Replacing
<1>7. /\ StatusBy(req[c])' = StatusBy(h) /\ PlanBy(req[c])' = PlanBy(h)
      /\ EvidenceBy(req[c])' = EvidenceBy(h) /\ PublicBy(req[c])' = PublicBy(h)
  BY <1>1, <1>2, <1>4, <1>5 DEF StatusBy, PlanBy, EvidenceBy, PublicBy, Mirrors
<1>8. ObstaclesBy(req[c])' = ObstaclesBy(h)
  BY <1>2, <1>4, <1>5, <1>6 DEF ObstaclesBy, NewRow
<1>9. WordBy(req[c])' = WordBy(h)
  BY <1>1, <1>2, <1>4, <1>5 DEF WordBy
<1>10. UNCHANGED Abstract!vars
  BY <1>1, <1>4, <1>7, <1>8, <1>9, HiddenStep
<1>11. Fresh(req[c])'
  <2>1. CopyOfPlan(req[c])'
    BY <1>2, <1>3, <1>4, <1>6 DEF CopyOfPlan, Paired, Replacing
  <2>2. CopyOfObstacles(req[c])'
    BY <1>3, <1>4 DEF CopyOfObstacles
  <2> QED
    BY <1>2, <1>3, <1>4, <1>6, <2>1, <2>2 DEF Fresh, Replacing
<1> QED
  BY <1>4, <1>10, <1>11, Serially DEF Abstractly

\* The public record catches up with what is seen of it.
LEMMA MirrorFresh ==
    ASSUME Inv, SerialInv, ~ Faults, NEW c \in Request, Mirror(c)
    PROVE  SerialInv' /\ Abstractly
<1> DEFINE h == req[c]
<1>1. /\ TypeOK /\ Others(c) /\ Fresh(h) /\ h # Idle /\ h.pc = "mirror" /\ h.op \in Op
      /\ Mirrors(h.op)
  BY AloneAt DEF Mirror, Fits
<1>2. public' = h.to /\ Report(c) /\ UNCHANGED <<status, plan, task, evidence, obstacles, confirmed>>
  BY DEF Mirror, Face
<1>3. "mirror" \notin Saving /\ FirstWrite(h.op) # "mirror" /\ h.op \notin {"evidence", "confirm"}
  BY <1>1, FirstWrites DEF Saving, Replacing, Mirrors
<1>4. Busy(h)
  BY <1>1, <1>3 DEF Busy
<1>5. h.blockers = {} /\ h.judged = None /\ status = h.to /\ Paired /\ None \notin Obstacle
  BY <1>1, <1>3, <1>4, CasePlanAssumption
  DEF Fresh, CopyOfObstacles, CopyOfPlan, Saving, Replacing
<1>6. Others(c)' /\ ~ Busy(req[c])'
  BY <1>1, <1>2, ReportDone
<1>7. "solved" \in confirmed \/ h.op # "solved"
  BY <1>1, AtHand DEF Mirror, Backed, Caused
<1>8. "not_solved" \in confirmed \/ h.op # "reopen"
  BY <1>1, AtHand DEF Mirror, Backed, Caused
<1>9. /\ StatusBy(req[c])' = StatusBy(h) /\ PlanBy(req[c])' = PlanBy(h)
      /\ PublicBy(req[c])' = PublicBy(h)
  BY <1>1, <1>2, <1>4, <1>5, <1>6 DEF StatusBy, PlanBy, PublicBy
<1>10. ObstaclesBy(req[c])' = ObstaclesBy(h)
  BY <1>2, <1>4, <1>5, <1>6 DEF ObstaclesBy, NewRow
<1>11. WordBy(req[c])' = WordBy(h)
  BY <1>2, <1>4, <1>6, <1>7, <1>8 DEF WordBy
<1>12. EvidenceBy(req[c])' = EvidenceBy(h)
  BY <1>1, <1>2, <1>3, <1>4, <1>6 DEF EvidenceBy, TypeOK
<1>13. UNCHANGED Abstract!vars
  BY <1>1, <1>6, <1>9, <1>10, <1>11, <1>12, HiddenStep
<1>14. Paired'
  BY <1>2, <1>5 DEF Paired
<1> QED
  BY <1>1, <1>2, <1>13, <1>14, ReportFresh DEF Abstractly

\* Nothing of the trail is seen of the case.
LEMMA TrailFresh ==
    ASSUME Inv, SerialInv, NEW c \in Request, AppendAudit(c) \/ Tell(c)
    PROVE  SerialInv' /\ Abstractly
<1> DEFINE h == req[c]
           k == req'[c]
<1>1. /\ TypeOK /\ Others(c) /\ Fresh(h) /\ h # Idle /\ h.pc \in {"audit", "tell"}
  BY AloneAt DEF AppendAudit, Tell
<1>2. UNCHANGED rows /\ (Finish(c) \/ Goto(c, "tell"))
  BY DEF AppendAudit, Tell
<1>3. "tell" \in Statement /\ "tell" \notin Saving /\ "audit" \notin Saving
  BY DEF Statement, Saving, Replacing
<1>4. /\ Others(c)'
      /\ k = Idle \/ (k # Idle /\ k.pc = "tell" /\ k.blockers = {} /\ k.judged = None)
  BY <1>1, <1>2, <1>3, GoOn, Ends
<1>5. ~ Busy(h) /\ ~ Busy(req[c])'
  BY <1>1, <1>4 DEF Busy
<1>6. /\ StatusBy(req[c])' = StatusBy(h) /\ PlanBy(req[c])' = PlanBy(h)
      /\ EvidenceBy(req[c])' = EvidenceBy(h) /\ PublicBy(req[c])' = PublicBy(h)
      /\ ObstaclesBy(req[c])' = ObstaclesBy(h) /\ WordBy(req[c])' = WordBy(h)
  BY <1>2, <1>5 DEF StatusBy, PlanBy, EvidenceBy, PublicBy, ObstaclesBy, WordBy, rows
<1>7. UNCHANGED Abstract!vars
  BY <1>1, <1>4, <1>6, HiddenStep
<1>8. Paired'
  BY <1>1, <1>2, <1>3 DEF Fresh, CopyOfPlan, Paired, rows
<1>9. ASSUME k # Idle PROVE Fresh(req[c])'
  <2>1. FirstWrite(k.op) # "tell"
    BY DEF FirstWrite
  <2> QED
    BY <1>3, <1>4, <1>5, <1>8, <1>9, <2>1 DEF Fresh, CopyOfPlan, CopyOfObstacles, Replacing
<1> QED
  BY <1>4, <1>7, <1>8, <1>9, Serially DEF Abstractly

LEMMA SerialStep ==
    ASSUME Serial, ~ Faults, Inv, SerialInv, Next
    PROVE  SerialInv' /\ Abstractly
<1>1. PICK c \in Request : Load(c) \/ Step(c)
  BY DEF Next, Die
<1>2. CASE Load(c)
  BY <1>2, LoadFresh DEF Abstractly
<1>3. CASE Step(c)
  BY <1>3, InsertFresh, DropTasksFresh, PlanHidden, SaveRowFresh, SaveChildrenFresh, JudgeFresh,
     AddConfirmationFresh, MirrorFresh, TrailFresh DEF Step
<1> QED
  BY <1>1, <1>2, <1>3

\* SerialInv: while requests on the case take turns and none dies, a request's copy stays
\* that of the rows, and what is seen of the case is in step.
THEOREM SerialInvariance ==
    ASSUME Serial, ~ Faults
    PROVE  Spec => []SerialInv
<1>1. Init => SerialInv
  <2> SUFFICES ASSUME Init PROVE SerialInv
    OBVIOUS
  <2>1. \A c \in Request : req[c] = Idle
    BY DEF Init
  <2>2. OneAtATime /\ Paired
    BY <2>1 DEF Init, OneAtATime, Paired
  <2>3. Writing = {}
    BY <2>1 DEF Writing, Busy
  <2>4. ~ Busy(Writer)
    BY <2>3 DEF Writer, Busy
  <2>5. InStep(Writer)
    BY <2>4 DEF Init, InStep, StatusBy, PlanBy, PublicBy, ObstaclesBy, FaceOf
  <2> QED
    BY <2>1, <2>2, <2>5 DEF SerialInv
<1>2. Inv /\ SerialInv /\ [Next]_vars => SerialInv'
  <2> SUFFICES ASSUME Inv, SerialInv, [Next]_vars PROVE SerialInv'
    OBVIOUS
  <2>1. CASE Next
    BY <2>1, SerialStep
  <2>2. CASE UNCHANGED vars
    <3>1. Writer' = Writer
      BY <2>2 DEF vars, Writer, Writing, Busy
    <3>2. InStep(Writer)'
      BY <2>2, <3>1 DEF vars, SerialInv, InStep, StatusBy, PlanBy, PublicBy, ObstaclesBy, Busy,
                        NewRow
    <3>3. ASSUME NEW c \in Request, req'[c] # Idle PROVE Fresh(req[c])'
      BY <2>2, <3>3 DEF vars, SerialInv, Fresh, Allowed, CopyOfPlan, CopyOfObstacles, Paired,
                        Busy, Stored
    <3> QED
      BY <2>2, <3>2, <3>3 DEF vars, SerialInv, OneAtATime, Quiet, Paired
  <2> QED
    BY <2>1, <2>2
<1> QED
  BY <1>1, <1>2, Invariance, PTL DEF Spec

\* KeepsTheCase: one SQL statement at a time, the case does what CaseRecord does in whole
\* operations.
THEOREM CaseIsKept ==
    ASSUME Serial, ~ Faults
    PROVE  Spec => KeepsTheCase
<1>1. Init => Abstract!Init
  <2> SUFFICES ASSUME Init PROVE Abstract!Init
    OBVIOUS
  <2>1. Writing = {}
    BY DEF Init, Writing, Busy
  <2>2. ~ Busy(Writer)
    BY <2>1 DEF Writer, Busy
  <2>3. /\ StatusBy(Writer) = status /\ PlanBy(Writer) = task /\ PublicBy(Writer) = public
        /\ EvidenceBy(Writer) = FALSE /\ WordBy(Writer) = {}
        /\ ObstaclesBy(Writer) = [o \in Obstacle |-> obstacles[o]]
    BY <2>2 DEF Init, StatusBy, PlanBy, PublicBy, EvidenceBy, WordBy, ObstaclesBy
  <2> QED
    BY <2>3 DEF Init, Abstract!Init
<1>2. Inv /\ SerialInv /\ [Next]_vars => [Abstract!Next]_(Abstract!vars)
  <2> SUFFICES ASSUME Inv, SerialInv, [Next]_vars PROVE [Abstract!Next]_(Abstract!vars)
    OBVIOUS
  <2>1. CASE Next
    BY <2>1, SerialStep DEF Abstractly
  <2>2. CASE UNCHANGED vars
    <3>1. Writer' = Writer
      BY <2>2 DEF vars, Writer, Writing, Busy
    <3>2. /\ UNCHANGED <<StatusBy(Writer), PlanBy(Writer), EvidenceBy(Writer)>>
          /\ UNCHANGED <<ObstaclesBy(Writer), WordBy(Writer), PublicBy(Writer)>>
      BY <2>2, <3>1 DEF vars, StatusBy, PlanBy, EvidenceBy, ObstaclesBy, WordBy, PublicBy, Busy,
                        NewRow, Mirrors
    <3> QED
      BY <3>2 DEF Abstract!vars
  <2> QED
    BY <2>1, <2>2
<1> QED
  BY <1>1, <1>2, Invariance, SerialInvariance, PTL DEF Spec, KeepsTheCase, Abstract!Spec

\* InStepWhenQuiet: between requests a blocked case has an obstacle to judge, the public
\* record shows the case as it is, and work has its plan.
THEOREM CaseIsInStep ==
    ASSUME Serial, ~ Faults
    PROVE  Spec => []InStepWhenQuiet
<1>1. SerialInv => InStepWhenQuiet
  <2> SUFFICES ASSUME SerialInv, Quiet
               PROVE  /\ status = "Blocked" => Unresolved # {}
                      /\ public = FaceOf(status)
                      /\ IsWorkable(status) => plan # None /\ task # "none"
    BY DEF InStepWhenQuiet, BlockedIsNeverParked, PublicInStep, PlanExistsWhileWorked
  <2>1. status = "Blocked" => Unresolved # {}
    BY Calm DEF Unresolved
  <2>2. IsWorkable(status) => plan # None /\ task # "none"
    BY Calm DEF IsWorkable, Paired
  <2> QED
    BY <2>1, <2>2, Calm
<1> QED
  BY <1>1, SerialInvariance, PTL

\* NothingIsTakenBack: no request in its turn takes back a week checked off or a verdict.
THEOREM NothingGoesBack ==
    ASSUME Serial, ~ Faults
    PROVE  Spec => NothingIsTakenBack
<1>1. ASSUME Inv, SerialInv, Next, task = "done", plan' = plan PROVE task' # "open"
  <2>1. ASSUME NEW c \in Request, NewTask(c) PROVE FALSE
    <3>1. Fresh(req[c]) /\ req[c].pc = "newtask"
      BY <1>1, <2>1, AloneAt DEF NewTask
    <3> QED
      BY <1>1, <3>1 DEF Fresh, CopyOfPlan
  <2>2. ASSUME NEW c \in Request, SaveTask(c) PROVE task' = "done"
    <3>1. Fresh(req[c]) /\ req[c].pc = "task"
      BY <1>1, <2>2, AloneAt DEF SaveTask
    <3>2. req[c].task = "done"
      BY <1>1, <3>1 DEF Fresh, CopyOfPlan
    <3> QED
      BY <1>1, <2>2, <3>2 DEF SaveTask
  <2>3. ASSUME NEW c \in Request, Step(c), ~ NewTask(c), ~ SaveTask(c) PROVE task' # "open"
    BY <1>1, <2>3 DEF Step, Insert, DropTasks, DropPlan, NewPlan, SaveRow, SavePlan,
                      SaveChildren, Judge, AddConfirmation, Mirror, AppendAudit, Tell, rows
  <2>4. ASSUME NEW c \in Request, Load(c) \/ Die(c) PROVE task' = task
    BY <2>4 DEF Load, LoadOpen, LoadAcknowledge, LoadPlan, LoadReplan, LoadTick, LoadProgress,
                LoadNote, LoadBlock, LoadEvidence, LoadDone, LoadConfirm, LoadUphold, LoadDeny,
                Moved, Begin, Die, rows
  <2> QED
    BY <1>1, <2>1, <2>2, <2>3, <2>4 DEF Next
<1>2. ASSUME Inv, SerialInv, Next, NEW o \in Obstacle, obstacles[o] \in Verdict
      PROVE  obstacles'[o] = obstacles[o]
  <2>1. obstacles \in [Obstacle -> {"none", "pending"} \cup Verdict]
    BY <1>2 DEF Inv, TypeOK
  <2>2. ASSUME NEW c \in Request, SaveChildren(c) PROVE obstacles'[o] = obstacles[o]
    BY <1>2, <2>1, <2>2 DEF SaveChildren, NewRow, Verdict
  <2>3. ASSUME NEW c \in Request, Judge(c) PROVE obstacles'[o] = obstacles[o]
    <3>1. Fresh(req[c]) /\ Fits(req[c]) /\ req[c].pc = "verdict"
      BY <1>2, <2>3, AloneAt DEF Judge
    <3>2. obstacles[req[c].judged] = "pending"
      BY <3>1 DEF Fresh, Fits, CopyOfObstacles
    <3> QED
      BY <1>2, <2>1, <2>3, <3>2 DEF Judge, Verdict
  <2>4. ASSUME NEW c \in Request, Step(c), ~ SaveChildren(c), ~ Judge(c)
        PROVE  obstacles' = obstacles
    BY <2>4 DEF Step, Insert, DropTasks, DropPlan, NewPlan, NewTask, SaveRow, SavePlan, SaveTask,
                AddConfirmation, Mirror, AppendAudit, Tell, rows
  <2>5. ASSUME NEW c \in Request, Load(c) \/ Die(c) PROVE obstacles' = obstacles
    BY <2>5 DEF Load, LoadOpen, LoadAcknowledge, LoadPlan, LoadReplan, LoadTick, LoadProgress,
                LoadNote, LoadBlock, LoadEvidence, LoadDone, LoadConfirm, LoadUphold, LoadDeny,
                Moved, Begin, Die, rows
  <2> QED
    BY <1>2, <2>2, <2>3, <2>4, <2>5 DEF Next
<1>3. Inv /\ SerialInv /\ [Next]_vars =>
        [task = "done" /\ plan' = plan => task' # "open"]_vars
  BY <1>1
<1>4. Inv /\ SerialInv /\ [Next]_vars =>
        [\A o \in Obstacle : obstacles[o] \in Verdict => obstacles'[o] = obstacles[o]]_vars
  BY <1>2
<1> QED
  BY <1>3, <1>4, Invariance, SerialInvariance, PTL
  DEF Spec, NothingIsTakenBack, TickIsKept, VerdictStands
=============================================================================
