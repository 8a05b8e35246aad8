--------------------------- MODULE CaseRefinement ---------------------------
(***************************************************************************)
(* CaseLifecycle implements CaseRecord while requests on the case do not    *)
(* overlap and none dies half-way.  A use case takes its abstract step at    *)
(* its first write: from then on the record is seen as that request will     *)
(* leave it.                                                                 *)
(***************************************************************************)
EXTENDS CaseLifecycle

FirstWrite(o) ==
    CASE o = "open" -> "insert"
      [] o = "replan" -> "droptasks"
      [] o = "confirm" -> "verdict"
      [] OTHER -> "row"

\* By its audit entry a request has written every row.
Busy(h) == h # Idle /\ h.pc \notin {FirstWrite(h.op), "audit", "tell"}
Writing == {c \in Request : Busy(req[c])}
Writer == IF Writing = {} THEN Idle ELSE req[CHOOSE c \in Writing : TRUE]

\* What each column holds once a request that is writing has written it.
StatusBy(h) == IF Busy(h) THEN h.to ELSE status
PlanBy(h) == IF Busy(h) /\ h.pc \notin {"verdict", "word", "mirror"} THEN h.task ELSE task
EvidenceBy(h) == evidence \/ (Busy(h) /\ h.op = "evidence")
ObstaclesBy(h) == [o \in Obstacle |->
    IF Busy(h) /\ o = h.judged THEN VerdictOf(h.op)
    ELSE IF Busy(h) /\ NewRow(h, o) THEN "pending" ELSE obstacles[o]]
WordBy(h) == confirmed \cup
    {w \in {"solved", "not_solved"} :
        Busy(h) /\ h.op = IF w = "solved" THEN "solved" ELSE "reopen"}
PublicBy(h) == IF Busy(h) /\ Mirrors(h.op) THEN h.to ELSE public

Abstract == INSTANCE CaseRecord WITH
    status <- StatusBy(Writer), plan <- PlanBy(Writer), evidence <- EvidenceBy(Writer),
    obstacles <- ObstaclesBy(Writer), word <- WordBy(Writer), public <- PublicBy(Writer)

\* A case behaves as CaseRecord says: it follows the state machine, its plan, evidence
\* and obstacles change only where that allows, each obstacle is judged once, and the
\* public record moves with it.
KeepsTheCase == Abstract!Spec

-----------------------------------------------------------------------------
(* Why it does: with one request at a time, the copy a request will save is of *)
(* the rows as they are, but for what the request itself brings.              *)

OneAtATime == \A c, d \in Request : req[c] # Idle /\ req[d] # Idle => c = d

\* The state machine let the request begin, and nothing was written since.
Allowed(h) ==
    /\ h.op = "open" => status = "NoCase" /\ h.to = "Assigned"
    /\ h.op \in {"accept", "dispute"} =>
          status = "Assigned" /\ h.to = IF h.op = "accept" THEN "Acknowledged" ELSE "Disputed"
    /\ h.op = "plan" => status = "Acknowledged" /\ h.to = "Planned" /\ h.task = "open"
    /\ h.op = "replan" => status \in {"InProgress", "Reopened"}
    /\ h.op \in {"tick", "note", "evidence"} => IsWorkable(status) /\ h.to = status
    /\ h.op \in {"progress", "deny"} => IsWorkable(status)
    /\ h.op = "block" => status \in {"Planned", "InProgress"}
    /\ h.op = "done" => status = "InProgress" /\ evidence
    /\ h.op \in {"solved", "reopen"} => status = "Done"
    /\ h.op = "tick" => h.task = "done"
    /\ h.op \notin {"open", "confirm", "plan", "replan", "tick"} => h.task = task

\* A plan row has its week.
Paired == plan = None <=> task = "none"

CopyOfPlan(h) ==
    /\ h.pc \in Saving => (h.plan = None <=> h.task = "none")
    /\ h.pc \in Saving /\ h.op = "replan" => h.task = "open"
    /\ h.pc \in {"dropplan", "newplan", "newtask"} => task = "none"
    /\ h.pc = "newplan" => plan = None
    /\ h.pc = "newtask" => plan = h.plan
    /\ h.pc = "row" => plan = IF h.op = "plan" THEN None ELSE h.plan
    /\ h.pc = "row" /\ h.op = "replan" => task = "open"
    /\ h.pc = "plan" => plan \in {None, h.plan}
    /\ h.pc = "task" => plan = h.plan
    /\ h.pc \in {"row", "plan", "task"} => h.task = "done" \/ task # "done"
    /\ h.pc = "children" => plan = h.plan /\ task = h.task
    /\ h.pc \notin Saving \/ h.pc = FirstWrite(h.op) => Paired

CopyOfObstacles(h) ==
    /\ h.pc \in Saving /\ h.op # "block" => h.blockers = Stored
    /\ h.pc \in Saving /\ h.op = "block" =>
          \E o \in Obstacle \ Stored : h.blockers = Stored \cup {o}
    /\ h.pc \notin Saving => h.blockers = {}
    /\ h.op \in {"confirm", "deny"} /\ h.pc \in Saving \cup {"verdict"} =>
          h.judged \in Obstacle /\ obstacles[h.judged] = "pending"
    /\ h.op \notin {"confirm", "deny"} \/ h.pc \notin Saving \cup {"verdict"} => h.judged = None

Fresh(h) ==
    /\ h.pc = "insert" => h.op = "open"
    /\ h.pc \in Replacing => h.op = "replan"
    /\ h.pc = FirstWrite(h.op) => Allowed(h)
    /\ Busy(h) /\ h.pc \notin Replacing \cup {"row"} => status = h.to
    /\ CopyOfPlan(h) /\ CopyOfObstacles(h)

\* The case as it is seen: its public face, its plan and its obstacles fit its status.
InStep(h) ==
    /\ PublicBy(h) = FaceOf(StatusBy(h))
    /\ PlanBy(h) = "none" <=> StatusBy(h) \in {"NoCase", "Assigned", "Acknowledged", "Disputed"}
    /\ StatusBy(h) = "Blocked" =>
          \E o \in Obstacle : ObstaclesBy(h)[o] \in {"pending", "confirmed"}

\* With Inv, inductive as long as requests on the case take turns and none dies.
SerialInv ==
    /\ OneAtATime
    /\ \A c \in Request : req[c] # Idle => Fresh(req[c])
    /\ Quiet => Paired
    /\ InStep(Writer)
=============================================================================
