-------------------------------- MODULE Judgment --------------------------------
(***************************************************************************)
(* What the public sees of an official's obstacles and says of them: the advisory *)
(* vote, the community's unblocking plans, and the fairness rule by which a case  *)
(* waiting on a higher authority does not count against its official.             *)
(*                                                                           *)
(* The residents' requests are taken statement by statement.  The official's and  *)
(* the adjudicator's handlers are one action each: CaseLifecycle takes those       *)
(* apart, and what their overlaps do to a case is said there.  Evidence is not told *)
(* apart, and the report is not erased (Voices).                                    *)
(***************************************************************************)
EXTENDS Naturals, FiniteSets, Sequences

CONSTANTS
    Resident,       \* verified residents of the report's union
    Unblocking,     \* unblocking plans that may be proposed
    Speaking,       \* requests of residents that may be under way at once
    MaxObstacles    \* obstacles of the case (the code has no bound)

ASSUME JudgmentAssumption == MaxObstacles \in Nat

Silent == [pc |-> "silent"]
Choice == {"real", "not_convinced"}

VARIABLES
    work,       \* cases.status; "Disputed" is a case its official never took
    obstacles,  \* obstacles.adjudication, in order of created_at; denied = resolved_at set
    ballots,    \* obstacle_votes
    plans,      \* unblocking_plans: the obstacle each is about, 0 if not proposed
    supports,   \* unblocking_plan_votes
    speaking

judgment == <<work, obstacles, ballots, plans, supports, speaking>>

JudgmentInit ==
    /\ work \in {"Planned", "Disputed"}
    /\ obstacles = <<>>
    /\ ballots = {}
    /\ plans = [p \in Unblocking |-> 0]
    /\ supports = {}
    /\ speaking = [c \in Speaking |-> Silent]

Said(c, pc) == speaking[c].pc = pc
Answer(c, h) == speaking' = [speaking EXCEPT ![c] = h]

-----------------------------------------------------------------------------
(* The rules.  Bug... operators stand for no code: each is a plausible slip in the   *)
(* definition after it.                                                         *)

Open == {i \in DOMAIN obstacles : obstacles[i] # "denied"}
Greatest(S) == CHOOSE i \in S : \A j \in S : j <= i

\* Case.ActiveObstacle: the latest unresolved one; 0 if there is none.
BugOldestWins == IF Open = {} THEN 0 ELSE CHOOSE i \in Open : \A j \in Open : i <= j
ActiveObstacle == IF Open = {} THEN 0 ELSE Greatest(Open)

\* caseFactSelect: the verdict on the latest row with no resolved_at, or ''.
BugOldestVerdict == IF Open = {} THEN "" ELSE obstacles[CHOOSE i \in Open : \A j \in Open : i <= j]
ActiveBlocker == IF Open = {} THEN "" ELSE obstacles[Greatest(Open)]

\* classify, over that projection.
BugAsksTheCrowd ==
    IF work = "Resolved" THEN "resolved"
    ELSE IF work = "Blocked" /\ \E b \in ballots : b[1] = ActiveObstacle /\ b[3] = "real" THEN "blocked"
    ELSE IF work = "Disputed" THEN "skip"
    ELSE "pending"
Bucket ==
    IF work = "Resolved" THEN "resolved"
    ELSE IF work = "Blocked" /\ ActiveBlocker = "confirmed" THEN "blocked"
    ELSE IF work = "Disputed" THEN "skip"
    ELSE "pending"

\* FairnessFlag, over RecordByOfficial's projection, which is the same.
FairnessFlag == work = "Blocked" /\ ActiveBlocker = "confirmed"

\* The resolution context's own statement of it, for the case pages.
BlockedOnHigherAuthority ==
    /\ ActiveObstacle # 0
    /\ work = "Blocked"
    /\ obstacles[ActiveObstacle] = "confirmed"

-----------------------------------------------------------------------------
(* The case. *)

Case(w, o) ==
    /\ work' = w /\ obstacles' = o
    /\ UNCHANGED <<ballots, plans, supports, speaking>>

\* ReportObstacle.
Block ==
    /\ work \in {"Planned", "InProgress"} /\ Len(obstacles) < MaxObstacles
    /\ Case("Blocked", Append(obstacles, "pending"))

\* PostUpdate, and RevisePlan of a reopened case; a case's obstacles stay open.
Resume == work \in {"Planned", "Blocked", "Reopened"} /\ Case("InProgress", obstacles)

MarkDone == work = "InProgress" /\ Case("Done", obstacles)
Confirm == work = "Done" /\ \E w \in {"Resolved", "Reopened"} : Case(w, obstacles)

\* AdjudicateObstacle: any pending obstacle, not only the active one.
Uphold(i) ==
    /\ obstacles[i] = "pending"
    /\ Case(work, [obstacles EXCEPT ![i] = "confirmed"])

\* A denial resumes the work, if the lifecycle lets work progress.
Deny(i) ==
    /\ obstacles[i] = "pending"
    /\ work \in {"Planned", "InProgress", "Blocked", "Reopened"}
    /\ Case("InProgress", [obstacles EXCEPT ![i] = "denied"])

-----------------------------------------------------------------------------
(* The residents. *)

\* VoteObstacle reads the active obstacle, whatever the case's status.
Vote(c, v, choice) ==
    /\ Said(c, "silent") /\ ActiveObstacle # 0
    /\ Answer(c, [pc |-> "cast", by |-> v, on |-> ActiveObstacle, choice |-> choice])
    /\ UNCHANGED <<work, obstacles, ballots, plans, supports>>

\* AddObstacleVote: UNIQUE (obstacle_id, voter_id) refuses a second word.
BugUpserts(h) == {b \in ballots : ~ (b[1] = h.on /\ b[2] = h.by)} \cup {<<h.on, h.by, h.choice>>}
BugKeepsBoth(h) == ballots \cup {<<h.on, h.by, h.choice>>}
WithBallot(h) ==
    IF \E b \in ballots : b[1] = h.on /\ b[2] = h.by THEN ballots
    ELSE ballots \cup {<<h.on, h.by, h.choice>>}

\* The audit entry and the reload that answers follow and change no table here.
Cast(c) ==
    /\ Said(c, "cast")
    /\ ballots' = WithBallot(speaking[c])
    /\ Answer(c, Silent)
    /\ UNCHANGED <<work, obstacles, plans, supports>>

\* ProposeUnblockingPlan, for the obstacle active when it was loaded.
ProposeUnblocking(c, p) ==
    /\ Said(c, "silent") /\ plans[p] = 0 /\ ActiveObstacle # 0
    /\ \A d \in Speaking : ~ (Said(d, "store") /\ speaking[d].plan = p)
    /\ Answer(c, [pc |-> "store", plan |-> p, on |-> ActiveObstacle])
    /\ UNCHANGED <<work, obstacles, ballots, plans, supports>>

Store(c) ==
    /\ Said(c, "store")
    /\ plans' = [plans EXCEPT ![speaking[c].plan] = speaking[c].on]
    /\ Answer(c, Silent)
    /\ UNCHANGED <<work, obstacles, ballots, supports>>

\* ToggleUnblockingUpvote looks for the upvote, then deletes or inserts it.
Support(c, v, p) ==
    /\ Said(c, "silent") /\ plans[p] # 0
    /\ Answer(c, [pc |-> "toggle", by |-> v, plan |-> p, has |-> <<v, p>> \in supports])
    /\ UNCHANGED <<work, obstacles, ballots, plans, supports>>

ToggleSupport(c) ==
    LET h == speaking[c] IN
    /\ Said(c, "toggle")
    /\ supports' = IF h.has THEN supports \ {<<h.by, h.plan>>} ELSE supports \cup {<<h.by, h.plan>>}
    /\ Answer(c, Silent)
    /\ UNCHANGED <<work, obstacles, ballots, plans>>

JudgmentNext ==
    \/ Block \/ Resume \/ MarkDone \/ Confirm
    \/ \E i \in DOMAIN obstacles : Uphold(i) \/ Deny(i)
    \/ \E c \in Speaking :
        \/ \E v \in Resident, choice \in Choice : Vote(c, v, choice)
        \/ Cast(c) \/ Store(c) \/ ToggleSupport(c)
        \/ \E p \in Unblocking : ProposeUnblocking(c, p) \/ \E v \in Resident : Support(c, v, p)

JudgmentSpec == JudgmentInit /\ [][JudgmentNext]_judgment

-----------------------------------------------------------------------------
(* Properties. *)

Speech ==
    {Silent}
    \cup [pc : {"cast"}, by : Resident, on : 1..MaxObstacles, choice : Choice]
    \cup [pc : {"store"}, plan : Unblocking, on : 1..MaxObstacles]
    \cup [pc : {"toggle"}, by : Resident, plan : Unblocking, has : BOOLEAN]

\* Ballots and unblocking plans are about obstacles that were declared, one ballot each.
JudgmentTypeOK ==
    /\ work \in {"Planned", "InProgress", "Blocked", "Done", "Resolved", "Reopened", "Disputed"}
    /\ obstacles \in Seq({"pending", "confirmed", "denied"})
    /\ Len(obstacles) <= MaxObstacles
    /\ ballots \subseteq (DOMAIN obstacles) \X Resident \X Choice
    /\ \A b, d \in ballots : b[1] = d[1] /\ b[2] = d[2] => b = d
    /\ plans \in [Unblocking -> {0} \cup (DOMAIN obstacles)]
    /\ supports \subseteq {s \in Resident \X Unblocking : plans[s[2]] # 0}
    /\ speaking \in [Speaking -> Speech]

\* case.go:104-117: three statements of the fairness rule, two over SQL and one over
\* the aggregate, give one answer whatever the obstacles' history.
OneRule == (Bucket = "blocked" <=> FairnessFlag) /\ (FairnessFlag <=> BlockedOnHigherAuthority)

\* fairness.go:4-6: a case is excused only while the obstacle its official declared last
\* was judged real: neither an older excuse nor one denied since covers for it.
ShieldIsEarned ==
    Bucket = "blocked" => work = "Blocked" /\ obstacles[Len(obstacles)] = "confirmed"

\* vote_obstacle.go:11-14: what residents say of an obstacle, in any number and order,
\* moves neither the case nor the bucket it is counted in.
PressureOnly == [][UNCHANGED <<work, obstacles>> => Bucket' = Bucket]_judgment

\* One word each: a ballot is never changed by another request of its voter, even one
\* that found the same obstacle open.
FirstWordStands == [][ballots \subseteq ballots']_judgment

\* One rule in three wordings, and no excuse but the last obstacle's (fairness.go:4).
ExcuseIsEarned == JudgmentTypeOK /\ OneRule /\ ShieldIsEarned

\* Residents' words about an obstacle are kept, and are pressure only.
WordsArePressure == PressureOnly /\ FirstWordStands
=============================================================================
