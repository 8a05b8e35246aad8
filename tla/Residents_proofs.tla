----------------------------- MODULE Residents_proofs -----------------------------
(***************************************************************************)
(* Proofs about what residents say.  Of Judgment, for any number of residents,    *)
(* requests, obstacles and unblocking plans: the three wordings of the fairness    *)
(* rule agree and excuse nobody unearned, and residents' words are pressure only.   *)
(* Of Voices, for any voters, suggestions and requests: only its voter moves an      *)
(* upvote, what a voter was told of it is so, and the question a plan answers is      *)
(* the one that leads.                                                           *)
(***************************************************************************)
EXTENDS Judgment, Voices, TLAPS, FiniteSetTheorems, Maximum

-----------------------------------------------------------------------------
(* Judgment. *)

\* What a request in flight relies on: the obstacle it read is on the case for good, and
\* the plan it is about is stored.
Fits(h) ==
    /\ h.pc \in {"cast", "store"} => h.on \in DOMAIN obstacles
    /\ h.pc = "toggle" => plans[h.plan] # 0
\* A blocked case waits on the obstacle declared last.
WaitsOnLast == work = "Blocked" => obstacles # <<>> /\ obstacles[Len(obstacles)] # "denied"

JudgmentInv ==
    /\ JudgmentTypeOK
    /\ \A c \in Speaking : Fits(speaking[c])
    /\ WaitsOnLast

-----------------------------------------------------------------------------
(* The rules. *)

LEMMA ActiveIsDeclared ==
    ASSUME JudgmentTypeOK, ActiveObstacle # 0
    PROVE  ActiveObstacle \in Open /\ Open # {}
<1>1. Open # {}
  BY DEF ActiveObstacle
<1>2. Len(obstacles) \in Nat /\ Open \in SUBSET (0..Len(obstacles))
  BY DEF Open, JudgmentTypeOK
<1>3. \E i \in Open : \A j \in Open : j <= i
  BY <1>1, <1>2, GreatestExists
<1> QED
  BY <1>1, <1>3 DEF ActiveObstacle, Greatest

LEMMA LastIsActive ==
    ASSUME JudgmentTypeOK, WaitsOnLast, work = "Blocked"
    PROVE  ActiveObstacle = Len(obstacles) /\ Len(obstacles) \in Open /\ Len(obstacles) # 0
<1>1. Len(obstacles) \in DOMAIN obstacles /\ Len(obstacles) # 0 /\ Len(obstacles) \in Nat
  BY DEF WaitsOnLast, JudgmentTypeOK
<1>2. Len(obstacles) \in Open
  BY <1>1 DEF WaitsOnLast, Open
<1>3. \A j \in Open : j \in Nat /\ j <= Len(obstacles)
  BY DEF Open, JudgmentTypeOK
<1>4. \A i \in Open : (\A j \in Open : j <= i) => i = Len(obstacles)
  BY <1>1, <1>2, <1>3
<1>5. Greatest(Open) = Len(obstacles)
  BY <1>2, <1>3, <1>4 DEF Greatest
<1> QED
  BY <1>1, <1>2, <1>5 DEF ActiveObstacle

LEMMA RulesAgree == JudgmentInv => ExcuseIsEarned
<1> SUFFICES ASSUME JudgmentInv PROVE ExcuseIsEarned
  OBVIOUS
<1> USE DEF JudgmentInv
<1>1. Bucket = "blocked" <=> work = "Blocked" /\ ActiveBlocker = "confirmed"
  BY DEF Bucket
<1>2. CASE work = "Blocked"
  <2>1. /\ ActiveObstacle = Len(obstacles) /\ Len(obstacles) \in Open /\ Len(obstacles) # 0
    BY <1>2, LastIsActive
  <2>2. ActiveBlocker = obstacles[Len(obstacles)]
    BY <2>1 DEF ActiveBlocker, ActiveObstacle
  <2> QED
    BY <1>1, <1>2, <2>1, <2>2
       DEF ExcuseIsEarned, OneRule, ShieldIsEarned, FairnessFlag, BlockedOnHigherAuthority
<1>3. CASE work # "Blocked"
  BY <1>1, <1>3 DEF ExcuseIsEarned, OneRule, ShieldIsEarned, FairnessFlag, BlockedOnHigherAuthority
<1> QED
  BY <1>2, <1>3

-----------------------------------------------------------------------------
(* The invariant. *)

LEMMA SpeechHolds ==
    ASSUME NEW h \in Speech
    PROVE  /\ h.pc \in {"silent", "cast", "store", "toggle"}
           /\ h.pc = "cast" => h.by \in Resident /\ h.choice \in Choice
           /\ h.pc \in {"store", "toggle"} => h.plan \in Unblocking
           /\ h.pc = "toggle" => h.by \in Resident /\ h.has \in BOOLEAN
  BY DEF Speech, Silent

LEMMA JudgmentInitSound == JudgmentInit => JudgmentInv
<1> SUFFICES ASSUME JudgmentInit PROVE JudgmentInv
  OBVIOUS
<1>1. JudgmentTypeOK
  BY JudgmentAssumption DEF JudgmentInit, JudgmentTypeOK, Speech
<1>2. WaitsOnLast
  BY DEF JudgmentInit, WaitsOnLast
<1>3. \A c \in Speaking : Fits(speaking[c])
  BY DEF JudgmentInit, Fits, Silent
<1> QED
  BY <1>1, <1>2, <1>3 DEF JudgmentInv

\* A step of the case: no obstacle is forgotten.
LEMMA CaseSound ==
    ASSUME JudgmentInv, NEW w, NEW o, Case(w, o),
           w \in {"Planned", "InProgress", "Blocked", "Done", "Resolved", "Reopened", "Disputed"},
           o \in Seq({"pending", "confirmed", "denied"}), Len(o) <= MaxObstacles,
           Len(obstacles) <= Len(o),
           w = "Blocked" => o # <<>> /\ o[Len(o)] # "denied"
    PROVE  JudgmentInv'
<1> USE DEF JudgmentInv
<1>1. /\ work' = w /\ obstacles' = o /\ ballots' = ballots /\ plans' = plans
      /\ supports' = supports /\ speaking' = speaking
  BY DEF Case
<1>2. DOMAIN obstacles \subseteq DOMAIN o
  BY DEF JudgmentTypeOK
<1>3. JudgmentTypeOK'
  BY <1>1, <1>2 DEF JudgmentTypeOK
<1>4. \A c \in Speaking : Fits(speaking[c])'
  BY <1>1, <1>2 DEF Fits
<1>5. WaitsOnLast'
  BY <1>1 DEF WaitsOnLast
<1> QED
  BY <1>3, <1>4, <1>5

LEMMA CaseStepSound ==
    ASSUME JudgmentInv,
           \/ Block \/ Resume \/ MarkDone \/ Confirm
           \/ \E i \in DOMAIN obstacles : Uphold(i) \/ Deny(i)
    PROVE  JudgmentInv'
<1> USE JudgmentAssumption DEF JudgmentInv
<1>1. obstacles \in Seq({"pending", "confirmed", "denied"}) /\ Len(obstacles) <= MaxObstacles
  BY DEF JudgmentTypeOK
<1>2. CASE Block
  <2> DEFINE o == Append(obstacles, "pending")
  <2>1. /\ o \in Seq({"pending", "confirmed", "denied"}) /\ Len(o) = Len(obstacles) + 1
        /\ o # <<>> /\ o[Len(o)] = "pending"
    <3>1. o \in Seq({"pending", "confirmed", "denied"})
      BY <1>1
    <3>2. Len(o) = Len(obstacles) + 1 /\ o[Len(obstacles) + 1] = "pending"
      BY <1>1
    <3>3. Len(obstacles) \in Nat /\ Len(o) # 0
      BY <1>1, <3>2
    <3>4. o # <<>>
      BY <3>3
    <3> QED
      BY <3>1, <3>2, <3>4
  <2>2. Case("Blocked", o) /\ Len(obstacles) < MaxObstacles
    BY <1>2 DEF Block
  <2> HIDE DEF o
  <2> QED
    BY <1>1, <2>1, <2>2, CaseSound
<1>3. CASE Resume
  BY <1>1, <1>3, CaseSound DEF Resume
<1>4. CASE MarkDone
  BY <1>1, <1>4, CaseSound DEF MarkDone
<1>5. CASE Confirm
  BY <1>1, <1>5, CaseSound DEF Confirm
<1>6. ASSUME NEW i \in DOMAIN obstacles, Uphold(i)
      PROVE  JudgmentInv'
  <2> DEFINE o == [obstacles EXCEPT ![i] = "confirmed"]
  <2>1. /\ o \in Seq({"pending", "confirmed", "denied"}) /\ Len(o) = Len(obstacles)
        /\ \A j \in DOMAIN obstacles : o[j] = IF j = i THEN "confirmed" ELSE obstacles[j]
    BY <1>1
  <2>2. Case(work, o)
    BY <1>6 DEF Uphold
  <2>3. work = "Blocked" => o # <<>> /\ o[Len(o)] # "denied"
    BY <1>1, <2>1 DEF WaitsOnLast
  <2> HIDE DEF o
  <2> QED
    BY <1>1, <2>1, <2>2, <2>3, CaseSound DEF JudgmentTypeOK
<1>7. ASSUME NEW i \in DOMAIN obstacles, Deny(i)
      PROVE  JudgmentInv'
  <2> DEFINE o == [obstacles EXCEPT ![i] = "denied"]
  <2>1. o \in Seq({"pending", "confirmed", "denied"}) /\ Len(o) = Len(obstacles)
    BY <1>1
  <2>2. Case("InProgress", o)
    BY <1>7 DEF Deny
  <2> HIDE DEF o
  <2> QED
    BY <1>1, <2>1, <2>2, CaseSound
<1> QED
  BY <1>2, <1>3, <1>4, <1>5, <1>6, <1>7

\* A resident's next statement, with what it will rely on.
LEMMA Speaks ==
    ASSUME JudgmentInv, NEW c \in Speaking, NEW h \in Speech, Answer(c, h)
    PROVE  /\ speaking' \in [Speaking -> Speech] /\ speaking'[c] = h
           /\ \A d \in Speaking \ {c} : speaking'[d] = speaking[d]
  BY DEF Answer, JudgmentInv, JudgmentTypeOK

\* A load changes no row.
LEMMA LoadSound ==
    ASSUME JudgmentInv, NEW c \in Speaking, NEW h \in Speech, Answer(c, h), Fits(h),
           UNCHANGED <<work, obstacles, ballots, plans, supports>>
    PROVE  JudgmentInv'
<1> USE DEF JudgmentInv
<1>1. /\ speaking' \in [Speaking -> Speech] /\ speaking'[c] = h
      /\ \A d \in Speaking \ {c} : speaking'[d] = speaking[d]
  BY Speaks
<1>2. JudgmentTypeOK'
  BY <1>1 DEF JudgmentTypeOK
<1>3. \A d \in Speaking : Fits(speaking[d])'
  BY <1>1 DEF Fits
<1>4. WaitsOnLast'
  BY DEF WaitsOnLast
<1> QED
  BY <1>2, <1>3, <1>4

LEMMA ResidentLoads ==
    ASSUME JudgmentInv, NEW c \in Speaking,
           \/ \E v \in Resident, choice \in Choice : Vote(c, v, choice)
           \/ \E p \in Unblocking : ProposeUnblocking(c, p) \/ \E v \in Resident : Support(c, v, p)
    PROVE  JudgmentInv'
<1>1. ActiveObstacle # 0 => ActiveObstacle \in DOMAIN obstacles /\ ActiveObstacle \in 1..MaxObstacles
  BY ActiveIsDeclared, JudgmentAssumption DEF JudgmentInv, JudgmentTypeOK, Open
<1>2. ASSUME NEW v \in Resident, NEW choice \in Choice, Vote(c, v, choice)
      PROVE  JudgmentInv'
  <2> DEFINE h == [pc |-> "cast", by |-> v, on |-> ActiveObstacle, choice |-> choice]
  <2>1. h \in Speech /\ Fits(h)
    BY <1>1, <1>2 DEF Vote, Speech, Fits
  <2> QED
    BY <1>2, <2>1, LoadSound DEF Vote
<1>3. ASSUME NEW p \in Unblocking, ProposeUnblocking(c, p)
      PROVE  JudgmentInv'
  <2> DEFINE h == [pc |-> "store", plan |-> p, on |-> ActiveObstacle]
  <2>1. h \in Speech /\ Fits(h)
    BY <1>1, <1>3 DEF ProposeUnblocking, Speech, Fits
  <2> QED
    BY <1>3, <2>1, LoadSound DEF ProposeUnblocking
<1>4. ASSUME NEW p \in Unblocking, NEW v \in Resident, Support(c, v, p)
      PROVE  JudgmentInv'
  <2> DEFINE h == [pc |-> "toggle", by |-> v, plan |-> p, has |-> <<v, p>> \in supports]
  <2>1. h \in Speech /\ Fits(h)
    BY <1>4 DEF Support, Speech, Fits
  <2> QED
    BY <1>4, <2>1, LoadSound DEF Support
<1> QED
  BY <1>2, <1>3, <1>4

LEMMA CastSound ==
    ASSUME JudgmentInv, NEW c \in Speaking, Cast(c)
    PROVE  JudgmentInv' /\ ballots \subseteq ballots'
<1> USE DEF JudgmentInv
<1>1. PICK h \in Speech : h = speaking[c]
  BY DEF JudgmentTypeOK
<1>2. h.pc = "cast" /\ h.on \in DOMAIN obstacles /\ h.by \in Resident /\ h.choice \in Choice
  BY <1>1, SpeechHolds DEF Cast, Said, Fits
<1>3. /\ speaking' \in [Speaking -> Speech] /\ speaking'[c] = Silent
      /\ \A d \in Speaking \ {c} : speaking'[d] = speaking[d]
  BY Speaks DEF Cast, Speech
<1>4. /\ ballots' = WithBallot(h)
      /\ UNCHANGED <<work, obstacles, plans, supports>>
  BY <1>1 DEF Cast
<1>5. /\ ballots \subseteq ballots'
      /\ ballots' \subseteq (DOMAIN obstacles) \X Resident \X Choice
      /\ \A b, d \in ballots' : b[1] = d[1] /\ b[2] = d[2] => b = d
  <2>1. CASE \E b \in ballots : b[1] = h.on /\ b[2] = h.by
    BY <1>4, <2>1 DEF WithBallot, JudgmentTypeOK
  <2>2. CASE ~ \E b \in ballots : b[1] = h.on /\ b[2] = h.by
    BY <1>2, <1>4, <2>2 DEF WithBallot, JudgmentTypeOK
  <2> QED
    BY <2>1, <2>2
<1>6. JudgmentTypeOK'
  BY <1>3, <1>4, <1>5 DEF JudgmentTypeOK
<1>7. \A d \in Speaking : Fits(speaking[d])'
  BY <1>3, <1>4 DEF Fits, Silent
<1>8. WaitsOnLast'
  BY <1>4 DEF WaitsOnLast
<1> QED
  BY <1>5, <1>6, <1>7, <1>8

LEMMA StoreSound ==
    ASSUME JudgmentInv, NEW c \in Speaking, Store(c)
    PROVE  JudgmentInv'
<1> USE DEF JudgmentInv
<1>1. PICK h \in Speech : h = speaking[c]
  BY DEF JudgmentTypeOK
<1>2. h.pc = "store" /\ h.on \in DOMAIN obstacles /\ h.plan \in Unblocking
  BY <1>1, SpeechHolds DEF Store, Said, Fits
<1>3. /\ speaking' \in [Speaking -> Speech] /\ speaking'[c] = Silent
      /\ \A d \in Speaking \ {c} : speaking'[d] = speaking[d]
  BY Speaks DEF Store, Speech
<1>4. /\ plans' = [plans EXCEPT ![h.plan] = h.on]
      /\ UNCHANGED <<work, obstacles, ballots, supports>>
  BY <1>1 DEF Store
<1>5. /\ plans' \in [Unblocking -> {0} \cup (DOMAIN obstacles)]
      /\ \A p \in Unblocking : plans[p] # 0 => plans'[p] # 0
  <2>1. h.on # 0
    BY <1>2 DEF JudgmentTypeOK
  <2> QED
    BY <1>2, <1>4, <2>1 DEF JudgmentTypeOK
<1>6. JudgmentTypeOK'
  BY <1>3, <1>4, <1>5 DEF JudgmentTypeOK
<1>7. ASSUME NEW d \in Speaking
      PROVE  Fits(speaking[d])'
  <2>1. PICK g \in Speech : g = speaking[d]
    BY DEF JudgmentTypeOK
  <2>2. Fits(g) /\ (g.pc = "toggle" => g.plan \in Unblocking)
    BY <2>1, SpeechHolds
  <2> QED
    BY <1>3, <1>4, <1>5, <2>1, <2>2 DEF Fits, Silent
<1>8. WaitsOnLast'
  BY <1>4 DEF WaitsOnLast
<1> QED
  BY <1>6, <1>7, <1>8

LEMMA ToggleSound ==
    ASSUME JudgmentInv, NEW c \in Speaking, ToggleSupport(c)
    PROVE  JudgmentInv'
<1> USE DEF JudgmentInv
<1>1. PICK h \in Speech : h = speaking[c]
  BY DEF JudgmentTypeOK
<1>2. h.pc = "toggle" /\ plans[h.plan] # 0 /\ h.plan \in Unblocking /\ h.by \in Resident
  BY <1>1, SpeechHolds DEF ToggleSupport, Said, Fits
<1>3. /\ speaking' \in [Speaking -> Speech] /\ speaking'[c] = Silent
      /\ \A d \in Speaking \ {c} : speaking'[d] = speaking[d]
  BY Speaks DEF ToggleSupport, Speech
<1>4. /\ supports' \subseteq supports \cup {<<h.by, h.plan>>}
      /\ UNCHANGED <<work, obstacles, ballots, plans>>
  BY <1>1 DEF ToggleSupport
<1>5. supports' \subseteq {s \in Resident \X Unblocking : plans[s[2]] # 0}
  BY <1>2, <1>4 DEF JudgmentTypeOK
<1>6. JudgmentTypeOK'
  BY <1>3, <1>4, <1>5 DEF JudgmentTypeOK
<1>7. \A d \in Speaking : Fits(speaking[d])'
  BY <1>3, <1>4 DEF Fits, Silent
<1>8. WaitsOnLast'
  BY <1>4 DEF WaitsOnLast
<1> QED
  BY <1>6, <1>7, <1>8

LEMMA JudgmentStepSound == JudgmentInv /\ [JudgmentNext]_judgment => JudgmentInv'
<1> SUFFICES ASSUME JudgmentInv, [JudgmentNext]_judgment PROVE JudgmentInv'
  OBVIOUS
<1>1. CASE UNCHANGED judgment
  BY <1>1 DEF judgment, JudgmentInv, JudgmentTypeOK, Fits, WaitsOnLast
<1>2. CASE JudgmentNext
  BY <1>2, CaseStepSound, ResidentLoads, CastSound, StoreSound, ToggleSound DEF JudgmentNext
<1> QED
  BY <1>1, <1>2

\* fairness.go:4, case.go:116: whatever is declared, judged, resumed and declared again, the
\* scorecard's two projections and the case's own rule agree, and excuse only a case whose
\* latest obstacle was upheld.
THEOREM Fairness == JudgmentSpec => []ExcuseIsEarned
<1>1. JudgmentSpec => []JudgmentInv
  BY JudgmentInitSound, JudgmentStepSound, PTL DEF JudgmentSpec
<1> QED
  BY <1>1, RulesAgree, PTL

-----------------------------------------------------------------------------
(* The residents' words. *)

LEMMA WordsStay ==
    ASSUME JudgmentInv, [JudgmentNext]_judgment
    PROVE  /\ [UNCHANGED <<work, obstacles>> => Bucket' = Bucket]_judgment
           /\ [ballots \subseteq ballots']_judgment
<1>1. UNCHANGED <<work, obstacles>> => Bucket' = Bucket
  <2> SUFFICES ASSUME UNCHANGED <<work, obstacles>> PROVE Bucket' = Bucket
    OBVIOUS
  <2>1. Open' = Open
    BY DEF Open
  <2>2. ActiveBlocker' = ActiveBlocker
    BY <2>1 DEF ActiveBlocker
  <2> QED
    BY <2>2 DEF Bucket
<1>2. ballots' = ballots \/ \E c \in Speaking : Cast(c)
  BY DEF judgment, JudgmentNext, Block, Resume, MarkDone, Confirm, Uphold, Deny, Case, Vote, Store,
         ToggleSupport, ProposeUnblocking, Support
<1>3. ballots \subseteq ballots'
  BY <1>2, CastSound
<1> QED
  BY <1>1, <1>3

\* vote_obstacle.go:11, case_repo.go:357: no vote, plan or upvote of any number of residents
\* moves the bucket a case is counted in, and no second vote changes the first.
THEOREM PressureIsAdvisory == JudgmentSpec => WordsArePressure
<1>1. JudgmentSpec => []JudgmentInv
  BY JudgmentInitSound, JudgmentStepSound, PTL DEF JudgmentSpec
<1>2. JudgmentInv /\ [JudgmentNext]_judgment =>
          /\ [UNCHANGED <<work, obstacles>> => Bucket' = Bucket]_judgment
          /\ [ballots \subseteq ballots']_judgment
  BY WordsStay
<1> QED
  BY <1>1, <1>2, PTL DEF JudgmentSpec, WordsArePressure, PressureOnly, FirstWordStands
-----------------------------------------------------------------------------
(* Voices: the ranking. *)

LEMMA CountHolds == \A s : UpvoteCount(s) \in Nat
<1> SUFFICES ASSUME NEW s PROVE UpvoteCount(s) \in Nat
  OBVIOUS
<1>1. IsFiniteSet({v \in Voter : <<v, s>> \in upvotes})
  BY VoicesAssumption, FS_Subset
<1> QED
  BY <1>1, FS_CardinalityType DEF UpvoteCount

\* A count above zero is somebody's vote.
LEMMA CountIsVotes ==
    ASSUME upvotes \subseteq Voter \X posted
    PROVE  \A s : UpvoteCount(s) # 0 <=> \E v \in Voter : <<v, s>> \in upvotes
<1> SUFFICES ASSUME NEW s PROVE UpvoteCount(s) # 0 <=> \E v \in Voter : <<v, s>> \in upvotes
  OBVIOUS
<1> DEFINE S == {v \in Voter : <<v, s>> \in upvotes}
<1>1. IsFiniteSet(S)
  BY VoicesAssumption, FS_Subset
<1>2. Cardinality(S) = 0 <=> S = {}
  BY <1>1, FS_EmptySet
<1> QED
  BY <1>2 DEF UpvoteCount

LEMMA AheadIsAnOrder ==
    ASSUME posted \subseteq Suggestion
    PROVE  /\ \A s \in posted : ~ Ahead(s, s)
           /\ \A s, t \in posted : s = t \/ Ahead(s, t) \/ Ahead(t, s)
           /\ \A s, t \in posted : ~ (Ahead(s, t) /\ Ahead(t, s))
           /\ \A s, t, u \in posted : Ahead(s, t) /\ Ahead(t, u) => Ahead(s, u)
<1>1. posted \subseteq Nat
  BY VoicesAssumption
<1>2. \A s \in posted : UpvoteCount(s) \in Nat
  BY CountHolds
<1> QED
  BY <1>1, <1>2 DEF Ahead

\* service.go:13: the ranking exists: each suggestion has the place after those ahead of it.
LEMMA RankingExists ==
    ASSUME posted \subseteq Suggestion, IsFiniteSet(posted)
    PROVE  /\ Ranked \in SetToSeqs(posted)
           /\ \A i, j \in DOMAIN Ranked : i < j => Ahead(Ranked[i], Ranked[j])
<1> DEFINE n == Cardinality(posted)
           Before(s) == {t \in posted : Ahead(t, s)}
           place == [s \in posted |-> Cardinality(Before(s)) + 1]
           r == [i \in 1..n |-> CHOOSE s \in posted : place[s] = i]
           IsRanking(x) == \A i, j \in DOMAIN x : i < j => Ahead(x[i], x[j])
<1>1. n \in Nat /\ IsFiniteSet(1..n) /\ Cardinality(1..n) = n
  BY FS_CardinalityType, FS_Interval
<1>2. \A s \in posted : IsFiniteSet(Before(s)) /\ Cardinality(Before(s)) \in Nat
  <2> SUFFICES ASSUME NEW s \in posted PROVE IsFiniteSet(Before(s)) /\ Cardinality(Before(s)) \in Nat
    OBVIOUS
  <2>1. IsFiniteSet(Before(s))
    BY FS_Subset
  <2> QED
    BY <2>1, FS_CardinalityType
<1>3. ASSUME NEW s \in posted
      PROVE  Cardinality(Before(s)) + 1 \in 1..n
  <2>1. Before(s) \in SUBSET (posted \ {s})
    BY AheadIsAnOrder
  <2>2. IsFiniteSet(posted \ {s}) /\ Cardinality(posted \ {s}) = n - 1
    BY FS_RemoveElement
  <2> HIDE DEF Before, n
  <2>3. Cardinality(Before(s)) <= n - 1
    BY <2>1, <2>2, FS_Subset
  <2> QED
    BY <1>1, <1>2, <2>3
<1>4. ASSUME NEW s \in posted, NEW t \in posted, Ahead(s, t)
      PROVE  place[s] < place[t]
  <2>1. Before(s) \cup {s} \in SUBSET Before(t) /\ s \notin Before(s)
    BY <1>4, AheadIsAnOrder
  <2> HIDE DEF Before
  <2>2. Cardinality(Before(s) \cup {s}) = Cardinality(Before(s)) + 1
    BY <1>2, <2>1, FS_AddElement
  <2>3. Cardinality(Before(s) \cup {s}) <= Cardinality(Before(t))
    BY <1>2, <2>1, FS_Subset
  <2> QED
    BY <1>2, <2>2, <2>3
<1>5. place \in [posted -> 1..n]
  <2> HIDE DEF Before, n
  <2> QED
    BY <1>3
<1>6. \A s, t \in posted : place[s] = place[t] => s = t
  <2> HIDE DEF place
  <2>1. \A s \in posted : place[s] \in Int
    BY <1>1, <1>5
  <2> QED
    BY <1>4, <2>1, AheadIsAnOrder
<1>7. \A i \in 1..n : \E s \in posted : place[s] = i
  <2> HIDE DEF place, n
  <2>1. place \in Injection(posted, 1..n)
    BY <1>5, <1>6 DEF Injection, IsInjective
  <2>2. place \in Surjection(posted, 1..n)
    BY <1>1, <2>1, FS_Injection DEF n
  <2> QED
    BY <2>2 DEF Surjection
<1> HIDE DEF place, n
<1>8. \A i \in 1..n : r[i] \in posted /\ place[r[i]] = i
  BY <1>7
<1>9. r \in [1..n -> posted]
  BY <1>8
<1>10. \A i, j \in 1..n : i # j => r[i] # r[j]
  BY <1>8
<1>11. r \in SetToSeqs(posted)
  <2> HIDE DEF r
  <2> QED
    BY <1>9, <1>10 DEF SetToSeqs, n
<1>12. ASSUME NEW i \in 1..n, NEW j \in 1..n, i < j
       PROVE  Ahead(r[i], r[j])
  <2>1. r[i] \in posted /\ r[j] \in posted /\ r[i] # r[j] /\ place[r[i]] = i /\ place[r[j]] = j
    BY <1>8, <1>12
  <2> HIDE DEF r
  <2>2. ~ Ahead(r[j], r[i])
    BY <1>1, <1>4, <1>12, <2>1
  <2> QED
    BY <2>1, <2>2, AheadIsAnOrder
<1>13. IsRanking(r)
  <2>1. DOMAIN r = 1..n
    OBVIOUS
  <2> HIDE DEF r
  <2> QED
    BY <1>12, <2>1
<1>14. Ranked = CHOOSE x \in SetToSeqs(posted) : IsRanking(x)
  BY DEF Ranked
<1> HIDE DEF r, IsRanking
<1>15. Ranked \in SetToSeqs(posted) /\ IsRanking(Ranked)
  BY <1>11, <1>13, <1>14
<1> QED
  BY <1>15 DEF IsRanking
\* The one whom everything else is behind.
Leader(s) == s \in posted /\ UpvoteCount(s) > 0 /\ \A t \in posted : t = s \/ Ahead(s, t)

LEMMA OneLeader ==
    ASSUME posted \subseteq Suggestion, NEW s, NEW t, Leader(s), Leader(t)
    PROVE  s = t
  BY AheadIsAnOrder DEF Leader

VotesAreSound ==
    posted \subseteq Suggestion /\ IsFiniteSet(posted) /\ upvotes \subseteq Voter \X posted
LeaderIsTop ==
    /\ upvotes = {} => TopOfRanking = NoTop
    /\ upvotes # {} => Leader(TopOfRanking) /\ Head(Ranked) = TopOfRanking

\* service.go:40: the top is the leader, which is there once anything is upvoted.
LEMMA TopLeads == VotesAreSound => LeaderIsTop
<1> SUFFICES ASSUME VotesAreSound PROVE LeaderIsTop
  OBVIOUS
<1> USE DEF VotesAreSound
<1>1. \A s : UpvoteCount(s) \in Nat
  BY CountHolds
<1>2. /\ Ranked \in SetToSeqs(posted)
      /\ \A i, j \in DOMAIN Ranked : i < j => Ahead(Ranked[i], Ranked[j])
  BY RankingExists
<1>3. Ranked \in [1..Cardinality(posted) -> posted] /\ Cardinality(posted) \in Nat
  BY <1>2, FS_CardinalityType DEF SetToSeqs
<1>4. \A s \in posted : \E i \in 1..Cardinality(posted) : Ranked[i] = s
  <2>1. \A i, j \in 1..Cardinality(posted) : i # j => Ranked[i] # Ranked[j]
    BY <1>2 DEF SetToSeqs
  <2>2. Ranked \in Injection(1..Cardinality(posted), posted)
    BY <1>3, <2>1 DEF Injection, IsInjective
  <2>3. IsFiniteSet(1..Cardinality(posted)) /\ Cardinality(1..Cardinality(posted)) = Cardinality(posted)
    BY <1>3, FS_Interval
  <2>4. Ranked \in Surjection(1..Cardinality(posted), posted)
    BY <2>2, <2>3, FS_Injection
  <2> QED
    BY <2>4 DEF Surjection
<1>5. CASE upvotes = {}
  <2>1. \A s : UpvoteCount(s) = 0
    BY <1>5, CountIsVotes
  <2>2. \A s : ~ IsTop(s)
    BY <2>1 DEF IsTop
  <2> QED
    BY <1>5, <2>2 DEF TopOfRanking, LeaderIsTop
<1>6. CASE upvotes # {}
  <2>1. PICK s \in posted : UpvoteCount(s) # 0
    BY <1>6, CountIsVotes
  <2>2. Cardinality(posted) # 0
    BY <2>1, FS_EmptySet
  <2> DEFINE h == Ranked[1]
  <2>3. Ranked # <<>> /\ Head(Ranked) = h /\ h \in posted /\ 1 \in DOMAIN Ranked
    BY <1>3, <2>2
  <2>4. ASSUME NEW t \in posted, t # h
        PROVE  Ahead(h, t)
    <3>1. PICK i \in 1..Cardinality(posted) : Ranked[i] = t
      BY <1>4
    <3>2. i # 1 /\ 1 < i
      BY <1>3, <2>4, <3>1
    <3> QED
      BY <1>2, <1>3, <2>3, <3>1, <3>2
  <2> HIDE DEF h
  <2>5. \A t \in posted : UpvoteCount(t) <= UpvoteCount(h)
    BY <1>1, <2>4 DEF Ahead
  <2>6. UpvoteCount(h) > 0
    BY <1>1, <2>1, <2>5
  <2>7. IsTop(h)
    BY <2>5, <2>6 DEF IsTop
  <2>8. TopOfRanking = h
    BY <2>3, <2>7 DEF TopOfRanking
  <2> QED
    BY <1>6, <2>3, <2>4, <2>6, <2>8 DEF Leader, LeaderIsTop
<1> QED
  BY <1>5, <1>6 DEF LeaderIsTop

\* The same of the state a step leads to.
LEMMA TopLeadsNext == VotesAreSound' => LeaderIsTop'
  BY TopLeads, PTL

\* The leader is the oldest of those with the most upvotes.
LEMMA QuestionIsOne == ASSUME VotesAreSound PROVE OneQuestion
<1> DEFINE Best == {s \in posted : \A t \in posted : UpvoteCount(t) <= UpvoteCount(s)}
           h == TopOfRanking
<1>1. \A s : UpvoteCount(s) \in Nat
  BY CountHolds
<1>2. ASSUME upvotes # {}
      PROVE  h = Min(Best) /\ Head(Ranked) = Min(Best)
  <2>1. Leader(h) /\ Head(Ranked) = h
    BY <1>2, TopLeads DEF LeaderIsTop
  <2> HIDE DEF h
  <2>2. posted \subseteq Nat
    BY VoicesAssumption DEF VotesAreSound
  <2>3. h \in Best
    BY <1>1, <2>1 DEF Leader, Ahead
  <2>4. ASSUME NEW t \in Best PROVE h <= t
    BY <1>1, <2>1, <2>2 DEF Leader, Ahead
  <2>5. \A x \in Best : (\A y \in Best : x <= y) => x = h
    BY <2>2, <2>3, <2>4
  <2> HIDE DEF Best
  <2>6. Min(Best) = h
    BY <2>3, <2>4, <2>5 DEF Min
  <2> QED
    BY <2>1, <2>6
<1> QED
  BY <1>2, TopLeads DEF OneQuestion, LeaderIsTop

\* A proposal displaces nobody: it comes without upvotes.
LEMMA ProposalKeepsTheTop ==
    ASSUME VotesAreSound, NEW s \in Suggestion, s \notin posted,
           posted' = posted \cup {s}, upvotes' = upvotes
    PROVE  VotesAreSound' /\ TopOfRanking' = TopOfRanking
<1>1. VotesAreSound'
  BY FS_AddElement DEF VotesAreSound
<1>2. LeaderIsTop /\ LeaderIsTop'
  BY <1>1, TopLeads, TopLeadsNext
<1>3. CASE upvotes = {}
  BY <1>1, <1>2, <1>3 DEF LeaderIsTop
<1>4. CASE upvotes # {}
  <2>1. PICK h : h = TopOfRanking
    OBVIOUS
  <2>2. PICK t : t = TopOfRanking'
    OBVIOUS
  <2>3. Leader(h)
    BY <1>2, <1>4, <2>1 DEF LeaderIsTop
  <2>4. t \in posted' /\ UpvoteCount(t)' > 0 /\ \A u \in posted' : u = t \/ Ahead(t, u)'
    BY <1>2, <1>4, <2>2 DEF LeaderIsTop, Leader
  <2>5. \A u : UpvoteCount(u)' = UpvoteCount(u)
    BY DEF UpvoteCount
  <2>6. \A u, w : Ahead(u, w)' = Ahead(u, w)
    BY <2>5 DEF Ahead
  <2>7. UpvoteCount(s) = 0
    <3>1. ~ \E v \in Voter : <<v, s>> \in upvotes
      BY DEF VotesAreSound
    <3>2. upvotes \subseteq Voter \X posted
      BY DEF VotesAreSound
    <3> QED
      BY <3>1, <3>2, CountIsVotes
  <2>8. t \in posted
    BY <2>4, <2>5, <2>7
  <2>9. Leader(t)
    BY <2>4, <2>5, <2>6, <2>8 DEF Leader
  <2> QED
    BY <1>1, <2>1, <2>2, <2>3, <2>9, OneLeader DEF VotesAreSound
<1> QED
  BY <1>1, <1>3, <1>4
-----------------------------------------------------------------------------
(* Voices: the invariant. *)

\* A press that is under way leaves its voter unsure, and its suggestion stays while the
\* report does; one that is alone is the only one, and what it did to the vote still holds
\* when it answers.
OpenPress(q) ==
    \A v \in Voter, s \in Suggestion : Concerns(q, v, s) =>
        /\ button[<<v, s>>] = Unsure /\ (erased \/ s \in posted)
        /\ asking[q].alone => \A p \in Asking \ {q} : ~ Concerns(p, v, s)
Toggled(q) ==
    asking[q].pc = "relist" /\ asking[q].alone /\ asking[q].on \in posted =>
        (<<asking[q].by, asking[q].on>> \in upvotes <=> ~ asking[q].has)
PlanHasLed(q) == asking[q].pc = "plan" => asking[q].top \in led \cup {NoTop}

VoicesInv ==
    /\ VoicesTypeOK /\ IsFiniteSet(posted) /\ ToggleTold /\ AnsweredHasLed
    /\ TopOfRanking \in led \cup {NoTop}
    /\ \A q \in Asking : OpenPress(q) /\ Toggled(q) /\ PlanHasLed(q)

LEMMA SoundVotes == VoicesInv => VotesAreSound
<1> SUFFICES ASSUME VoicesInv PROVE VotesAreSound
  OBVIOUS
<1>1. posted \subseteq Suggestion /\ upvotes \subseteq Voter \X posted
  BY DEF VoicesInv, VoicesTypeOK
<1> QED
  BY <1>1 DEF VoicesInv, VotesAreSound

LEMMA VoicesInvIsSound == VoicesInv => VoicesAreCounted
  BY SoundVotes, QuestionIsOne DEF VoicesInv, VoicesAreCounted

LEMMA QuestionHolds ==
    ASSUME NEW h \in Question
    PROVE  /\ h.pc \in {"free", "check", "write", "relist", "plan"}
           /\ h.pc \in {"check", "write", "relist"} =>
                h.by \in Voter /\ h.on \in Suggestion /\ h.alone \in BOOLEAN
           /\ h.pc \in {"write", "relist"} => h.has \in BOOLEAN
           /\ h.pc = "plan" => h.top \in Suggestion \cup {NoTop}
  BY DEF Question, Free

LEMMA VoicesInitSound == VoicesInit => VoicesInv
<1> SUFFICES ASSUME VoicesInit PROVE VoicesInv
  OBVIOUS
<1>1. VoicesTypeOK
  BY DEF VoicesInit, VoicesTypeOK, Question
<1>2. ToggleTold
  BY DEF VoicesInit, ToggleTold, Known
<1>3. IsFiniteSet(posted) /\ AnsweredHasLed
  BY FS_EmptySet DEF VoicesInit, AnsweredHasLed
<1>4. TopOfRanking = NoTop
  <2>1. VotesAreSound
    BY <1>1, <1>3 DEF VotesAreSound, VoicesTypeOK
  <2> QED
    BY <2>1, TopLeads DEF LeaderIsTop, VoicesInit
<1>5. \A q \in Asking : OpenPress(q) /\ Toggled(q) /\ PlanHasLed(q)
  BY DEF VoicesInit, Free, OpenPress, Concerns, Toggled, PlanHasLed
<1> QED
  BY <1>1, <1>2, <1>3, <1>4, <1>5 DEF VoicesInv

\* A request goes from h to g, or ends, and the tables stay: whatever g is about, h was.
LEMMA AskingSound ==
    ASSUME VoicesInv, NEW q \in Asking, NEW g \in Question, Then(q, g),
           UNCHANGED <<posted, upvotes, erased, led>>,
           answered' \in Suggestion \cup {NoTop, NoPlan}, answered' \in led \cup {NoTop, NoPlan},
           button' \in [Voter \X Suggestion -> {Known(TRUE), Known(FALSE), Unsure}], ToggleTold',
           g.pc \in {"check", "write", "relist"} =>
                /\ asking[q].pc \in {"check", "write", "relist"}
                /\ g.by = asking[q].by /\ g.on = asking[q].on /\ g.alone = asking[q].alone,
           \A p \in Asking, v \in Voter, s \in Suggestion :
                Concerns(p, v, s)' => button'[<<v, s>>] = Unsure,
           g.pc = "relist" /\ g.alone /\ g.on \in posted => (<<g.by, g.on>> \in upvotes <=> ~ g.has),
           g.pc = "plan" => g.top \in led \cup {NoTop}
    PROVE  VoicesInv'
<1>1. /\ asking' \in [Asking -> Question] /\ asking'[q] = g
      /\ \A p \in Asking \ {q} : asking'[p] = asking[p]
  BY DEF VoicesInv, VoicesTypeOK, Then
<1>2. ASSUME NEW p \in Asking, NEW v \in Voter, NEW s \in Suggestion, Concerns(p, v, s)'
      PROVE  Concerns(p, v, s) /\ asking'[p].alone = asking[p].alone
  <2>1. CASE p = q
    BY <1>1, <1>2, <2>1 DEF Concerns
  <2>2. CASE p # q
    BY <1>1, <1>2, <2>2 DEF Concerns
  <2> QED
    BY <2>1, <2>2
<1>3. VoicesTypeOK'
  BY <1>1 DEF VoicesInv, VoicesTypeOK
<1>4. TopOfRanking' = TopOfRanking
  BY DEF TopOfRanking, Ranked, IsTop, UpvoteCount, Ahead
<1>5. AnsweredHasLed' /\ IsFiniteSet(posted') /\ TopOfRanking' \in led' \cup {NoTop}
  BY <1>4 DEF VoicesInv, AnsweredHasLed
<1>6. ASSUME NEW p \in Asking
      PROVE  OpenPress(p)' /\ Toggled(p)' /\ PlanHasLed(p)'
  <2>1. OpenPress(p)'
    BY <1>2 DEF VoicesInv, OpenPress
  <2>2. Toggled(p)' /\ PlanHasLed(p)'
    BY <1>1 DEF VoicesInv, Toggled, PlanHasLed
  <2> QED
    BY <2>1, <2>2
<1> QED
  BY <1>3, <1>5, <1>6 DEF VoicesInv
\* Reading the vote, reading the top, storing a plan, and a request that ends.
LEMMA QuietSound ==
    ASSUME VoicesInv, NEW q \in Asking, Check(q) \/ ReadTop(q) \/ StorePlan(q) \/ Drop(q)
    PROVE  VoicesInv'
<1>1. PICK h : h = asking[q]
  OBVIOUS
<1>2. h \in Question
  BY <1>1 DEF VoicesInv, VoicesTypeOK
<1>3. /\ UNCHANGED <<posted, upvotes, erased, led, button>>
      /\ answered' = answered \/ StorePlan(q)
  BY DEF Check, ReadTop, StorePlan, Drop
<1>4. /\ answered \in Suggestion \cup {NoTop, NoPlan} /\ answered \in led \cup {NoTop, NoPlan}
      /\ button \in [Voter \X Suggestion -> {Known(TRUE), Known(FALSE), Unsure}]
  BY DEF VoicesInv, VoicesTypeOK, AnsweredHasLed
<1>5. ToggleTold'
  BY <1>3 DEF VoicesInv, ToggleTold, Known
<1>6. Free \in Question /\ Free.pc = "free"
  BY DEF Question, Free
\* Concerns of the others are as they were.
<1>7. ASSUME NEW g \in Question, Then(q, g),
             g.pc \in {"check", "write", "relist"} =>
                /\ h.pc \in {"check", "write", "relist"} /\ g.by = h.by /\ g.on = h.on
      PROVE  \A p \in Asking, v \in Voter, s \in Suggestion :
                Concerns(p, v, s)' => button'[<<v, s>>] = Unsure
  <2> SUFFICES ASSUME NEW p \in Asking, NEW v \in Voter, NEW s \in Suggestion, Concerns(p, v, s)'
               PROVE  button'[<<v, s>>] = Unsure
    OBVIOUS
  <2>1. asking'[p] = IF p = q THEN g ELSE asking[p]
    BY <1>7 DEF Then, VoicesInv, VoicesTypeOK
  <2>2. Concerns(p, v, s)
    BY <1>1, <1>7, <2>1 DEF Concerns
  <2> QED
    BY <1>3, <2>2 DEF VoicesInv, OpenPress
<1>8. CASE Check(q)
  <2> DEFINE g == [pc |-> "write", by |-> h.by, on |-> h.on, alone |-> h.alone,
                   has |-> <<h.by, h.on>> \in upvotes]
  <2>1. PICK k : k = g
    OBVIOUS
  <2>2. h.pc = "check" /\ h.by \in Voter /\ h.on \in Suggestion /\ h.alone \in BOOLEAN
    BY <1>1, <1>2, <1>8, QuestionHolds DEF Check, Step
  <2>3. g \in Question
    BY <2>2 DEF Question
  <2>4. k \in Question /\ k.pc = "write" /\ k.by = h.by /\ k.on = h.on /\ k.alone = h.alone
    BY <2>1, <2>3
  <2>5. Then(q, k) /\ answered' = answered
    BY <1>1, <1>8, <2>1 DEF Check
  <2> HIDE DEF g
  <2> QED
    BY <1>1, <1>3, <1>4, <1>5, <1>7, <2>2, <2>4, <2>5, AskingSound
<1>9. CASE ReadTop(q)
  <2>1. PICK k : k = [pc |-> "plan", top |-> TopOfRanking]
    OBVIOUS
  <2>2. TopOfRanking \in led \cup {NoTop}
    BY DEF VoicesInv
  <2>3. TopOfRanking \in Suggestion \cup {NoTop}
    BY SoundVotes, TopLeads DEF LeaderIsTop, Leader, VotesAreSound
  <2>4. k \in Question /\ k.pc = "plan" /\ k.top \in led \cup {NoTop}
    BY <2>1, <2>2, <2>3 DEF Question
  <2>5. Then(q, k) /\ answered' = answered
    BY <1>9, <2>1 DEF ReadTop
  <2> QED
    BY <1>1, <1>3, <1>4, <1>5, <1>7, <2>4, <2>5, AskingSound
<1>10. CASE StorePlan(q)
  <2>1. h.pc = "plan" /\ h.top \in Suggestion \cup {NoTop}
    BY <1>1, <1>2, <1>10, QuestionHolds DEF StorePlan, Step
  <2>2. h.top \in led \cup {NoTop}
    BY <1>1, <2>1 DEF VoicesInv, PlanHasLed
  <2>3. Then(q, Free) /\ answered' \in {answered, h.top}
    BY <1>1, <1>10 DEF StorePlan, Ends
  <2> QED
    BY <1>1, <1>3, <1>4, <1>5, <1>6, <1>7, <2>1, <2>2, <2>3, AskingSound
<1>11. CASE Drop(q)
  <2>1. Then(q, Free) /\ answered' = answered
    BY <1>11 DEF Drop, Ends
  <2> QED
    BY <1>1, <1>3, <1>4, <1>5, <1>6, <1>7, <2>1, AskingSound
<1> QED
  BY <1>8, <1>9, <1>10, <1>11

\* upvote_suggestion.go:51-75: the answer is what this press did, if it was alone.
LEMMA RelistSound ==
    ASSUME VoicesInv, NEW q \in Asking, Relist(q)
    PROVE  VoicesInv'
<1>1. PICK h : h = asking[q]
  OBVIOUS
<1>2. h \in Question /\ h.pc = "relist"
  BY <1>1 DEF VoicesInv, VoicesTypeOK, Relist, Step
<1>3. h.by \in Voter /\ h.on \in Suggestion /\ h.alone \in BOOLEAN /\ h.has \in BOOLEAN
  BY <1>2, QuestionHolds
<1>4. PICK word : word = IF h.on \in posted /\ h.alone THEN Known(~ h.has) ELSE Unsure
  OBVIOUS
<1>5. /\ button' = [button EXCEPT ![<<h.by, h.on>>] = word]
      /\ Then(q, Free) /\ UNCHANGED <<posted, upvotes, erased, answered, led>>
  BY <1>1, <1>4 DEF Relist, Ends, Upvoted
<1>6. word \in {Unsure, Known(<<h.by, h.on>> \in upvotes)}
  <2>1. CASE h.on \in posted /\ h.alone
    <3>1. <<h.by, h.on>> \in upvotes <=> ~ h.has
      BY <1>1, <1>2, <2>1 DEF VoicesInv, Toggled
    <3> QED
      BY <1>3, <1>4, <2>1, <3>1 DEF Known
  <2> QED
    BY <1>4, <2>1
<1>7. word \in {Known(TRUE), Known(FALSE), Unsure}
  BY <1>6 DEF Known
<1>8. button \in [Voter \X Suggestion -> {Known(TRUE), Known(FALSE), Unsure}]
  BY DEF VoicesInv, VoicesTypeOK
<1>9. /\ button' \in [Voter \X Suggestion -> {Known(TRUE), Known(FALSE), Unsure}]
      /\ \A b \in Voter \X Suggestion :
            button'[b] = IF b = <<h.by, h.on>> THEN word ELSE button[b]
  BY <1>3, <1>5, <1>7, <1>8
<1>10. ToggleTold'
  BY <1>5, <1>6, <1>9 DEF VoicesInv, ToggleTold, Known
<1>11. ASSUME NEW p \in Asking, NEW v \in Voter, NEW s \in Suggestion, Concerns(p, v, s)'
       PROVE  button'[<<v, s>>] = Unsure
  <2>1. p # q /\ Concerns(p, v, s)
    BY <1>5, <1>11 DEF Concerns, Then, Free, VoicesInv, VoicesTypeOK
  <2>2. CASE <<v, s>> = <<h.by, h.on>>
    <3>1. Concerns(q, v, s)
      BY <1>1, <1>2, <2>2 DEF Concerns
    <3>2. ~ h.alone
      BY <1>1, <2>1, <3>1 DEF VoicesInv, OpenPress
    <3> QED
      BY <1>4, <1>9, <2>2, <3>2
  <2>3. CASE <<v, s>> # <<h.by, h.on>>
    BY <1>9, <2>1, <2>3 DEF VoicesInv, OpenPress
  <2> QED
    BY <2>2, <2>3
<1>12. Free \in Question /\ Free.pc = "free"
  BY DEF Question, Free
<1>13. answered' \in Suggestion \cup {NoTop, NoPlan} /\ answered' \in led \cup {NoTop, NoPlan}
  BY <1>5 DEF VoicesInv, VoicesTypeOK, AnsweredHasLed
<1> QED
  BY <1>5, <1>9, <1>10, <1>11, <1>12, <1>13, AskingSound
\* The tables stay, and so do the requests: only what voters were told changes.
LEMMA LookSound ==
    ASSUME VoicesInv, NEW w \in Voter, Look(w)
    PROVE  VoicesInv'
<1>1. /\ UNCHANGED <<posted, upvotes, erased, answered, led, asking>>
      /\ \A q \in Asking, s \in Suggestion : ~ Concerns(q, w, s)
      /\ button' = [b \in Voter \X Suggestion |->
            IF b[1] = w THEN Known(b \in upvotes) ELSE button[b]]
  BY DEF Look
<1>2. button \in [Voter \X Suggestion -> {Known(TRUE), Known(FALSE), Unsure}]
  BY DEF VoicesInv, VoicesTypeOK
<1>3. button' \in [Voter \X Suggestion -> {Known(TRUE), Known(FALSE), Unsure}]
  BY <1>1, <1>2 DEF Known
<1>4. VoicesTypeOK'
  BY <1>1, <1>3 DEF VoicesInv, VoicesTypeOK
<1>5. ToggleTold'
  <2> SUFFICES ASSUME NEW b \in Voter \X Suggestion
               PROVE  button'[b] \in {Unsure, Known(b \in upvotes)}
    BY <1>1 DEF ToggleTold, Known
  <2> QED
    BY <1>1 DEF VoicesInv, ToggleTold
<1>6. TopOfRanking' = TopOfRanking
  BY <1>1 DEF TopOfRanking, Ranked, IsTop, UpvoteCount, Ahead
<1>7. ASSUME NEW q \in Asking
      PROVE  OpenPress(q)' /\ Toggled(q)' /\ PlanHasLed(q)'
  <2>1. Toggled(q)' /\ PlanHasLed(q)'
    BY <1>1 DEF VoicesInv, Toggled, PlanHasLed
  <2>2. \A p, v, s : Concerns(p, v, s)' <=> Concerns(p, v, s)
    BY <1>1 DEF Concerns
  <2>3. ASSUME NEW v \in Voter, NEW s \in Suggestion, Concerns(q, v, s)
        PROVE  button'[<<v, s>>] = Unsure
    BY <1>1, <2>3 DEF VoicesInv, OpenPress
  <2>4. OpenPress(q)'
    BY <1>1, <2>2, <2>3 DEF VoicesInv, OpenPress
  <2> QED
    BY <2>1, <2>4
<1> QED
  BY <1>1, <1>4, <1>5, <1>6, <1>7 DEF VoicesInv, AnsweredHasLed

\* upvote_suggestion.go:38: a press that finds another of its own under way unsettles both.
LEMMA PressSound ==
    ASSUME VoicesInv, NEW q \in Asking, NEW w \in Voter, NEW x \in Suggestion, Press(q, w, x)
    PROVE  VoicesInv'
<1> DEFINE others == {p \in Asking : Concerns(p, w, x)}
<1>1. PICK S : S = others
  OBVIOUS
<1>2. /\ Step(q, "free") /\ x \in posted
      /\ asking' = [p \in Asking |->
            IF p = q THEN [pc |-> "check", by |-> w, on |-> x, alone |-> S = {}]
            ELSE IF p \in S THEN [asking[p] EXCEPT !.alone = FALSE] ELSE asking[p]]
      /\ button' = [button EXCEPT ![<<w, x>>] = Unsure]
      /\ UNCHANGED <<posted, upvotes, erased, answered, led>>
  BY <1>1 DEF Press
<1>3. asking \in [Asking -> Question] /\ q \notin S
  BY <1>1, <1>2 DEF VoicesInv, VoicesTypeOK, Concerns, Step
<1>4. ASSUME NEW p \in S
      PROVE  /\ p \in Asking /\ asking'[p] \in Question /\ asking'[p].alone = FALSE
             /\ asking'[p].pc = asking[p].pc /\ asking'[p].by = w /\ asking'[p].on = x
             /\ asking[p].by = w /\ asking[p].on = x /\ asking[p].pc \in {"check", "write", "relist"}
  <2>1. PICK h : h = asking[p]
    OBVIOUS
  <2>2. p \in Asking /\ p # q /\ h.pc \in {"check", "write", "relist"} /\ h.by = w /\ h.on = x
    BY <1>1, <1>3, <2>1 DEF Concerns
  <2>3. h \in Question
    BY <1>3, <2>1, <2>2
  <2>4. asking'[p] = [h EXCEPT !.alone = FALSE]
    BY <1>2, <2>1, <2>2
  <2>5. CASE h.pc = "check"
    <3>1. h \in [pc : {"check"}, by : Voter, on : Suggestion, alone : BOOLEAN]
      BY <2>3, <2>5 DEF Question, Free
    <3>2. [h EXCEPT !.alone = FALSE] \in [pc : {"check"}, by : Voter, on : Suggestion, alone : BOOLEAN]
      BY <3>1
    <3> QED
      BY <2>1, <2>2, <2>4, <3>1, <3>2 DEF Question
  <2>6. CASE h.pc \in {"write", "relist"}
    <3>1. h \in [pc : {"write", "relist"}, by : Voter, on : Suggestion, alone : BOOLEAN, has : BOOLEAN]
      BY <2>3, <2>6 DEF Question, Free
    <3>2. [h EXCEPT !.alone = FALSE]
            \in [pc : {"write", "relist"}, by : Voter, on : Suggestion, alone : BOOLEAN, has : BOOLEAN]
      BY <3>1
    <3> QED
      BY <2>1, <2>2, <2>4, <3>1, <3>2 DEF Question
  <2> QED
    BY <2>2, <2>5, <2>6
<1>5. ASSUME NEW p \in Asking, p # q, p \notin S
      PROVE  asking'[p] = asking[p] /\ ~ Concerns(p, w, x)
  BY <1>1, <1>2, <1>5
<1>6. asking'[q] = [pc |-> "check", by |-> w, on |-> x, alone |-> S = {}]
  BY <1>2
<1>7. asking' \in [Asking -> Question]
  <2>1. asking'[q] \in Question
    BY <1>6 DEF Question
  <2>2. \A p \in Asking : asking'[p] \in Question
    BY <1>3, <1>4, <1>5, <2>1
  <2> QED
    BY <1>2, <2>2
<1>8. button' \in [Voter \X Suggestion -> {Known(TRUE), Known(FALSE), Unsure}]
  BY <1>2 DEF VoicesInv, VoicesTypeOK
<1>9. \A b \in Voter \X Suggestion : button'[b] = IF b = <<w, x>> THEN Unsure ELSE button[b]
  BY <1>2 DEF VoicesInv, VoicesTypeOK
<1>10. VoicesTypeOK'
  BY <1>2, <1>7, <1>8 DEF VoicesInv, VoicesTypeOK
<1>11. ToggleTold'
  BY <1>2, <1>9 DEF VoicesInv, ToggleTold, Known
<1>12. TopOfRanking' = TopOfRanking
  BY <1>2 DEF TopOfRanking, Ranked, IsTop, UpvoteCount, Ahead
\* Who concerns what, and alone, after the press.
<1>13. ASSUME NEW p \in Asking, NEW v \in Voter, NEW s \in Suggestion, Concerns(p, v, s)'
       PROVE  \/ v = w /\ s = x /\ (asking'[p].alone => p = q /\ S = {})
              \/ /\ ~ (v = w /\ s = x) /\ p # q
                 /\ Concerns(p, v, s) /\ asking'[p].alone = asking[p].alone
  <2>1. CASE p = q
    <3>1. asking'[q].by = w /\ asking'[q].on = x
      BY <1>6
    <3>2. asking'[q].alone = (S = {})
      BY <1>6
    <3> QED
      BY <1>13, <2>1, <3>1, <3>2 DEF Concerns
  <2>2. CASE p \in S
    BY <1>4, <1>13, <2>2 DEF Concerns
  <2>3. CASE p # q /\ p \notin S
    BY <1>5, <1>13, <2>3 DEF Concerns
  <2> QED
    BY <2>1, <2>2, <2>3
<1>14. ASSUME NEW p \in Asking, NEW v \in Voter, NEW s \in Suggestion, Concerns(p, v, s)'
       PROVE  /\ button'[<<v, s>>] = Unsure /\ (erased \/ s \in posted)
              /\ asking'[p].alone => \A o \in Asking \ {p} : ~ Concerns(o, v, s)'
  <2>1. CASE v = w /\ s = x /\ (asking'[p].alone => p = q /\ S = {})
    <3>1. ASSUME asking'[p].alone, NEW o \in Asking \ {p} PROVE ~ Concerns(o, v, s)'
      BY <1>5, <2>1, <3>1 DEF Concerns
    <3> QED
      BY <1>2, <1>9, <2>1, <3>1
  <2>2. CASE /\ ~ (v = w /\ s = x) /\ p # q
             /\ Concerns(p, v, s) /\ asking'[p].alone = asking[p].alone
    <3>1. ASSUME asking'[p].alone, NEW o \in Asking \ {p}, Concerns(o, v, s)' PROVE FALSE
      <4>1. Concerns(o, v, s)
        BY <1>13, <2>2, <3>1
      <4> QED
        BY <2>2, <3>1, <4>1 DEF VoicesInv, OpenPress
    <3>2. button[<<v, s>>] = Unsure /\ (erased \/ s \in posted)
      BY <2>2 DEF VoicesInv, OpenPress
    <3> QED
      BY <1>9, <2>2, <3>1, <3>2
  <2> QED
    BY <1>13, <1>14, <2>1, <2>2
<1>15. ASSUME NEW p \in Asking
       PROVE  OpenPress(p)' /\ Toggled(p)' /\ PlanHasLed(p)'
  <2>1. OpenPress(p)'
    BY <1>2, <1>14 DEF OpenPress
  <2>2. Toggled(p)' /\ PlanHasLed(p)'
    <3>1. CASE p = q
      BY <1>6, <3>1 DEF Toggled, PlanHasLed
    <3>2. CASE p \in S
      BY <1>4, <3>2 DEF Toggled, PlanHasLed
    <3>3. CASE p # q /\ p \notin S
      BY <1>2, <1>5, <3>3 DEF VoicesInv, Toggled, PlanHasLed
    <3> QED
      BY <3>1, <3>2, <3>3
  <2> QED
    BY <2>1, <2>2
<1> QED
  BY <1>2, <1>10, <1>11, <1>12, <1>15 DEF VoicesInv, AnsweredHasLed
\* suggestion_repo.go:120-139: one vote moves, and its voter has not been told yet.
LEMMA ToggleVoteSound ==
    ASSUME VoicesInv, NEW q \in Asking, Toggle(q)
    PROVE  VoicesInv'
<1>1. PICK h : h = asking[q]
  OBVIOUS
<1>2. h \in Question /\ h.pc = "write"
  BY <1>1 DEF VoicesInv, VoicesTypeOK, Toggle, Step
<1>3. h.by \in Voter /\ h.on \in Suggestion /\ h.alone \in BOOLEAN /\ h.has \in BOOLEAN
  BY <1>2, QuestionHolds
<1>4. PICK b : b = <<h.by, h.on>>
  OBVIOUS
<1>5. PICK g : g = [pc |-> "relist", by |-> h.by, on |-> h.on, alone |-> h.alone, has |-> h.has]
  OBVIOUS
<1>6. [h EXCEPT !.pc = "relist"] = g
  <2>1. h \in [pc : {"write", "relist"}, by : Voter, on : Suggestion, alone : BOOLEAN, has : BOOLEAN]
    BY <1>2 DEF Question, Free
  <2> QED
    BY <1>5, <2>1
<1>7. /\ g \in Question /\ g.pc = "relist" /\ g.by = h.by /\ g.on = h.on
      /\ g.alone = h.alone /\ g.has = h.has
  BY <1>3, <1>5 DEF Question
<1>8. /\ UNCHANGED <<posted, erased, answered, button>>
      /\ led' = led \cup ({TopOfRanking'} \ {NoTop})
      /\ \/ h.has /\ upvotes' = upvotes \ {b} /\ Then(q, g)
         \/ ~ h.has /\ h.on \in posted /\ upvotes' = upvotes \cup {b} /\ Then(q, g)
         \/ Ends(q) /\ UNCHANGED upvotes
  BY <1>1, <1>4, <1>6 DEF Toggle, Without, Referenced
<1>9. CASE Ends(q) /\ UNCHANGED upvotes
  <2>1. TopOfRanking' = TopOfRanking
    BY <1>8, <1>9 DEF TopOfRanking, Ranked, IsTop, UpvoteCount, Ahead
  <2>2. led' = led
    BY <1>8, <2>1 DEF VoicesInv
  <2>3. Then(q, Free) /\ Free \in Question /\ Free.pc = "free"
    BY <1>9 DEF Ends, Question, Free
  <2>4. ToggleTold'
    BY <1>8, <1>9 DEF VoicesInv, ToggleTold, Known
  <2>5. ASSUME NEW p \in Asking, NEW v \in Voter, NEW s \in Suggestion, Concerns(p, v, s)'
        PROVE  button'[<<v, s>>] = Unsure
    <3>1. Concerns(p, v, s)
      BY <2>3, <2>5 DEF Concerns, Then, VoicesInv, VoicesTypeOK
    <3> QED
      BY <1>8, <3>1 DEF VoicesInv, OpenPress
  <2>6. /\ answered' \in Suggestion \cup {NoTop, NoPlan} /\ answered' \in led \cup {NoTop, NoPlan}
        /\ button' \in [Voter \X Suggestion -> {Known(TRUE), Known(FALSE), Unsure}]
    BY <1>8 DEF VoicesInv, VoicesTypeOK, AnsweredHasLed
  <2> QED
    BY <1>8, <1>9, <2>2, <2>3, <2>4, <2>5, <2>6, AskingSound
<1>10. CASE Then(q, g) /\ \/ h.has /\ upvotes' = upvotes \ {b}
                          \/ ~ h.has /\ h.on \in posted /\ upvotes' = upvotes \cup {b}
  <2>1. Concerns(q, h.by, h.on)
    BY <1>1, <1>2 DEF Concerns
  <2>2. /\ \A c : c # b => (c \in upvotes' <=> c \in upvotes)
        /\ b \in upvotes' <=> ~ h.has
    BY <1>3, <1>10
  <2>3. /\ asking' \in [Asking -> Question] /\ asking'[q] = g
        /\ \A p \in Asking \ {q} : asking'[p] = asking[p]
    BY <1>7, <1>10 DEF Then, VoicesInv, VoicesTypeOK
  <2>4. upvotes' \subseteq Voter \X posted
    BY <1>3, <1>4, <1>10 DEF VoicesInv, VoicesTypeOK
  <2>5. VoicesTypeOK'
    BY <1>8, <2>3, <2>4 DEF VoicesInv, VoicesTypeOK
  <2>6. ToggleTold'
    <3>1. button[b] = Unsure
      BY <1>3, <1>4, <2>1 DEF VoicesInv, OpenPress
    <3>2. ASSUME NEW c \in Voter \X Suggestion PROVE button'[c] \in {Unsure, Known(c \in upvotes')}
      BY <1>8, <2>2, <3>1 DEF VoicesInv, ToggleTold, Known
    <3> QED
      BY <3>2 DEF ToggleTold, Known
  <2>7. ASSUME NEW p \in Asking, NEW v \in Voter, NEW s \in Suggestion
        PROVE  /\ Concerns(p, v, s)' <=> Concerns(p, v, s)
               /\ Concerns(p, v, s) => asking'[p].alone = asking[p].alone
    BY <1>1, <1>2, <1>7, <2>3 DEF Concerns
  <2>8. \A p \in Asking : OpenPress(p)'
    BY <1>8, <2>7 DEF VoicesInv, OpenPress
  <2>9. ASSUME NEW p \in Asking
        PROVE  Toggled(p)' /\ PlanHasLed(p)'
    <3>1. CASE p = q
      BY <1>4, <1>7, <2>2, <2>3, <3>1 DEF Toggled, PlanHasLed
    <3>2. CASE p # q
      <4>1. asking'[p] = asking[p] /\ asking[p] \in Question
        BY <2>3, <3>2 DEF VoicesInv, VoicesTypeOK
      <4>2. ASSUME asking[p].pc = "relist", asking[p].alone
            PROVE  <<asking[p].by, asking[p].on>> # b
        <5>1. asking[p].by \in Voter /\ asking[p].on \in Suggestion
          BY <4>1, <4>2, QuestionHolds
        <5>2. Concerns(p, asking[p].by, asking[p].on)
          BY <4>2 DEF Concerns
        <5>3. ~ Concerns(q, asking[p].by, asking[p].on)
          BY <3>2, <4>2, <5>1, <5>2 DEF VoicesInv, OpenPress
        <5> QED
          BY <1>4, <2>1, <5>3
      <4>3. Toggled(p)'
        BY <1>8, <2>2, <4>1, <4>2 DEF VoicesInv, Toggled
      <4>4. PlanHasLed(p)'
        BY <1>8, <4>1 DEF VoicesInv, PlanHasLed
      <4> QED
        BY <4>3, <4>4
    <3> QED
      BY <3>1, <3>2
  <2>10. AnsweredHasLed' /\ TopOfRanking' \in led' \cup {NoTop} /\ IsFiniteSet(posted')
    BY <1>8 DEF VoicesInv, AnsweredHasLed
  <2> QED
    BY <2>5, <2>6, <2>8, <2>9, <2>10 DEF VoicesInv
<1> QED
  BY <1>8, <1>9, <1>10

LEMMA ProposeSound ==
    ASSUME VoicesInv, NEW x \in Suggestion, Propose(x)
    PROVE  VoicesInv'
<1>1. /\ x \notin posted /\ ~ erased /\ posted' = posted \cup {x}
      /\ UNCHANGED <<upvotes, erased, answered, button, led, asking>>
  BY DEF Propose
<1>2. VotesAreSound' /\ TopOfRanking' = TopOfRanking
  BY <1>1, SoundVotes, ProposalKeepsTheTop
<1>3. VoicesTypeOK'
  BY <1>1 DEF VoicesInv, VoicesTypeOK
<1>4. ToggleTold' /\ AnsweredHasLed'
  BY <1>1 DEF VoicesInv, ToggleTold, AnsweredHasLed, Known
<1>5. ASSUME NEW q \in Asking
      PROVE  OpenPress(q)' /\ Toggled(q)' /\ PlanHasLed(q)'
  <2>1. OpenPress(q)' /\ PlanHasLed(q)'
    BY <1>1 DEF VoicesInv, OpenPress, Concerns, PlanHasLed
  <2>2. asking[q].pc = "relist" => asking[q].on # x
    <3> SUFFICES ASSUME asking[q].pc = "relist", asking[q].on = x PROVE FALSE
      OBVIOUS
    <3>1. asking[q].by \in Voter
      BY QuestionHolds DEF VoicesInv, VoicesTypeOK
    <3>2. Concerns(q, asking[q].by, x)
      BY DEF Concerns
    <3> QED
      BY <1>1, <3>1, <3>2 DEF VoicesInv, OpenPress
  <2>3. Toggled(q)'
    BY <1>1, <2>2 DEF VoicesInv, Toggled
  <2> QED
    BY <2>1, <2>3
<1> QED
  BY <1>1, <1>2, <1>3, <1>4, <1>5 DEF VoicesInv, VotesAreSound

\* delete_problem.go:45: everything goes, and nobody is sure of anything.
LEMMA EraseSound == ASSUME VoicesInv, Erase PROVE VoicesInv'
<1>1. /\ erased' /\ posted' = {} /\ upvotes' = {} /\ answered' = NoPlan
      /\ button' = [b \in Voter \X Suggestion |-> Unsure]
      /\ UNCHANGED <<led, asking>>
  BY DEF Erase
<1>2. VoicesTypeOK'
  BY <1>1 DEF VoicesInv, VoicesTypeOK
<1>3. ToggleTold' /\ AnsweredHasLed'
  BY <1>1 DEF ToggleTold, AnsweredHasLed
<1>4. IsFiniteSet(posted') /\ VotesAreSound'
  BY <1>1, FS_EmptySet DEF VotesAreSound
<1>5. TopOfRanking' = NoTop
  BY <1>1, <1>4, TopLeadsNext DEF LeaderIsTop
<1>6. \A q \in Asking : Toggled(q)' /\ PlanHasLed(q)'
  BY <1>1 DEF VoicesInv, Toggled, PlanHasLed
<1>7. \A q \in Asking : OpenPress(q)'
  BY <1>1 DEF VoicesInv, OpenPress, Concerns
<1> QED
  BY <1>2, <1>3, <1>4, <1>5, <1>6, <1>7 DEF VoicesInv

LEMMA VoicesStepSound == VoicesInv /\ [VoicesNext]_voices => VoicesInv'
<1> SUFFICES ASSUME VoicesInv, [VoicesNext]_voices PROVE VoicesInv'
  OBVIOUS
<1>1. CASE UNCHANGED voices
  <2>1. TopOfRanking' = TopOfRanking
    BY <1>1 DEF voices, TopOfRanking, Ranked, IsTop, UpvoteCount, Ahead
  <2>2. VoicesTypeOK' /\ ToggleTold' /\ AnsweredHasLed' /\ IsFiniteSet(posted')
    BY <1>1 DEF voices, VoicesInv, VoicesTypeOK, ToggleTold, AnsweredHasLed, Known
  <2>3. \A q \in Asking : OpenPress(q)' /\ Toggled(q)' /\ PlanHasLed(q)'
    BY <1>1 DEF voices, VoicesInv, OpenPress, Concerns, Toggled, PlanHasLed
  <2> QED
    BY <1>1, <2>1, <2>2, <2>3 DEF voices, VoicesInv
<1>2. CASE VoicesNext
  BY <1>2, ProposeSound, LookSound, EraseSound, PressSound, ToggleVoteSound, RelistSound, QuietSound
  DEF VoicesNext
<1> QED
  BY <1>1, <1>2

\* upvote_suggestion.go:31, service.go:40, plan.go:13: whoever else presses, proposes or reads
\* meanwhile, each vote is as its voter was last told unless presses of theirs overlapped,
\* one suggestion is the top of the page and the question, and every plan answers one that
\* was.
THEOREM VotesAreTold == VoicesSpec => []VoicesAreCounted
<1>1. VoicesSpec => []VoicesInv
  BY VoicesInitSound, VoicesStepSound, PTL DEF VoicesSpec
<1> QED
  BY <1>1, VoicesInvIsSound, PTL

LEMMA VotesStay ==
    ASSUME VoicesNext, NEW v \in Voter, NEW s \in Suggestion,
           (<<v, s>> \in upvotes) # (<<v, s>> \in upvotes')
    PROVE  erased' \/ \E q \in Asking : Concerns(q, v, s)
<1>1. Erase \/ upvotes' = upvotes \/ \E q \in Asking : Toggle(q)
  BY DEF VoicesNext, Propose, Look, Press, Check, Relist, ReadTop, StorePlan, Drop
<1>2. ASSUME NEW q \in Asking, Toggle(q), upvotes' # upvotes
      PROVE  Concerns(q, v, s)
  <2>1. asking[q].pc = "write"
    BY <1>2 DEF Toggle, Step
  <2>2. upvotes' \in {upvotes \ {<<asking[q].by, asking[q].on>>},
                      upvotes \cup {<<asking[q].by, asking[q].on>>}}
    BY <1>2 DEF Toggle, Without
  <2>3. v = asking[q].by /\ s = asking[q].on
    BY <2>2
  <2> QED
    BY <2>1, <2>3 DEF Concerns
<1>3. Erase => erased'
  BY DEF Erase
<1> QED
  BY <1>1, <1>2, <1>3

\* suggestion_repo.go:120-139: an upvote comes and goes by its voter's own request alone, or
\* with the report.
THEOREM OwnVotes == VoicesSpec => OwnVoteOnly
<1>1. [VoicesNext]_voices =>
        [\A v \in Voter, s \in Suggestion :
            (<<v, s>> \in upvotes) # (<<v, s>> \in upvotes') =>
                erased' \/ \E q \in Asking : Concerns(q, v, s)]_voices
  BY VotesStay
<1> QED
  BY <1>1, PTL DEF VoicesSpec, OwnVoteOnly
=============================================================================
