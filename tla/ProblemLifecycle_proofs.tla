----------------------- MODULE ProblemLifecycle_proofs -----------------------
(***************************************************************************)
(* Proofs about ProblemLifecycle, for any number of problems, residents,    *)
(* admins, offices and requests in flight, and any threshold V: its types,   *)
(* the inductive invariant Inv and the properties that follow from it.       *)
(***************************************************************************)
EXTENDS ProblemRefinement, FiniteSetTheorems, TLAPS

\* The votes on a problem are finitely many, so the recomputed count is a number.
LEMMA VotersFinite ==
    ASSUME NEW p \in Problem
    PROVE  IsFiniteSet(ValidVoters(p)) /\ Cardinality(ValidVoters(p)) \in Nat
<1>1. ValidVoters(p) \subseteq Resident
  BY DEF ValidVoters
<1>2. IsFiniteSet(ValidVoters(p))
  BY <1>1, ResidentAssumption, FS_Subset
<1> QED
  BY <1>2, FS_CardinalityType

\* Evaluate returns a status of the enumeration.
LEMMA EvaluateType ==
    ASSUME NEW s \in Status, NEW n \in Nat
    PROVE  Evaluate(s, n) \in Status
  BY DEF Evaluate, Status

\* Moving to the next statement, or ending, keeps the table of requests well-formed.
LEMMA GotoType ==
    ASSUME TypeOK, NEW c \in Request, req[c] # Idle,
           NEW at \in {"purge", "count", "save", "mark", "audit", "tell"},
           at \in {"count", "save"} => req[c].pc \in {"addvote", "count"},
           Goto(c, at)
    PROVE  req' \in [Request -> Handler \cup {Idle}]
<1>1. req[c] \in Handler
  BY DEF TypeOK
<1>2. [req[c] EXCEPT !.pc = at] \in Handler
  BY <1>1 DEF Handler, Fields
<1>3. req' = [req EXCEPT ![c] = [req[c] EXCEPT !.pc = at]]
  BY DEF Goto
<1> QED
  BY <1>2, <1>3 DEF TypeOK

LEMMA FinishType ==
    ASSUME TypeOK, NEW c \in Request, Finish(c)
    PROVE  req' \in [Request -> Handler \cup {Idle}]
  BY DEF TypeOK, Finish

\* Every load leaves a well-formed table of requests; Report also inserts its row.
LEMMA LoadType ==
    ASSUME TypeOK, NEW c \in Request, NEW p \in Problem, Load(c, p)
    PROVE  TypeOK'
<1> DEFINE Table == [Request -> Handler \cup {Idle}]
<1>1. ASSUME req' \in Table, UNCHANGED <<record, trail>> PROVE TypeOK'
  BY <1>1 DEF TypeOK, record, trail
<1>2. CASE Report(c, p)
  <2>1. req' \in Table
    BY <1>2 DEF Report, Begin, TypeOK, Handler, Fields, Status
  <2> QED
    BY <1>2, <2>1 DEF Report, TypeOK, trail, Status
<1>3. ASSUME NEW a \in Admin, LoadApprove(c, p, a) PROVE TypeOK'
  <2>1. req' \in Table
    BY <1>3 DEF LoadApprove, Begin, TypeOK, Handler, Fields, Status
  <2> QED
    BY <1>1, <1>3, <2>1 DEF LoadApprove
<1>4. ASSUME NEW a \in Admin, LoadReject(c, p, a) PROVE TypeOK'
  <2>1. req' \in Table
    BY <1>4 DEF LoadReject, Rejectable, Begin, TypeOK, Handler, Fields, Status
  <2> QED
    BY <1>1, <1>4, <2>1 DEF LoadReject
<1>5. CASE LoadWithdraw(c, p)
  <2>1. req' \in Table
    BY <1>5 DEF LoadWithdraw, Withdrawable, Begin, TypeOK, Handler, Fields, Status
  <2> QED
    BY <1>1, <1>5, <2>1 DEF LoadWithdraw
<1>6. CASE LoadEdit(c, p)
  <2>1. req' \in Table
    BY <1>6 DEF LoadEdit, Editable, Begin, TypeOK, Handler, Fields, Status
  <2> QED
    BY <1>1, <1>6, <2>1 DEF LoadEdit
<1>7. CASE LoadDelete(c, p)
  <2>1. req' \in Table
    BY <1>7 DEF LoadDelete, Exists, Begin, TypeOK, Handler, Fields
  <2> QED
    BY <1>1, <1>7, <2>1 DEF LoadDelete
<1>8. ASSUME NEW r \in Resident, NEW choice \in {"valid", "invalid"}, LoadVote(c, p, r, choice)
      PROVE  TypeOK'
  <2>1. req' \in Table
    BY <1>8 DEF LoadVote, PubliclyVisible, Begin, TypeOK, Handler, Fields
  <2> QED
    BY <1>1, <1>8, <2>1 DEF LoadVote
<1>9. ASSUME NEW a \in Admin, NEW o \in Official, LoadAssign(c, p, a, o) PROVE TypeOK'
  <2>1. req' \in Table
    BY <1>9 DEF LoadAssign, EligibleForAssignment, Begin, TypeOK, Handler, Fields, Status
  <2> QED
    BY <1>1, <1>9, <2>1 DEF LoadAssign
<1> QED
  BY <1>2, <1>3, <1>4, <1>5, <1>6, <1>7, <1>8, <1>9 DEF Load

\* Every statement after the load preserves the types.
LEMMA StepType ==
    ASSUME TypeOK, NEW c \in Request, Step(c)
    PROVE  TypeOK'
<1> DEFINE Table == [Request -> Handler \cup {Idle}]
<1>1. ASSUME req[c] # Idle PROVE req[c] \in Handler /\ req[c].p \in Problem
  BY <1>1 DEF TypeOK, Handler, Fields
<1>2. CASE Screen(c)
  <2>1. req' \in Table
    BY <1>2, GotoType, FinishType DEF Screen, At
  <2>2. req[c].to \in Status /\ req[c].who \in Admin
    BY <1>1, <1>2 DEF Screen, At, Handler, Fields
  <2> QED
    BY <1>2, <2>1, <2>2 DEF Screen, TypeOK, trail
<1>3. CASE Withdraw(c)
  <2>1. req' \in Table
    BY <1>3, GotoType, FinishType DEF Withdraw, At
  <2> QED
    BY <1>3, <2>1 DEF Withdraw, TypeOK, trail, Status
<1>4. CASE Edit(c)
  <2>1. req' \in Table
    BY <1>4, GotoType, FinishType DEF Edit, At
  <2>2. UNCHANGED <<status, validCount, reviewer, votes, holder, trail>>
    BY <1>4 DEF Edit
  <2>3. text' \in [Problem -> Nat]
    BY <1>4 DEF Edit, TypeOK
  <2> QED
    BY <2>1, <2>2, <2>3 DEF TypeOK, trail
<1>5. CASE Erase(c)
  <2>1. req' \in Table
    BY <1>5, GotoType, FinishType DEF Erase, At
  <2>2. NoVotes \in [Resident -> {"valid", "invalid", None}]
    BY DEF NoVotes
  <2>3. CASE UNCHANGED <<record, told>>
    BY <1>5, <2>1, <2>3 DEF Erase, TypeOK, record
  <2>4. CASE /\ status' = [status EXCEPT ![req[c].p] = "Gone"]
             /\ validCount' = [validCount EXCEPT ![req[c].p] = 0]
             /\ text' = [text EXCEPT ![req[c].p] = 0]
             /\ reviewer' = [reviewer EXCEPT ![req[c].p] = None]
             /\ votes' = [votes EXCEPT ![req[c].p] = NoVotes]
             /\ holder' = [holder EXCEPT ![req[c].p] = None]
             /\ told' = [told EXCEPT ![req[c].p] = {}]
             /\ audit' = audit
    BY <2>1, <2>2, <2>4 DEF TypeOK, NoRow
  <2> QED
    BY <1>5, <2>3, <2>4 DEF Erase
<1>6. CASE Purge(c)
  <2>1. req' \in Table
    BY <1>6, GotoType, FinishType DEF Purge
  <2> QED
    BY <1>6, <2>1 DEF Purge, TypeOK, record
<1>7. CASE AddVote(c)
  <2>1. req' \in Table
    BY <1>7, GotoType, FinishType DEF AddVote, At
  <2>2. req[c].arg \in {"valid", "invalid"}
    BY <1>1, <1>7 DEF AddVote, At, Handler
  <2>3. votes' \in [Problem -> [Resident -> {"valid", "invalid", None}]]
    <3>1. CASE votes' = votes
      BY <3>1 DEF TypeOK
    <3>2. CASE votes' = [votes EXCEPT ![req[c].p] =
                          [votes[req[c].p] EXCEPT ![req[c].who] = req[c].arg]]
      BY <2>2, <3>2 DEF TypeOK
    <3> QED
      BY <1>7, <3>1, <3>2 DEF AddVote
  <2> QED
    BY <1>7, <2>1, <2>3 DEF AddVote, TypeOK, trail
<1>8. CASE CountVotes(c)
  <2>1. req[c] # Idle
    BY <1>8 DEF CountVotes, At
  <2>2. DistinctValidVoters(req[c].p) \in Nat
    BY <1>1, <2>1, VotersFinite DEF DistinctValidVoters
  <2>3. Evaluate(req[c].from, DistinctValidVoters(req[c].p)) \in Status
    BY <1>1, <2>1, <2>2, EvaluateType DEF Handler, Fields
  <2>4. [req[c] EXCEPT !.pc = "save", !.count = DistinctValidVoters(req[c].p),
           !.to = Evaluate(req[c].from, DistinctValidVoters(req[c].p))] \in Handler
    BY <1>1, <1>8, <2>1, <2>2, <2>3 DEF Handler, Fields, CountVotes, At
  <2>5. req' \in Table
    BY <1>8, <2>4 DEF CountVotes, TypeOK
  <2> QED
    BY <1>8, <2>5 DEF CountVotes, TypeOK, record, trail
<1>9. CASE SaveCount(c)
  <2>1. req' \in Table
    BY <1>9, GotoType, FinishType DEF SaveCount, At
  <2>2. req[c].count \in Nat /\ req[c].to \in Status
    BY <1>1, <1>9 DEF SaveCount, At, Handler, Fields
  <2> QED
    BY <1>9, <2>1, <2>2 DEF SaveCount, TypeOK, trail
<1>10. CASE CreateAssignment(c)
  <2>1. req' \in Table
    BY <1>10, GotoType, FinishType DEF CreateAssignment, At
  <2> QED
    BY <1>1, <1>10, <2>1 DEF CreateAssignment, At, TypeOK, trail, Handler
<1>11. CASE MarkAssigned(c)
  <2>1. req' \in Table
    BY <1>11, GotoType, FinishType DEF MarkAssigned, At
  <2> QED
    BY <1>11, <2>1 DEF MarkAssigned, TypeOK, trail, Status
<1>12. CASE AppendAudit(c)
  <2>1. req' \in Table
    BY <1>12, GotoType, FinishType DEF AppendAudit, At
  <2> QED
    BY <1>12, <2>1 DEF AppendAudit, TypeOK, record
<1>13. CASE Tell(c)
  <2>1. req' \in Table
    BY <1>13, GotoType, FinishType DEF Tell
  <2> QED
    BY <1>13, <2>1 DEF Tell, TypeOK, record
<1> QED
  BY <1>2, <1>3, <1>4, <1>5, <1>6, <1>7, <1>8, <1>9, <1>10, <1>11, <1>12, <1>13 DEF Step

\* TypeOK: every reachable state is well-typed.
THEOREM TypeCorrect == Spec => []TypeOK
<1>1. Init => TypeOK
  BY DEF Init, TypeOK, NoRow, NoVotes
<1>2. TypeOK /\ [Next]_vars => TypeOK'
  <2> SUFFICES ASSUME TypeOK, [Next]_vars PROVE TypeOK'
    OBVIOUS
  <2>1. ASSUME NEW c \in Request, NEW p \in Problem, Load(c, p) PROVE TypeOK'
    BY <2>1, LoadType
  <2>2. ASSUME NEW c \in Request, Step(c) PROVE TypeOK'
    BY <2>2, StepType
  <2>3. ASSUME NEW c \in Request, Die(c) PROVE TypeOK'
    BY <2>3, FinishType DEF Die, TypeOK, record, trail
  <2>4. ASSUME NEW p \in Problem, NEW s \in CaseMirror, MirrorCase(p, s) PROVE TypeOK'
    BY <2>4 DEF MirrorCase, TypeOK, trail, CaseMirror, Status
  <2>5. CASE UNCHANGED vars
    BY <2>5 DEF vars, TypeOK
  <2> QED
    BY <2>1, <2>2, <2>3, <2>4, <2>5 DEF Next
<1> QED
  BY <1>1, <1>2, PTL DEF Spec

-----------------------------------------------------------------------------
\* What no step takes back: a filed problem stays filed, a public one public or erased,
\* a reviewer, an official and a valid vote stay until the problem goes, and an erased
\* problem never returns.
Steady(p) ==
    /\ status[p] # "Unfiled" => status'[p] # "Unfiled"
    /\ Public(p) => Public(p)'
    /\ Screened(p) => Screened(p)'
    /\ Held(p) => Held(p)'
    /\ status[p] = "Gone" => status'[p] = "Gone"
    /\ status'[p] = "Gone" \/ ValidVoters(p) \subseteq ValidVoters(p)'

\* The facts about one request in flight that Inv provides.
LEMMA RequestFacts ==
    ASSUME Inv, NEW c \in Request, req[c] # Idle
    PROVE  /\ req[c] \in Handler /\ req[c].p \in Problem /\ Relies(req[c])
           /\ req[c].from \in Status /\ req[c].to \in Status /\ req[c].count \in Nat
  BY DEF Inv, TypeOK, Handler, Fields, InFlight

\* A step that writes no problem, vote or assignment row is steady.
LEMMA UntouchedSteady ==
    ASSUME UNCHANGED <<status, reviewer, votes, holder>>, NEW p \in Problem
    PROVE  Steady(p)
  BY DEF Steady, Public, Screened, Held, ValidVoters

\* No statement of a request takes back what others rely on.
LEMMA StepSteady ==
    ASSUME Inv, NEW c \in Request, Step(c), NEW p \in Problem
    PROVE  Steady(p)
<1> DEFINE h == req[c]
<1>1. TypeOK
  BY DEF Inv
<1>2. CASE Screen(c)
  <2>1. h.p \in Problem /\ h.from \in Status /\ h.to \in {"Reported", "Rejected"} /\ h.who \in Admin
    BY <1>2, RequestFacts DEF Screen, At, Relies, Handler
  <2> QED
    BY <1>1, <1>2, <2>1, NoneAssumption
    DEF Screen, TypeOK, Steady, Public, Screened, Held, ValidVoters, Status
<1>3. CASE Withdraw(c)
  <2>1. h.p \in Problem /\ h.from \in Status
    BY <1>3, RequestFacts DEF Withdraw, At
  <2> QED
    BY <1>1, <1>3, <2>1 DEF Withdraw, TypeOK, Steady, Public, Screened, Held, ValidVoters, Status
<1>4. CASE Erase(c)
  <2>1. h.p \in Problem
    BY <1>4, RequestFacts DEF Erase, At
  <2> QED
    BY <1>1, <1>4, <2>1
    DEF Erase, TypeOK, record, Exists, Steady, Public, Screened, Held, ValidVoters, Status
<1>5. CASE AddVote(c)
  <2>1. h.p \in Problem /\ h.who \in Resident
    BY <1>5, RequestFacts DEF AddVote, At, Handler
  <2>2. ValidVoters(p) \subseteq ValidVoters(p)'
    BY <1>1, <1>5, <2>1, NoneAssumption DEF AddVote, MayVote, TypeOK, ValidVoters
  <2> QED
    BY <1>5, <2>2 DEF AddVote, Steady, Public, Screened, Held
<1>6. CASE SaveCount(c)
  <2>1. h.p \in Problem /\ h.to \in Status /\ h.to # "PendingApproval"
    BY <1>6, RequestFacts DEF SaveCount, At, Relies, Evaluate
  <2> QED
    BY <1>1, <1>6, <2>1
    DEF SaveCount, TypeOK, Exists, Steady, Public, Screened, Held, ValidVoters, Status
<1>7. CASE CreateAssignment(c)
  <2>1. h.p \in Problem /\ h.arg \in Official
    BY <1>7, RequestFacts DEF CreateAssignment, At, Handler
  <2> QED
    BY <1>1, <1>7, <2>1, NoneAssumption
    DEF CreateAssignment, TypeOK, Steady, Public, Screened, Held, ValidVoters
<1>8. CASE MarkAssigned(c)
  <2>1. h.p \in Problem
    BY <1>8, RequestFacts DEF MarkAssigned, At
  <2> QED
    BY <1>1, <1>8, <2>1
    DEF MarkAssigned, TypeOK, Exists, Steady, Public, Screened, Held, ValidVoters, Status
<1>9. CASE Edit(c) \/ Purge(c) \/ CountVotes(c) \/ AppendAudit(c) \/ Tell(c)
  <2>1. UNCHANGED <<status, reviewer, votes, holder>>
    BY <1>9 DEF Edit, Purge, CountVotes, AppendAudit, Tell, record
  <2> QED
    BY <2>1, UntouchedSteady
<1> QED
  BY <1>2, <1>3, <1>4, <1>5, <1>6, <1>7, <1>8, <1>9 DEF Step

\* The same of every step of the specification.
LEMMA NextSteady ==
    ASSUME Inv, Next, NEW p \in Problem
    PROVE  Steady(p)
<1>1. TypeOK
  BY DEF Inv
<1>2. ASSUME NEW c \in Request, NEW q \in Problem, Load(c, q) PROVE Steady(p)
  <2>1. CASE Report(c, q)
    BY <1>1, <2>1 DEF Report, TypeOK, Steady, Public, Screened, Held, ValidVoters
  <2>2. CASE ~ Report(c, q)
    <3>1. UNCHANGED <<status, reviewer, votes, holder>>
      BY <1>2, <2>2 DEF Load, LoadApprove, LoadReject, LoadWithdraw, LoadEdit, LoadDelete,
                        LoadVote, LoadAssign, record
    <3> QED
      BY <3>1, UntouchedSteady
  <2> QED
    BY <2>1, <2>2
<1>3. ASSUME NEW c \in Request, Step(c) PROVE Steady(p)
  BY <1>3, StepSteady
<1>4. ASSUME NEW c \in Request, Die(c) PROVE Steady(p)
  <2>1. UNCHANGED <<status, reviewer, votes, holder>>
    BY <1>4 DEF Die, record
  <2> QED
    BY <2>1, UntouchedSteady
<1>5. ASSUME NEW q \in Problem, NEW s \in CaseMirror, MirrorCase(q, s) PROVE Steady(p)
  BY <1>1, <1>5
  DEF MirrorCase, CaseMirror, TypeOK, Exists, Status, Steady, Public, Screened, Held, ValidVoters
<1> QED
  BY <1>2, <1>3, <1>4, <1>5 DEF Next

\* Valid voters only accumulate, and their number with them.
LEMMA VotersGrow ==
    ASSUME NEW p \in Problem, ValidVoters(p) \subseteq ValidVoters(p)'
    PROVE  /\ Cardinality(ValidVoters(p)) \in Nat /\ Cardinality(ValidVoters(p))' \in Nat
           /\ Cardinality(ValidVoters(p)) <= Cardinality(ValidVoters(p))'
<1>1. ValidVoters(p)' \subseteq Resident
  BY DEF ValidVoters
<1>2. IsFiniteSet(ValidVoters(p)')
  BY <1>1, ResidentAssumption, FS_Subset
<1>3. Cardinality(ValidVoters(p)') \in Nat
  BY <1>2, FS_CardinalityType
<1>4. Cardinality(ValidVoters(p)) <= Cardinality(ValidVoters(p)')
  BY <1>2, FS_Subset
<1> QED
  BY <1>3, <1>4, VotersFinite

\* A steady step leaves a waiting request with everything it relies on.
LEMMA OthersRely ==
    ASSUME Inv, TypeOK', NEW d \in Request, req[d] # Idle, req'[d] = req[d],
           \A p \in Problem : Steady(p)
    PROVE  Relies(req[d])'
<1>1. PICK q \in Problem : q = req[d].p
  BY RequestFacts
<1>2. Steady(q) /\ Relies(req[d]) /\ req[d].count \in Nat
  BY RequestFacts
<1>3. status'[q] = "Gone"
      \/ /\ Cardinality(ValidVoters(q)) \in Nat /\ Cardinality(ValidVoters(q))' \in Nat
         /\ Cardinality(ValidVoters(q)) <= Cardinality(ValidVoters(q))'
  BY <1>2, VotersGrow DEF Steady
<1>4. EnoughVoices(q) => EnoughVoices(q)'
  BY <1>2, <1>3, ThresholdAssumption DEF Steady, EnoughVoices
<1>5. (status[q] = "Gone" \/ req[d].count <= Cardinality(ValidVoters(q)))
      => (status'[q] = "Gone" \/ req[d].count <= Cardinality(ValidVoters(q))')
  BY <1>2, <1>3 DEF Steady
<1>6. req'[d].p = q /\ ValidVoters(req[d].p)' = ValidVoters(q)'
  BY <1>1 DEF ValidVoters
<1> QED
  BY <1>1, <1>2, <1>4, <1>5, <1>6
  DEF Relies, Steady, Evaluate, Public, Screened, Held, EnoughVoices

-----------------------------------------------------------------------------
\* Inv's facts about problems, gathered problem by problem.
Sound(p) ==
    /\ status[p] \in NoRow \cup {"PendingApproval"} => Untouched(p)
    /\ holder[p] # None => reviewer[p] # None
    /\ status[p] \in Status \ {"PendingApproval", "Withdrawn"} => reviewer[p] # None
    /\ status[p] \in {"Assigned"} \cup CaseMirror => holder[p] # None
    /\ status[p] = "Validated" => Cardinality(ValidVoters(p)) >= V
    /\ validCount[p] <= Cardinality(ValidVoters(p))

LEMMA InvIsSound ==
    Inv <=> TypeOK /\ InFlight /\ \A p \in Problem : Sound(p)
  BY DEF Inv, Sound, RecordsAgree, ScreenedFirst, HeldOnceAssigned, ValidatedMeansV,
         CountNeverOverstates

\* A problem whose row, votes, assignment and messages a step leaves alone stays sound.
LEMMA LeftAloneSound ==
    ASSUME NEW p \in Problem, Sound(p), status'[p] = status[p], validCount'[p] = validCount[p],
           reviewer'[p] = reviewer[p], votes'[p] = votes[p], holder'[p] = holder[p],
           told'[p] = told[p]
    PROVE  Sound(p)'
<1>1. ValidVoters(p)' = ValidVoters(p)
  BY DEF ValidVoters
<1> QED
  BY <1>1 DEF Sound, Untouched

\* The compare-and-sets of screening and withdrawal.
LEMMA DecisionSound ==
    ASSUME Inv, NEW c \in Request, Screen(c) \/ Withdraw(c), NEW p \in Problem
    PROVE  Sound(p)'
<1> DEFINE h == req[c]
<1>1. TypeOK /\ Sound(p)
  BY InvIsSound
<1>2. /\ h.p \in Problem /\ h.from \in Status
      /\ h.pc = "screen" => h.to \in {"Reported", "Rejected"} /\ h.who \in Admin
  BY RequestFacts DEF Screen, Withdraw, At, Relies, Handler
<1>3. ValidVoters(p)' = ValidVoters(p) /\ validCount' = validCount /\ holder' = holder
  BY DEF Screen, Withdraw, ValidVoters
<1>4. CASE p # h.p
  BY <1>1, <1>2, <1>4, LeftAloneSound DEF TypeOK, Screen, Withdraw, trail
<1>5. CASE p = h.p /\ Screen(c)
  BY <1>1, <1>2, <1>3, <1>5, NoneAssumption
  DEF TypeOK, Screen, At, trail, Sound, Untouched, Status, NoRow, CaseMirror
<1>6. CASE p = h.p /\ Withdraw(c)
  BY <1>1, <1>2, <1>3, <1>6
  DEF TypeOK, Withdraw, At, trail, Sound, Untouched, Status, NoRow, CaseMirror
<1> QED
  BY <1>4, <1>5, <1>6

\* A delete leaves nothing that could disagree.
LEMMA EraseSound ==
    ASSUME Inv, NEW c \in Request, Erase(c), NEW p \in Problem
    PROVE  Sound(p)'
<1> DEFINE h == req[c]
<1>1. TypeOK /\ Sound(p) /\ h.p \in Problem
  BY InvIsSound, RequestFacts DEF Erase, At
<1>2. CASE p # h.p \/ ~ Exists(h.p)
  BY <1>1, <1>2, LeftAloneSound DEF TypeOK, Erase, record
<1>3. CASE p = h.p /\ Exists(h.p)
  <2>1. Untouched(p)' /\ status'[p] = "Gone" /\ holder'[p] = None
    BY <1>1, <1>3 DEF Erase, TypeOK, Untouched
  <2>2. ValidVoters(p)' = {}
    BY <2>1, NoneAssumption DEF Untouched, NoVotes, ValidVoters
  <2> QED
    BY <2>1, <2>2, FS_EmptySet DEF Sound, Untouched, Status, CaseMirror
<1> QED
  BY <1>2, <1>3

\* A vote is only ever added.
LEMMA AddVoteSound ==
    ASSUME Inv, NEW c \in Request, AddVote(c), NEW p \in Problem
    PROVE  Sound(p)'
<1> DEFINE h == req[c]
<1>1. TypeOK /\ Sound(p) /\ h.p \in Problem /\ Public(h.p) /\ Steady(p)
  BY InvIsSound, RequestFacts, StepSteady DEF AddVote, At, Relies, Step
<1>2. CASE p # h.p \/ ~ MayVote(h.p, h.who)
  BY <1>1, <1>2, LeftAloneSound DEF TypeOK, AddVote, trail
<1>3. CASE p = h.p /\ MayVote(h.p, h.who)
  <2>1. status[p] \notin NoRow \cup {"PendingApproval"} /\ status' = status
    BY <1>1, <1>3 DEF AddVote, MayVote, Exists, Public, NoRow, Status
  <2>2. /\ Cardinality(ValidVoters(p)) \in Nat /\ Cardinality(ValidVoters(p))' \in Nat
        /\ Cardinality(ValidVoters(p)) <= Cardinality(ValidVoters(p))'
    BY <1>1, <2>1, VotersGrow DEF Steady, NoRow
  <2> QED
    BY <1>1, <2>1, <2>2, ThresholdAssumption DEF AddVote, trail, Sound, TypeOK
<1> QED
  BY <1>2, <1>3

\* The stale write of a vote: it restores a status whose conditions still hold, and a
\* count the votes still cover.
LEMMA SaveCountSound ==
    ASSUME Inv, NEW c \in Request, SaveCount(c), NEW p \in Problem
    PROVE  Sound(p)'
<1> DEFINE h == req[c]
<1>1. TypeOK /\ Sound(p) /\ h.p \in Problem /\ Relies(h) /\ h.pc = "save"
      /\ h.from \in Status /\ h.count \in Nat
  BY InvIsSound, RequestFacts DEF SaveCount, At
<1>2. CASE p # h.p \/ ~ Exists(h.p)
  BY <1>1, <1>2, LeftAloneSound DEF TypeOK, SaveCount, trail
<1>3. CASE p = h.p /\ Exists(h.p)
  <2>1. /\ status'[p] = h.to /\ validCount'[p] = h.count
        /\ UNCHANGED <<reviewer, votes, holder>>
    BY <1>1, <1>3 DEF SaveCount, TypeOK
  <2>2. status[p] # "Gone"
    BY <1>3 DEF Exists, Status
  <2>3. ValidVoters(p)' = ValidVoters(p) /\ Cardinality(ValidVoters(p)) \in Nat
    BY <2>1, VotersFinite DEF ValidVoters
  <2>4. /\ h.from # "PendingApproval"
        /\ h.from # "Withdrawn" => reviewer[p] # None
        /\ h.from \in {"Assigned"} \cup CaseMirror => holder[p] # None
        /\ h.from = "Validated" => Cardinality(ValidVoters(p)) >= V
        /\ h.to = Evaluate(h.from, h.count)
        /\ h.count <= Cardinality(ValidVoters(p))
    BY <1>1, <1>3, <2>2 DEF Relies, Screened, Held, EnoughVoices
  <2>5. CASE h.to = h.from
    BY <1>1, <2>1, <2>3, <2>4, <2>5 DEF Sound, Status, NoRow
  <2>6. CASE h.from = "Reported" /\ h.to = "Validated" /\ h.count >= V
    BY <1>1, <2>1, <2>3, <2>4, <2>6, ThresholdAssumption DEF Sound, Status, NoRow, CaseMirror
  <2> QED
    BY <2>4, <2>5, <2>6 DEF Evaluate
<1> QED
  BY <1>2, <1>3

\* The two writes of an assignment, and the case's mirror on the public record.
LEMMA AssignSound ==
    ASSUME Inv, NEW c \in Request, CreateAssignment(c) \/ MarkAssigned(c), NEW p \in Problem
    PROVE  Sound(p)'
<1> DEFINE h == req[c]
<1>1. TypeOK /\ Sound(p) /\ h.p \in Problem /\ Relies(h)
      /\ (h.pc = "insert" => h.arg \in Official)
  BY InvIsSound, RequestFacts DEF CreateAssignment, MarkAssigned, At, Handler
<1>2. ValidVoters(p)' = ValidVoters(p) /\ validCount' = validCount /\ reviewer' = reviewer
  BY DEF CreateAssignment, MarkAssigned, ValidVoters
<1>3. CASE p # h.p \/ ~ Exists(h.p)
  BY <1>1, <1>3, LeftAloneSound DEF TypeOK, CreateAssignment, MarkAssigned, MayHold, trail
<1>4. CASE p = h.p /\ Exists(h.p) /\ CreateAssignment(c)
  <2>1. status[p] \notin NoRow \cup {"PendingApproval"} /\ reviewer[p] # None /\ status' = status
    BY <1>1, <1>4 DEF CreateAssignment, At, Relies, Public, Screened, Exists, Status, NoRow
  <2>2. holder'[p] # None \/ holder'[p] = holder[p]
    BY <1>1, <1>4, NoneAssumption DEF CreateAssignment, At, TypeOK
  <2> QED
    BY <1>1, <1>2, <2>1, <2>2 DEF Sound
<1>5. CASE p = h.p /\ Exists(h.p) /\ MarkAssigned(c)
  <2>1. reviewer[p] # None /\ holder[p] # None /\ holder' = holder
    BY <1>1, <1>5 DEF MarkAssigned, At, Relies, Screened, Held, Exists, Status
  <2>2. status'[p] = "Assigned"
    BY <1>1, <1>5 DEF MarkAssigned, TypeOK
  <2> QED
    BY <1>1, <1>2, <2>1, <2>2 DEF Sound, Status, NoRow
<1> QED
  BY <1>3, <1>4, <1>5

LEMMA MirrorSound ==
    ASSUME Inv, NEW q \in Problem, NEW s \in CaseMirror, MirrorCase(q, s), NEW p \in Problem
    PROVE  Sound(p)'
<1>1. TypeOK /\ Sound(p)
  BY InvIsSound
<1>2. CASE p # q
  BY <1>1, <1>2, LeftAloneSound DEF TypeOK, MirrorCase, trail
<1>3. CASE p = q
  <2>1. /\ status'[p] = s /\ ValidVoters(p)' = ValidVoters(p)
        /\ UNCHANGED <<validCount, reviewer, holder>>
    BY <1>1, <1>3 DEF MirrorCase, TypeOK, ValidVoters
  <2>2. holder[p] # None /\ s \notin NoRow \cup {"PendingApproval", "Validated"}
    BY <1>3 DEF MirrorCase, CaseMirror, NoRow
  <2> QED
    BY <1>1, <2>1, <2>2 DEF Sound
<1> QED
  BY <1>2, <1>3

\* The statements that write neither row, vote nor assignment.
LEMMA OtherSound ==
    ASSUME Inv, NEW c \in Request, NEW p \in Problem,
           Edit(c) \/ Purge(c) \/ CountVotes(c) \/ AppendAudit(c) \/ Tell(c) \/ Die(c)
    PROVE  Sound(p)'
<1> DEFINE h == req[c]
<1>1. TypeOK /\ Sound(p) /\ UNCHANGED <<status, validCount, reviewer, votes, holder>>
  BY InvIsSound DEF Edit, Purge, CountVotes, AppendAudit, Tell, Die, record
<1>2. CASE told'[p] = told[p]
  BY <1>1, <1>2, LeftAloneSound
<1>3. CASE told'[p] # told[p]
  <2>1. Tell(c) /\ h.p \in Problem /\ p = h.p /\ Exists(p)
    BY <1>1, <1>3, RequestFacts
    DEF Edit, Purge, CountVotes, AppendAudit, Tell, Die, record, trail, At, TypeOK
  <2>2. status[p] \notin NoRow \cup {"PendingApproval"}
    BY <1>3, <2>1, RequestFacts DEF Tell, At, Relies, Public, Exists, Status, NoRow, Notifies
  <2>3. ValidVoters(p)' = ValidVoters(p)
    BY <1>1 DEF ValidVoters
  <2> QED
    BY <1>1, <2>2, <2>3 DEF Sound
<1> QED
  BY <1>2, <1>3

-----------------------------------------------------------------------------
\* A load leaves behind what its guards established.
LEMMA LoadRelies ==
    ASSUME Inv, TypeOK', NEW c \in Request, NEW p \in Problem, Load(c, p)
    PROVE  Relies(req[c])'
<1>1. TypeOK /\ Sound(p)
  BY InvIsSound
<1>2. CASE Report(c, p)
  BY <1>1, <1>2 DEF Report, Begin, TypeOK, Relies, Notifies
<1>3. ASSUME NEW a \in Admin, LoadApprove(c, p, a) \/ LoadReject(c, p, a) PROVE Relies(req[c])'
  BY <1>1, <1>3 DEF LoadApprove, LoadReject, Rejectable, Begin, TypeOK, record, Relies
<1>4. CASE LoadWithdraw(c, p) \/ LoadEdit(c, p) \/ LoadDelete(c, p)
  BY <1>1, <1>4 DEF LoadWithdraw, Withdrawable, LoadEdit, Editable, LoadDelete, Exists, Status,
                    Begin, TypeOK, record, Relies
<1>5. ASSUME NEW r \in Resident, NEW choice \in {"valid", "invalid"}, LoadVote(c, p, r, choice)
      PROVE  Relies(req[c])'
  <2>1. /\ req'[c].p = p /\ req'[c].op = "vote" /\ req'[c].pc = "addvote"
        /\ req'[c].from = status[p] /\ UNCHANGED <<status, reviewer, holder, votes>>
    BY <1>1, <1>5 DEF LoadVote, Begin, TypeOK, record
  <2>2. status[p] \in Status \ {"PendingApproval"}
    BY <1>5 DEF LoadVote, PubliclyVisible
  <2>3. ValidVoters(p)' = ValidVoters(p)
    BY <2>1 DEF ValidVoters
  <2> QED
    BY <1>1, <2>1, <2>2, <2>3 DEF Relies, Public, Screened, Held, EnoughVoices, Sound, Status
<1>6. ASSUME NEW a \in Admin, NEW o \in Official, LoadAssign(c, p, a, o) PROVE Relies(req[c])'
  BY <1>1, <1>6 DEF LoadAssign, EligibleForAssignment, Begin, TypeOK, record, Relies, Public,
                    Screened, Sound, Status
<1> QED
  BY <1>2, <1>3, <1>4, <1>5, <1>6 DEF Load

\* A statement that does not end its request hands the next one what it relies on.
LEMMA StepRelies ==
    ASSUME Inv, TypeOK', NEW c \in Request, Step(c), req'[c] # Idle
    PROVE  Relies(req[c])'
<1> DEFINE h == req[c]
           g == req'[c]
<1>1. TypeOK /\ h # Idle
  BY DEF Inv, Step, Screen, Withdraw, Edit, Erase, Purge, AddVote, CountVotes, SaveCount,
         CreateAssignment, MarkAssigned, AppendAudit, Tell, At
<1>q. PICK q \in Problem : q = h.p
  BY <1>1, RequestFacts
<1>2. /\ h.p = q /\ Relies(h) /\ h.from \in Status /\ h.count \in Nat
      /\ h \in Handler /\ Sound(q) /\ Steady(q)
  BY <1>1, <1>q, RequestFacts, InvIsSound, StepSteady
<1>3. ASSUME NEW at, Goto(c, at)
      PROVE  g.pc = at /\ g.p = q /\ g.op = h.op /\ g.from = h.from
  <2>1. g = [h EXCEPT !.pc = at]
    BY <1>3 DEF Goto, Inv, TypeOK
  <2> QED
    BY <1>2, <2>1 DEF Handler, Fields
<1>4. ~ Finish(c)
  BY <1>1 DEF Finish, TypeOK
<1>5. CASE Screen(c)
  <2>1. Goto(c, "audit") /\ status'[q] \in {"Reported", "Rejected"}
    BY <1>1, <1>2, <1>4, <1>5 DEF Screen, At, TypeOK, Relies
  <2> QED
    BY <1>3, <2>1 DEF Relies, Public, Handler, Fields
<1>6. CASE Withdraw(c)
  <2>1. Goto(c, "audit") /\ status'[q] = "Withdrawn"
    BY <1>1, <1>2, <1>4, <1>6 DEF Withdraw, TypeOK
  <2> QED
    BY <1>3, <2>1 DEF Relies, Public
<1>7. CASE Edit(c)
  <2>1. Goto(c, "audit") /\ status'[q] = "Reported"
    BY <1>2, <1>4, <1>7 DEF Edit, Editable
  <2> QED
    BY <1>3, <2>1 DEF Relies, Public
<1>8. CASE Erase(c)
  <2>1. Goto(c, "purge") /\ status'[q] = "Gone"
    BY <1>1, <1>2, <1>4, <1>8 DEF Erase, TypeOK
  <2> QED
    BY <1>3, <2>1 DEF Relies
<1>9. CASE AddVote(c)
  <2>1. Goto(c, "count") /\ h.pc = "addvote"
    BY <1>4, <1>9 DEF AddVote, At
  <2>2. (EnoughVoices(q) => EnoughVoices(q)') /\ UNCHANGED <<status, reviewer, holder>>
    BY <1>2, <1>9, VotersGrow, ThresholdAssumption DEF AddVote, Steady, EnoughVoices
  <2>3. g.p = q /\ g.op = h.op /\ g.from = h.from /\ g.pc = "count"
    BY <1>3, <2>1
  <2>4. ValidVoters(req[c].p)' = ValidVoters(q)'
    BY <2>3 DEF ValidVoters
  <2> QED
    BY <1>2, <2>1, <2>2, <2>3, <2>4 DEF Relies, Public, Screened, Held, EnoughVoices
<1>10. CASE CountVotes(c)
  <2>1. g = [h EXCEPT !.pc = "save", !.count = DistinctValidVoters(h.p),
                      !.to = Evaluate(h.from, DistinctValidVoters(h.p))]
    BY <1>1, <1>10 DEF CountVotes, TypeOK
  <2>2. /\ g.p = q /\ g.op = h.op /\ g.from = h.from /\ g.pc = "save" /\ h.pc = "count"
        /\ g.count = Cardinality(ValidVoters(q))
        /\ g.to = Evaluate(g.from, g.count)
    <3>1. DistinctValidVoters(h.p) = Cardinality(ValidVoters(q))
      BY <1>2 DEF DistinctValidVoters
    <3>2. /\ g.p = h.p /\ g.op = h.op /\ g.from = h.from /\ g.pc = "save"
          /\ g.count = DistinctValidVoters(h.p)
          /\ g.to = Evaluate(h.from, DistinctValidVoters(h.p))
      BY <1>2, <2>1 DEF Handler, Fields
    <3> QED
      BY <1>2, <1>10, <3>1, <3>2 DEF CountVotes, At
  <2>3. UNCHANGED <<status, reviewer, holder, votes>>
    BY <1>10 DEF CountVotes, record
  <2>4. ValidVoters(req[c].p)' = ValidVoters(q) /\ Cardinality(ValidVoters(q)) \in Nat
    BY <2>2, <2>3, VotersFinite DEF ValidVoters
  <2> QED
    BY <1>2, <2>2, <2>3, <2>4 DEF Relies, Public, Screened, Held, EnoughVoices, Evaluate
<1>11. CASE SaveCount(c)
  <2>1. Goto(c, "audit") /\ h.op = "vote" /\ h.pc = "save"
    BY <1>2, <1>4, <1>11 DEF SaveCount, At, Relies
  <2> QED
    BY <1>2, <1>3, <2>1 DEF Relies, Notifies, Steady, Handler, Fields
<1>12. CASE CreateAssignment(c)
  <2>1. Goto(c, "mark") /\ h.pc = "insert" /\ holder'[h.p] \in Official
    BY <1>1, <1>2, <1>4, <1>12 DEF CreateAssignment, At, TypeOK, Handler
  <2>2. holder'[h.p] # None
    BY <2>1, NoneAssumption
  <2> QED
    BY <1>2, <1>3, <2>1, <2>2 DEF Relies, Steady, Held, Public, Screened, Handler, Fields
<1>13. CASE MarkAssigned(c)
  <2>1. Goto(c, "audit") /\ status'[q] = "Assigned"
    BY <1>1, <1>2, <1>4, <1>13 DEF MarkAssigned, TypeOK
  <2> QED
    BY <1>3, <2>1 DEF Relies, Public
<1>14. CASE AppendAudit(c)
  <2>1. Goto(c, "tell") /\ Notifies(h.op) /\ h.pc = "audit" /\ UNCHANGED status
    BY <1>4, <1>14 DEF AppendAudit, At, record
  <2> QED
    BY <1>2, <1>3, <2>1 DEF Relies, Public, Handler, Fields
<1>15. CASE Purge(c) \/ Tell(c)
  BY <1>4, <1>15 DEF Purge, Tell
<1> QED
  BY <1>5, <1>6, <1>7, <1>8, <1>9, <1>10, <1>11, <1>12, <1>13, <1>14, <1>15 DEF Step

\* One step at a time, the inductive invariant is kept.
LEMMA InvStep ==
    ASSUME Inv, TypeOK', Next
    PROVE  Inv'
<1>1. TypeOK /\ \A p \in Problem : Sound(p) /\ Steady(p)
  BY InvIsSound, NextSteady
<1>2. ASSUME NEW d \in Request, req'[d] = req[d], req[d] # Idle PROVE Relies(req[d])'
  BY <1>1, <1>2, OthersRely
<1>3. ASSUME NEW c \in Request, NEW p \in Problem, Load(c, p)
      PROVE  InFlight' /\ \A q \in Problem : Sound(q)'
  <2>1. \A d \in Request \ {c} : req'[d] = req[d]
    BY <1>1, <1>3 DEF Load, Report, LoadApprove, LoadReject, LoadWithdraw, LoadEdit, LoadDelete,
                      LoadVote, LoadAssign, Begin, TypeOK
  <2>2. InFlight'
    BY <1>2, <1>3, <2>1, LoadRelies DEF InFlight
  <2>3. ASSUME NEW q \in Problem PROVE Sound(q)'
    <3>1. CASE Report(c, p) /\ q = p
      <4>1. /\ Untouched(q) /\ status'[q] = "PendingApproval"
            /\ UNCHANGED <<validCount, votes, holder, told>>
        BY <1>1, <3>1 DEF Report, Sound, NoRow, TypeOK, trail
      <4>2. ValidVoters(q)' = ValidVoters(q)
        BY <4>1 DEF ValidVoters
      <4> QED
        BY <1>1, <4>1, <4>2 DEF Sound, Untouched, CaseMirror
    <3>2. CASE Report(c, p) /\ q # p
      BY <1>1, <3>2, LeftAloneSound DEF Report, TypeOK, trail
    <3>3. CASE ~ Report(c, p)
      <4>1. UNCHANGED <<record, trail>>
        BY <1>3, <3>3 DEF Load, LoadApprove, LoadReject, LoadWithdraw, LoadEdit, LoadDelete,
                          LoadVote, LoadAssign
      <4> QED
        BY <1>1, <4>1, LeftAloneSound DEF record, trail
    <3> QED
      BY <3>1, <3>2, <3>3
  <2> QED
    BY <2>2, <2>3
<1>4. ASSUME NEW c \in Request, Step(c)
      PROVE  InFlight' /\ \A q \in Problem : Sound(q)'
  <2>1. \A d \in Request \ {c} : req'[d] = req[d]
    BY <1>1, <1>4 DEF Step, Screen, Withdraw, Edit, Erase, Purge, AddVote, CountVotes, SaveCount,
                      CreateAssignment, MarkAssigned, AppendAudit, Tell, Goto, Finish, TypeOK
  <2>2. InFlight'
    BY <1>2, <1>4, <2>1, StepRelies DEF InFlight
  <2>3. \A q \in Problem : Sound(q)'
    BY <1>4, DecisionSound, EraseSound, AddVoteSound, SaveCountSound, AssignSound, OtherSound
    DEF Step
  <2> QED
    BY <2>2, <2>3
<1>5. ASSUME NEW c \in Request, Die(c)
      PROVE  InFlight' /\ \A q \in Problem : Sound(q)'
  <2>1. \A d \in Request : req'[d] = Idle \/ req'[d] = req[d]
    BY <1>1, <1>5 DEF Die, Finish, TypeOK
  <2> QED
    BY <1>2, <1>5, <2>1, OtherSound DEF InFlight
<1>6. ASSUME NEW p \in Problem, NEW s \in CaseMirror, MirrorCase(p, s)
      PROVE  InFlight' /\ \A q \in Problem : Sound(q)'
  <2>1. req' = req
    BY <1>6 DEF MirrorCase
  <2> QED
    BY <1>2, <1>6, <2>1, MirrorSound DEF InFlight
<1>7. InFlight' /\ \A q \in Problem : Sound(q)'
  BY <1>3, <1>4, <1>5, <1>6 DEF Next
<1> QED
  BY <1>7 DEF Inv, Sound, RecordsAgree, ScreenedFirst, HeldOnceAssigned, ValidatedMeansV,
              CountNeverOverstates

\* Inv: problem rows, votes, assignments and the requests in flight agree, however the
\* requests interleave and wherever they die.
THEOREM Invariance == Spec => []Inv
<1>1. Init => Inv
  <2> SUFFICES ASSUME Init PROVE Inv
    OBVIOUS
  <2>1. TypeOK /\ InFlight
    BY DEF Init, TypeOK, NoRow, NoVotes, InFlight
  <2>2. ASSUME NEW p \in Problem PROVE Sound(p)
    <3>1. ValidVoters(p) = {}
      BY NoneAssumption DEF Init, NoVotes, ValidVoters
    <3> QED
      BY <3>1, FS_EmptySet DEF Init, Sound, Untouched, Status, CaseMirror
  <2> QED
    BY <2>1, <2>2, InvIsSound
<1>2. TypeOK /\ Inv /\ TypeOK' /\ [Next]_vars => Inv'
  <2> SUFFICES ASSUME Inv, TypeOK', [Next]_vars PROVE Inv'
    OBVIOUS
  <2>1. CASE Next
    BY <2>1, InvStep
  <2>2. CASE UNCHANGED vars
    <3>1. \A p \in Problem : Sound(p)'
      BY <2>2, InvIsSound, LeftAloneSound DEF vars
    <3>2. InFlight'
      BY <2>2 DEF Inv, InFlight, Relies, vars, Public, Screened, Held, EnoughVoices, ValidVoters
    <3> QED
      BY <3>1, <3>2 DEF Inv, Sound, RecordsAgree, ScreenedFirst, HeldOnceAssigned,
                        ValidatedMeansV, CountNeverOverstates
  <2> QED
    BY <2>1, <2>2
<1> QED
  BY <1>1, <1>2, TypeCorrect, PTL DEF Spec

-----------------------------------------------------------------------------
\* ScreenedFirst: no report leaves the queue for the public record without the admin
\* who decided on it, stale votes and assignments included.
THEOREM NothingSkipsScreening == Spec => []ScreenedFirst
<1>1. Inv => ScreenedFirst
  BY DEF Inv
<1> QED
  BY <1>1, Invariance, PTL

\* UnscreenedUntouched: a report in the queue has no vote, count, assignment or message.
THEOREM QueueIsUntouched == Spec => []UnscreenedUntouched
<1>1. Inv => UnscreenedUntouched
  BY DEF Inv, RecordsAgree, UnscreenedUntouched, Untouched
<1> QED
  BY <1>1, Invariance, PTL

\* HeldOnceAssigned: a report shown as assigned or further has its official.
THEOREM AssignedIsHeld == Spec => []HeldOnceAssigned
<1>1. Inv => HeldOnceAssigned
  BY DEF Inv
<1> QED
  BY <1>1, Invariance, PTL

\* ValidatedMeansV: "Validated" always rests on V distinct residents.
THEOREM ValidationIsEarned == Spec => []ValidatedMeansV
<1>1. Inv => ValidatedMeansV
  BY DEF Inv
<1> QED
  BY <1>1, Invariance, PTL

\* CountNeverOverstates: stale counts only ever lag behind the votes.
THEOREM CountIsBounded == Spec => []CountNeverOverstates
<1>1. Inv => CountNeverOverstates
  BY DEF Inv
<1> QED
  BY <1>1, Invariance, PTL

\* ErasedLeavesNothing: requests that outlive an erased report write nothing about it
\* but audit entries.
THEOREM ErasureIsComplete == Spec => []ErasedLeavesNothing
<1>1. Inv => ErasedLeavesNothing
  BY DEF Inv, RecordsAgree, ErasedLeavesNothing, Untouched, NoRow
<1> QED
  BY <1>1, Invariance, PTL

\* NeverHiddenAgain: no step, stale writes of votes included, returns a report to the queue.
THEOREM PublishedStaysOut == Spec => NeverHiddenAgain
<1>1. Inv /\ [Next]_vars =>
        [\A p \in Problem : status[p] \notin {"Unfiled", "PendingApproval"}
                                => status'[p] # "PendingApproval"]_vars
  BY NextSteady DEF Steady, Public
<1> QED
  BY <1>1, Invariance, PTL DEF Spec, NeverHiddenAgain

\* HolderNeverReplaced: whoever wins the race to assign keeps the case until the report
\* is erased.
THEOREM HolderIsFinal == Spec => HolderNeverReplaced
<1>1. ASSUME Inv, Next, NEW p \in Problem, holder[p] # None
      PROVE  holder'[p] = holder[p] \/ status'[p] = "Gone"
  <2>1. TypeOK
    BY <1>1 DEF Inv
  <2>2. ASSUME NEW c \in Request, NEW q \in Problem, Load(c, q) PROVE holder' = holder
    BY <2>2 DEF Load, Report, LoadApprove, LoadReject, LoadWithdraw, LoadEdit, LoadDelete,
                LoadVote, LoadAssign, record
  <2>3. ASSUME NEW c \in Request, Step(c), ~ Erase(c), ~ CreateAssignment(c) PROVE holder' = holder
    BY <2>3 DEF Step, Screen, Withdraw, Edit, Purge, AddVote, CountVotes, SaveCount,
                MarkAssigned, AppendAudit, Tell, record
  <2>4. ASSUME NEW c \in Request, Erase(c)
        PROVE  holder'[p] = holder[p] \/ status'[p] = "Gone"
    <3>1. CASE holder' = holder
      BY <3>1
    <3>2. CASE /\ status' = [status EXCEPT ![req[c].p] = "Gone"]
               /\ holder' = [holder EXCEPT ![req[c].p] = None]
      BY <2>1, <3>2 DEF TypeOK
    <3> QED
      BY <2>4, <3>1, <3>2 DEF Erase, record
  <2>5. ASSUME NEW c \in Request, CreateAssignment(c) PROVE holder'[p] = holder[p]
    BY <1>1, <2>1, <2>5 DEF CreateAssignment, MayHold, TypeOK
  <2>6. ASSUME NEW c \in Request, Die(c) PROVE holder' = holder
    BY <2>6 DEF Die, record
  <2>7. ASSUME NEW q \in Problem, NEW s \in CaseMirror, MirrorCase(q, s) PROVE holder' = holder
    BY <2>7 DEF MirrorCase
  <2> QED
    BY <1>1, <2>2, <2>3, <2>4, <2>5, <2>6, <2>7 DEF Next
<1>2. Inv /\ [Next]_vars =>
        [\A p \in Problem : holder[p] # None => holder'[p] = holder[p] \/ status'[p] = "Gone"]_vars
  BY <1>1
<1> QED
  BY <1>2, Invariance, PTL DEF Spec, HolderNeverReplaced

-----------------------------------------------------------------------------
(* The public trail: what a request writes there, and what stands behind it. *)

LEMMA VoicesStay ==
    ASSUME NEW p \in Problem, Steady(p), EnoughVoices(p)
    PROVE  EnoughVoices(p)'
  BY VotersGrow, ThresholdAssumption DEF Steady, EnoughVoices

\* A steady step leaves a waiting request with what its entry will report.
LEMMA OthersVouched ==
    ASSUME Inv, NEW d \in Request, req[d] # Idle, req'[d] = req[d], Vouched(req[d]),
           \A p \in Problem : Steady(p)
    PROVE  Vouched(req[d])'
<1>1. PICK q \in Problem : q = req[d].p
  BY RequestFacts
<1>2. Steady(q)
  OBVIOUS
<1>3. EnoughVoices(q) => EnoughVoices(q)'
  BY <1>2, VoicesStay
<1>4. (Screened(q) => Screened(q)') /\ (Held(q) => Held(q)')
  BY <1>2 DEF Steady
<1>5. EnoughVoices(req[d].p)' = EnoughVoices(q)'
  BY <1>1 DEF EnoughVoices, ValidVoters
<1> QED
  BY <1>1, <1>3, <1>4, <1>5 DEF Vouched, Screened, Held

\* An entry that is on the trail keeps what stands behind it.
LEMMA EntriesStayBacked ==
    ASSUME NEW p \in Problem, Steady(p), Backed(p), audit'[p] \subseteq audit[p]
    PROVE  Backed(p)'
  BY VoicesStay DEF Backed, Steady

LEMMA LoadVouched ==
    ASSUME Inv, NEW c \in Request, NEW p \in Problem, Load(c, p)
    PROVE  Vouched(req[c])'
<1>1. TypeOK
  BY DEF Inv
<1>2. /\ req'[c].pc = "withdraw" => req'[c].op = "withdraw"
      /\ req'[c].pc = "edit" => req'[c].op = "edit"
      /\ req'[c].pc = "audit" => req'[c].op = "report"
  BY <1>1 DEF Load, Report, LoadApprove, LoadReject, LoadWithdraw, LoadEdit, LoadDelete,
              LoadVote, LoadAssign, Begin, TypeOK
<1> QED
  BY <1>2 DEF Vouched

\* A statement hands its request on to the audit entry only once the record shows it.
LEMMA StepVouched ==
    ASSUME Inv, TypeOK', NEW c \in Request, Vouched(req[c]), Step(c), req'[c] # Idle
    PROVE  Vouched(req[c])'
<1> DEFINE h == req[c]
           g == req'[c]
<1>1. TypeOK /\ h # Idle
  BY DEF Inv, Step, Screen, Withdraw, Edit, Erase, Purge, AddVote, CountVotes, SaveCount,
         CreateAssignment, MarkAssigned, AppendAudit, Tell, At
<1>q. PICK q \in Problem : q = h.p
  BY <1>1, RequestFacts
<1>2. /\ h.p = q /\ Relies(h) /\ h.from \in Status /\ h.count \in Nat
      /\ h \in Handler /\ Steady(q)
  BY <1>1, <1>q, RequestFacts, StepSteady
<1>3. ASSUME NEW at, Goto(c, at)
      PROVE  g.pc = at /\ g.p = q /\ g.op = h.op
  <2>1. g = [h EXCEPT !.pc = at]
    BY <1>1, <1>3 DEF Goto, TypeOK
  <2> QED
    BY <1>2, <2>1 DEF Handler, Fields
<1>4. ~ Finish(c)
  BY <1>1 DEF Finish, TypeOK
<1>5. ASSUME NEW at \in {"purge", "count", "mark", "tell"}, Goto(c, at)
      PROVE  Vouched(req[c])'
  BY <1>3, <1>5 DEF Vouched
<1>6. CASE Screen(c)
  <2>1. /\ Goto(c, "audit") /\ h.op \in {"approve", "reject"}
        /\ reviewer'[q] = h.who /\ h.who \in Admin
    BY <1>1, <1>2, <1>4, <1>6 DEF Screen, At, TypeOK, Relies, Handler
  <2>2. Screened(q)'
    BY <2>1, NoneAssumption DEF Screened
  <2> QED
    BY <1>3, <2>1, <2>2 DEF Vouched, Screened
<1>7. CASE Withdraw(c) \/ Edit(c)
  <2>1. Goto(c, "audit") /\ h.op \in {"withdraw", "edit"}
    BY <1>4, <1>7 DEF Withdraw, Edit, At, Vouched
  <2> QED
    BY <1>3, <2>1 DEF Vouched
<1>8. CASE CountVotes(c)
  <2>1. g = [h EXCEPT !.pc = "save", !.count = DistinctValidVoters(h.p),
                      !.to = Evaluate(h.from, DistinctValidVoters(h.p))]
    BY <1>1, <1>8 DEF CountVotes, TypeOK
  <2>2. g.pc = "save"
    BY <1>2, <2>1 DEF Handler, Fields
  <2> QED
    BY <2>2 DEF Vouched
<1>9. CASE SaveCount(c)
  <2>1. /\ Goto(c, "audit") /\ h.op = "vote" /\ h.to # h.from
        /\ h.to = Evaluate(h.from, h.count)
        /\ status[q] = "Gone" \/ h.count <= Cardinality(ValidVoters(q))
    BY <1>2, <1>4, <1>9 DEF SaveCount, At, Relies
  <2>2. h.count >= V
    BY <2>1 DEF Evaluate
  <2>3. EnoughVoices(q)
    BY <1>2, <2>1, <2>2, VotersFinite, ThresholdAssumption DEF EnoughVoices
  <2>4. EnoughVoices(q)' /\ EnoughVoices(req[c].p)' = EnoughVoices(q)'
    BY <1>2, <1>3, <2>1, <2>3, VoicesStay DEF EnoughVoices, ValidVoters
  <2> QED
    BY <1>3, <2>1, <2>4 DEF Vouched
<1>10. CASE MarkAssigned(c)
  <2>1. Goto(c, "audit") /\ h.op = "assign" /\ Held(q)'
    BY <1>2, <1>4, <1>10 DEF MarkAssigned, At, Relies, Steady
  <2> QED
    BY <1>3, <2>1 DEF Vouched, Held
<1>11. CASE Erase(c) \/ AddVote(c) \/ CreateAssignment(c)
  <2>1. \E at \in {"purge", "count", "mark"} : Goto(c, at)
    BY <1>4, <1>11 DEF Erase, AddVote, CreateAssignment
  <2> QED
    BY <1>5, <2>1
<1>12. CASE AppendAudit(c)
  BY <1>4, <1>5, <1>12 DEF AppendAudit
<1>13. CASE Purge(c) \/ Tell(c)
  BY <1>4, <1>13 DEF Purge, Tell
<1> QED
  BY <1>6, <1>7, <1>8, <1>9, <1>10, <1>11, <1>12, <1>13 DEF Step

\* The one statement that adds an entry has its grounds with it.
LEMMA AppendBacked ==
    ASSUME Inv, NEW c \in Request, Vouched(req[c]), AppendAudit(c), NEW p \in Problem, Backed(p)
    PROVE  Backed(p)'
<1> DEFINE h == req[c]
<1>1. /\ h.p \in Problem /\ Steady(p) /\ TypeOK /\ h.pc = "audit" /\ Steady(h.p)
  BY RequestFacts, StepSteady DEF AppendAudit, At, Step, Inv
<1>2. CASE audit'[p] \subseteq audit[p]
  BY <1>1, <1>2, EntriesStayBacked
<1>3. CASE p = h.p /\ audit'[p] \subseteq audit[p] \cup {h.op}
  <2>1. /\ h.op \in {"approve", "reject"} => Screened(p)
        /\ h.op = "assign" => Held(p)
        /\ h.op = "vote" => EnoughVoices(p)
    BY <1>1, <1>3 DEF Vouched
  <2>2. (EnoughVoices(p) => EnoughVoices(p)') /\ (Held(p) => Held(p)') /\ (Screened(p) => Screened(p)')
    BY <1>1, VoicesStay DEF Steady
  <2> QED
    BY <1>3, <2>1, <2>2 DEF Backed
<1>4. audit'[p] \subseteq audit[p] \/ (p = h.p /\ audit'[p] \subseteq audit[p] \cup {h.op})
  BY <1>1 DEF AppendAudit, TypeOK
<1> QED
  BY <1>2, <1>3, <1>4

\* Every other step leaves the trail alone or purges it.
LEMMA OtherBacked ==
    ASSUME Inv, Next, NEW p \in Problem, Backed(p), \A c \in Request : ~ AppendAudit(c)
    PROVE  Backed(p)'
<1>1. TypeOK
  BY DEF Inv
<1>2. ASSUME NEW c \in Request, NEW q \in Problem, Load(c, q) PROVE audit' = audit
  BY <1>2 DEF Load, Report, LoadApprove, LoadReject, LoadWithdraw, LoadEdit, LoadDelete,
              LoadVote, LoadAssign, trail
<1>3. ASSUME NEW c \in Request, Step(c) PROVE audit'[p] \subseteq audit[p]
  <2>1. CASE Purge(c)
    BY <1>1, <2>1 DEF Purge, TypeOK
  <2>2. CASE ~ Purge(c)
    BY <1>3, <2>2 DEF Step, Screen, Withdraw, Edit, Erase, AddVote, CountVotes, SaveCount,
                      CreateAssignment, MarkAssigned, Tell, trail
  <2> QED
    BY <2>1, <2>2
<1>4. ASSUME NEW c \in Request, Die(c) PROVE audit' = audit
  BY <1>4 DEF Die, trail
<1>5. ASSUME NEW q \in Problem, NEW s \in CaseMirror, MirrorCase(q, s) PROVE audit' = audit
  BY <1>5 DEF MirrorCase, trail
<1>6. audit'[p] \subseteq audit[p]
  BY <1>2, <1>3, <1>4, <1>5 DEF Next
<1> QED
  BY <1>6, NextSteady, EntriesStayBacked

\* One step at a time, the trail's invariant is kept.
LEMMA TrailStep ==
    ASSUME Inv, TypeOK', TrailInv, Next
    PROVE  TrailInv'
<1>1. TypeOK /\ \A p \in Problem : Steady(p)
  BY NextSteady DEF Inv
<1>2. ASSUME NEW d \in Request, req'[d] = req[d], req[d] # Idle PROVE Vouched(req[d])'
  BY <1>1, <1>2, OthersVouched DEF TrailInv
<1>3. \A p \in Problem : Backed(p)'
  BY AppendBacked, OtherBacked DEF TrailInv, AppendAudit, At
<1>4. ASSUME NEW c \in Request, NEW p \in Problem, Load(c, p), NEW d \in Request
      PROVE  Vouched(req[d])' \/ req'[d] = Idle
  <2>1. d # c => req'[d] = req[d]
    BY <1>1, <1>4 DEF Load, Report, LoadApprove, LoadReject, LoadWithdraw, LoadEdit, LoadDelete,
                      LoadVote, LoadAssign, Begin, TypeOK
  <2> QED
    BY <1>2, <1>4, <2>1, LoadVouched
<1>5. ASSUME NEW c \in Request, Step(c), NEW d \in Request
      PROVE  Vouched(req[d])' \/ req'[d] = Idle
  <2>1. d # c => req'[d] = req[d]
    BY <1>1, <1>5 DEF Step, Screen, Withdraw, Edit, Erase, Purge, AddVote, CountVotes, SaveCount,
                      CreateAssignment, MarkAssigned, AppendAudit, Tell, Goto, Finish, TypeOK
  <2>2. req[c] # Idle
    BY <1>5 DEF Step, Screen, Withdraw, Edit, Erase, Purge, AddVote, CountVotes, SaveCount,
                CreateAssignment, MarkAssigned, AppendAudit, Tell, At
  <2> QED
    BY <1>2, <1>5, <2>1, <2>2, StepVouched DEF TrailInv
<1>6. ASSUME NEW c \in Request, Die(c), NEW d \in Request
      PROVE  Vouched(req[d])' \/ req'[d] = Idle
  <2>1. req'[d] = Idle \/ req'[d] = req[d]
    BY <1>1, <1>6 DEF Die, Finish, TypeOK
  <2> QED
    BY <1>2, <2>1
<1>7. ASSUME NEW p \in Problem, NEW s \in CaseMirror, MirrorCase(p, s), NEW d \in Request
      PROVE  Vouched(req[d])' \/ req'[d] = Idle
  BY <1>2, <1>7 DEF MirrorCase
<1>8. \A d \in Request : Vouched(req[d])' \/ req'[d] = Idle
  BY <1>4, <1>5, <1>6, <1>7 DEF Next
<1> QED
  BY <1>3, <1>8 DEF TrailInv

\* TrailTellsTheTruth: whatever races for a report, the trail shows no approval,
\* rejection, validation or assignment that the report's own record does not show.
THEOREM TrailIsTrue == Spec => []TrailTellsTheTruth
<1>1. Init => TrailInv
  BY DEF Init, TrailInv, Backed
<1>2. Inv /\ Inv' /\ TrailInv /\ [Next]_vars => TrailInv'
  <2> SUFFICES ASSUME Inv, Inv', TrailInv, [Next]_vars PROVE TrailInv'
    OBVIOUS
  <2>1. CASE Next
    BY <2>1, TrailStep DEF Inv
  <2>2. CASE UNCHANGED vars
    BY <2>2 DEF TrailInv, vars, Vouched, Backed, Screened, Held, EnoughVoices, ValidVoters
  <2> QED
    BY <2>1, <2>2
<1>3. TrailInv => TrailTellsTheTruth
  BY DEF TrailInv, Backed, Screened, Held, EnoughVoices, TrailTellsTheTruth, Exists, Status
<1> QED
  BY <1>1, <1>2, <1>3, Invariance, PTL DEF Spec

-----------------------------------------------------------------------------
(* One request at a time on each report, and none that dies: the record then  *)
(* behaves as if every use case were a single step.                           *)

\* What is counted and who is shown as holder, when h is the only request on p.
CountedOf(p, h) ==
    IF h # Idle /\ h.p = p /\ h.pc \in {"count", "save"}
      THEN ValidVoters(p) \ {h.who} ELSE ValidVoters(p)
HolderOf(p, h) ==
    IF h # Idle /\ h.p = p /\ h.pc = "mark" /\ h.who \in Admin THEN None ELSE holder[p]
Row(p) == <<status[p], validCount[p], votes[p], holder[p]>>

LEMMA OnlyOne ==
    ASSUME NEW c \in Request, NEW p \in Problem,
           \A d \in Request \ {c} : req[d] = Idle \/ req[d].p # p
    PROVE  Counted[p] = CountedOf(p, req[c]) /\ PublishedHolder[p] = HolderOf(p, req[c])
<1>1. ASSUME NEW w, NEW ats
      PROVE  Pending(p, w, ats) <=> /\ req[c] # Idle /\ req[c].p = p
                                    /\ req[c].who = w /\ req[c].pc \in ats
  BY DEF Pending
<1> QED
  BY <1>1 DEF Counted, CountedOf, ValidVoters, PublishedHolder, HolderOf

LEMMA OnlyOneAfter ==
    ASSUME NEW c \in Request, NEW p \in Problem,
           \A d \in Request \ {c} : req'[d] = Idle \/ req'[d].p # p
    PROVE  Counted'[p] = CountedOf(p, req[c])' /\ PublishedHolder'[p] = HolderOf(p, req[c])'
<1>1. ASSUME NEW w, NEW ats
      PROVE  Pending(p, w, ats)' <=> /\ req'[c] # Idle /\ req'[c].p = p
                                     /\ req'[c].who = w /\ req'[c].pc \in ats
  BY DEF Pending
<1> QED
  BY <1>1 DEF Counted, CountedOf, ValidVoters, PublishedHolder, HolderOf

\* A step of the one request on q leaves the other reports, and their requests, alone.
LEMMA Elsewhere ==
    ASSUME TypeOK, SerialInv, NEW c \in Request, NEW q \in Problem,
           \A d \in Request \ {c} : req'[d] = req[d] /\ (req[d] = Idle \/ req[d].p # q),
           req[c] = Idle \/ req[c].p = q, req'[c] = Idle \/ req'[c].p = q,
           \A p \in Problem \ {q} : Row(p)' = Row(p)
    PROVE  /\ OneAtATime'
           /\ \A d \in Request \ {c} : req'[d] # Idle => Fresh(req[d])'
           /\ \A p \in Problem \ {q} : Published(p)'
           /\ Counted[q] = CountedOf(q, req[c]) /\ Counted'[q] = CountedOf(q, req[c])'
           /\ PublishedHolder[q] = HolderOf(q, req[c])
           /\ PublishedHolder'[q] = HolderOf(q, req[c])'
           /\ Counted' = [Counted EXCEPT ![q] = Counted'[q]]
           /\ PublishedHolder' = [PublishedHolder EXCEPT ![q] = PublishedHolder'[q]]
<1>1. OneAtATime'
  BY DEF SerialInv, OneAtATime
<1>2. ASSUME NEW p \in Problem \ {q}
      PROVE  /\ Counted'[p] = Counted[p] /\ PublishedHolder'[p] = PublishedHolder[p]
             /\ Published(p)'
  <2>1. ASSUME NEW w, NEW ats PROVE Pending(p, w, ats)' <=> Pending(p, w, ats)
    BY <1>2 DEF Pending
  <2>2. /\ ValidVoters(p)' = ValidVoters(p) /\ status'[p] = status[p]
        /\ validCount'[p] = validCount[p] /\ holder'[p] = holder[p]
    BY <1>2 DEF Row, ValidVoters
  <2>3. Counted'[p] = Counted[p]
    BY <2>1, <2>2 DEF Counted
  <2>4. PublishedHolder'[p] = PublishedHolder[p]
    BY <2>1, <2>2 DEF PublishedHolder
  <2>5. Published(p)
    BY DEF SerialInv
  <2> QED
    BY <2>2, <2>3, <2>4, <2>5 DEF Published
<1>3. ASSUME NEW d \in Request \ {c}, req'[d] # Idle PROVE Fresh(req[d])'
  <2>1. /\ Fresh(req[d]) /\ req'[d] = req[d] /\ req[d].p \in Problem \ {q}
    BY <1>3 DEF SerialInv, TypeOK, Handler, Fields
  <2>2. Row(req[d].p)' = Row(req[d].p)
    BY <2>1 DEF Row
  <2>3. /\ status'[req[d].p] = status[req[d].p] /\ votes'[req[d].p] = votes[req[d].p]
        /\ DistinctValidVoters(req[d].p)' = DistinctValidVoters(req[d].p)
    BY <2>1, <2>2 DEF Row, DistinctValidVoters, ValidVoters
  <2> QED
    BY <2>1, <2>3 DEF Fresh
<1>4. /\ Counted[q] = CountedOf(q, req[c]) /\ Counted'[q] = CountedOf(q, req[c])'
      /\ PublishedHolder[q] = HolderOf(q, req[c])
      /\ PublishedHolder'[q] = HolderOf(q, req[c])'
  BY OnlyOne, OnlyOneAfter
<1>5. Counted' = [Counted EXCEPT ![q] = Counted'[q]]
  <2>1. DOMAIN Counted = Problem /\ DOMAIN Counted' = Problem
    BY DEF Counted
  <2>2. Counted = [p \in Problem |-> Counted[p]] /\ Counted' = [p \in Problem |-> Counted'[p]]
    BY DEF Counted
  <2> QED
    BY <1>2, <2>1, <2>2
<1>6. PublishedHolder' = [PublishedHolder EXCEPT ![q] = PublishedHolder'[q]]
  <2>1. /\ PublishedHolder = [p \in Problem |-> PublishedHolder[p]]
        /\ PublishedHolder' = [p \in Problem |-> PublishedHolder'[p]]
    BY DEF PublishedHolder
  <2> QED
    BY <1>2, <2>1
<1> QED
  BY <1>1, <1>2, <1>3, <1>4, <1>5, <1>6

\* A load leaves its report as it found it, and the abstract report stands still but
\* for the filing itself.
LEMMA LoadRefines ==
    ASSUME Serial, Inv, SerialInv, NEW c \in Request, NEW p \in Problem, Load(c, p)
    PROVE  SerialInv' /\ [Abstract!Next]_(Abstract!vars)
<1> DEFINE g == req'[c]
<1>1. TypeOK
  BY DEF Inv
<1>2. /\ req[c] = Idle /\ Quiet(p)
      /\ \A d \in Request \ {c} : req'[d] = req[d] /\ (req[d] = Idle \/ req[d].p # p)
  BY <1>1 DEF Load, Report, LoadApprove, LoadReject, LoadWithdraw, LoadEdit, LoadDelete,
              LoadVote, LoadAssign, Begin, Quiet, TypeOK
<1>3. /\ g # Idle /\ g.p = p /\ g.pc \in {"audit", "screen", "withdraw", "edit", "erase", "addvote", "insert"}
      /\ g.pc # "audit" => g.from = status[p]
      /\ g.pc = "screen" => \/ g.from = "PendingApproval" /\ g.to = "Reported"
                            \/ Rejectable(g.from) /\ g.to = "Rejected"
      /\ g.pc = "withdraw" => Withdrawable(g.from)
      /\ g.pc = "insert" => EligibleForAssignment(g.from) /\ g.who \in Admin
  BY <1>1 DEF Load, Report, LoadApprove, LoadReject, LoadWithdraw, LoadEdit, LoadDelete,
              LoadVote, LoadAssign, Begin, TypeOK, Idle
<1>4. UNCHANGED <<validCount, text, reviewer, votes, holder>>
  BY DEF Load, Report, LoadApprove, LoadReject, LoadWithdraw, LoadEdit, LoadDelete,
         LoadVote, LoadAssign, record
<1>5. \A r \in Problem \ {p} : Row(r)' = Row(r)
  BY <1>1, <1>4 DEF Load, Report, LoadApprove, LoadReject, LoadWithdraw, LoadEdit, LoadDelete,
         LoadVote, LoadAssign, record, Row, TypeOK
<1>6. /\ OneAtATime'
      /\ \A d \in Request \ {c} : req'[d] # Idle => Fresh(req[d])'
      /\ \A r \in Problem \ {p} : Published(r)'
      /\ Counted[p] = ValidVoters(p) /\ Counted'[p] = ValidVoters(p)'
      /\ PublishedHolder[p] = holder[p] /\ PublishedHolder'[p] = holder[p]
      /\ Counted' = [Counted EXCEPT ![p] = Counted'[p]]
      /\ PublishedHolder' = [PublishedHolder EXCEPT ![p] = PublishedHolder'[p]]
  <2>1. /\ req[c] = Idle \/ req[c].p = p
        /\ req'[c] = Idle \/ req'[c].p = p
    BY <1>2, <1>3
  <2> HIDE DEF g
  <2>2. /\ Counted[p] = CountedOf(p, req[c]) /\ Counted'[p] = CountedOf(p, req[c])'
        /\ PublishedHolder[p] = HolderOf(p, req[c])
        /\ PublishedHolder'[p] = HolderOf(p, req[c])'
        /\ OneAtATime'
        /\ \A d \in Request \ {c} : req'[d] # Idle => Fresh(req[d])'
        /\ \A r \in Problem \ {p} : Published(r)'
        /\ Counted' = [Counted EXCEPT ![p] = Counted'[p]]
        /\ PublishedHolder' = [PublishedHolder EXCEPT ![p] = PublishedHolder'[p]]
    BY <1>1, <1>2, <1>5, <2>1, Elsewhere
  <2> QED
    BY <1>2, <1>3, <1>4, <2>2 DEF CountedOf, HolderOf, g
<1>7. ValidVoters(p)' = ValidVoters(p)
  BY <1>4 DEF ValidVoters
<1>8. Counted' = Counted /\ PublishedHolder' = PublishedHolder
  <2>1. Counted[p] = Counted'[p] /\ PublishedHolder[p] = PublishedHolder'[p]
    BY <1>6, <1>7
  <2>2. DOMAIN Counted = Problem /\ DOMAIN PublishedHolder = Problem
    BY DEF Counted, PublishedHolder
  <2>3. /\ Counted = [r \in Problem |-> Counted[r]]
        /\ PublishedHolder = [r \in Problem |-> PublishedHolder[r]]
    BY DEF Counted, PublishedHolder
  <2> QED
    BY <1>6, <2>1, <2>2, <2>3
<1>9. CASE Report(c, p)
  <2>1. /\ status[p] = "Unfiled" /\ g.pc = "audit"
        /\ status' = [status EXCEPT ![p] = "PendingApproval"]
    BY <1>1, <1>9 DEF Report, Begin, TypeOK
  <2>2. holder[p] = None
    BY <2>1 DEF Inv, RecordsAgree, NoRow, Untouched
  <2>3. Published(p) /\ status'[p] = "PendingApproval"
    BY <1>1, <2>1 DEF SerialInv, TypeOK
  <2>4. Published(p)'
    BY <1>4, <1>6, <1>7, <2>2, <2>3 DEF Published
  <2>5. Fresh(req[c])'
    BY <2>1 DEF Fresh
  <2>6. Abstract!File(p)
    BY <1>4, <1>8, <2>1 DEF Abstract!File
  <2> QED
    BY <1>6, <2>4, <2>5, <2>6 DEF SerialInv, Abstract!Next
<1>10. CASE ~ Report(c, p)
  <2>1. status' = status /\ g.pc # "audit"
    BY <1>1, <1>10 DEF Load, LoadApprove, LoadReject, LoadWithdraw, LoadEdit, LoadDelete,
         LoadVote, LoadAssign, record, Begin, TypeOK
  <2>2. Published(p)
    BY DEF SerialInv
  <2>3. Published(p)'
    BY <1>4, <1>6, <1>7, <2>1, <2>2 DEF Published
  <2>4. Fresh(req[c])'
    BY <1>3, <2>1 DEF Fresh
  <2>5. UNCHANGED Abstract!vars
    BY <1>4, <1>8, <2>1 DEF Abstract!vars
  <2> QED
    BY <1>6, <2>3, <2>4, <2>5 DEF SerialInv
<1> QED
  BY <1>9, <1>10

\* Where a step of request c acts, and what it finds there.
LEMMA StepLocal ==
    ASSUME Inv, SerialInv, NEW c \in Request, Step(c), NEW q \in Problem, q = req[c].p
    PROVE  /\ TypeOK /\ req[c] # Idle /\ req[c] \in Handler /\ Relies(req[c]) /\ Fresh(req[c]) /\ Published(q)
           /\ req'[c] # Idle => req'[c].p = q /\ req'[c].who = req[c].who /\ req'[c].from = req[c].from
                                /\ req'[c].op = req[c].op /\ req'[c].arg = req[c].arg
           /\ \A at : Goto(c, at) => req'[c] = [req[c] EXCEPT !.pc = at] /\ req'[c].pc = at
                                     /\ req'[c] # Idle /\ req'[c].to = req[c].to
                                     /\ req'[c].count = req[c].count
           /\ Finish(c) => req'[c] = Idle
           /\ OneAtATime'
           /\ \A d \in Request \ {c} : req'[d] # Idle => Fresh(req[d])'
           /\ \A r \in Problem \ {q} : Published(r)'
           /\ Counted[q] = CountedOf(q, req[c]) /\ Counted'[q] = CountedOf(q, req[c])'
           /\ PublishedHolder[q] = HolderOf(q, req[c])
           /\ PublishedHolder'[q] = HolderOf(q, req[c])'
           /\ Counted' = [Counted EXCEPT ![q] = Counted'[q]]
           /\ PublishedHolder' = [PublishedHolder EXCEPT ![q] = PublishedHolder'[q]]
<1> DEFINE h == req[c]
<1>1. /\ TypeOK /\ h # Idle
  BY DEF Inv, Step, Screen, Withdraw, Edit, Erase, Purge, AddVote, CountVotes, SaveCount,
         CreateAssignment, MarkAssigned, AppendAudit, Tell, At
<1>2. h \in Handler /\ h.p \in Problem /\ Fresh(h) /\ Published(q) /\ Relies(h)
  BY <1>1, RequestFacts DEF SerialInv
<1>3. ASSUME NEW at, Goto(c, at)
      PROVE  /\ req'[c] = [h EXCEPT !.pc = at] /\ req'[c].pc = at /\ req'[c] # Idle
             /\ req'[c].p = h.p /\ req'[c].who = h.who /\ req'[c].from = h.from
             /\ req'[c].op = h.op /\ req'[c].arg = h.arg /\ req'[c].to = h.to
             /\ req'[c].count = h.count
  <2>1. req'[c] = [h EXCEPT !.pc = at]
    BY <1>1, <1>3 DEF Goto, TypeOK
  <2>2. h \in Fields
    BY <1>2 DEF Handler
  <2>3. /\ req'[c].pc = at
        /\ req'[c].p = h.p /\ req'[c].who = h.who /\ req'[c].from = h.from
        /\ req'[c].op = h.op /\ req'[c].arg = h.arg /\ req'[c].to = h.to
        /\ req'[c].count = h.count
    BY <2>1, <2>2 DEF Fields
  <2>4. DOMAIN req'[c] # DOMAIN Idle
    BY <2>1, <2>2 DEF Fields, Idle
  <2> QED
    BY <2>1, <2>3, <2>4
<1>4. Finish(c) => req'[c] = Idle
  BY <1>1 DEF Finish, TypeOK
<1>5. CountVotes(c) => /\ req'[c].p = h.p /\ req'[c].who = h.who /\ req'[c].from = h.from
                       /\ req'[c].op = h.op /\ req'[c].arg = h.arg
  <2>1. h \in Fields
    BY <1>2 DEF Handler
  <2> QED
    BY <1>1, <2>1 DEF CountVotes, TypeOK, Fields
<1>6. Finish(c) \/ (\E at : Goto(c, at)) \/ CountVotes(c)
  BY DEF Step, Screen, Withdraw, Edit, Erase, Purge, AddVote, SaveCount,
         CreateAssignment, MarkAssigned, AppendAudit, Tell
<1>7. req'[c] # Idle => /\ req'[c].p = h.p /\ req'[c].who = h.who /\ req'[c].from = h.from
                        /\ req'[c].op = h.op /\ req'[c].arg = h.arg
  BY <1>3, <1>4, <1>5, <1>6
<1>8. ASSUME NEW d \in Request \ {c}
      PROVE  req'[d] = req[d] /\ (req[d] = Idle \/ req[d].p # h.p)
  <2>1. req'[d] = req[d]
    BY <1>1 DEF Step, Screen, Withdraw, Edit, Erase, Purge, AddVote, CountVotes, SaveCount,
                CreateAssignment, MarkAssigned, AppendAudit, Tell, Goto, Finish, TypeOK
  <2> QED
    BY <1>1, <2>1 DEF SerialInv, OneAtATime
<1>9. ASSUME NEW r \in Problem \ {h.p} PROVE Row(r)' = Row(r)
  <2>1. /\ status'[r] = status[r] /\ validCount'[r] = validCount[r] /\ votes'[r] = votes[r]
        /\ holder'[r] = holder[r]
    BY <1>1, <1>2 DEF Step, Screen, Withdraw, Edit, Erase, Purge, AddVote, CountVotes, SaveCount,
                CreateAssignment, MarkAssigned, AppendAudit, Tell, TypeOK, record
  <2> QED
    BY <2>1 DEF Row
<1>10. /\ OneAtATime'
       /\ \A d \in Request \ {c} : req'[d] # Idle => Fresh(req[d])'
       /\ \A r \in Problem \ {q} : Published(r)'
       /\ Counted[q] = CountedOf(q, req[c]) /\ Counted'[q] = CountedOf(q, req[c])'
       /\ PublishedHolder[q] = HolderOf(q, req[c])
       /\ PublishedHolder'[q] = HolderOf(q, req[c])'
       /\ Counted' = [Counted EXCEPT ![q] = Counted'[q]]
       /\ PublishedHolder' = [PublishedHolder EXCEPT ![q] = PublishedHolder'[q]]
  <2>1. /\ \A d \in Request \ {c} : req'[d] = req[d] /\ (req[d] = Idle \/ req[d].p # q)
        /\ req[c] = Idle \/ req[c].p = q
        /\ req'[c] = Idle \/ req'[c].p = q
        /\ \A r \in Problem \ {q} : Row(r)' = Row(r)
    BY <1>7, <1>8, <1>9
  <2> QED
    BY <1>1, <2>1, Elsewhere
<1> QED
  BY <1>1, <1>2, <1>3, <1>4, <1>7, <1>10

\* A statement that changes nothing an outsider sees is no step of the abstract report.
LEMMA HiddenStep ==
    ASSUME Inv, SerialInv, NEW c \in Request, Step(c), NEW q \in Problem, q = req[c].p,
           UNCHANGED <<status, validCount, text>>,
           Counted'[q] = Counted[q], PublishedHolder'[q] = PublishedHolder[q],
           req'[c] = Idle \/ Fresh(req[c])'
    PROVE  SerialInv' /\ UNCHANGED Abstract!vars
<1>1. /\ Published(q) /\ OneAtATime'
      /\ \A d \in Request \ {c} : req'[d] # Idle => Fresh(req[d])'
      /\ \A r \in Problem \ {q} : Published(r)'
      /\ Counted' = [Counted EXCEPT ![q] = Counted'[q]]
      /\ PublishedHolder' = [PublishedHolder EXCEPT ![q] = PublishedHolder'[q]]
  BY StepLocal
<1>2. Published(q)'
  BY <1>1 DEF Published
<1>3. Counted' = Counted /\ PublishedHolder' = PublishedHolder
  <2>1. /\ Counted = [r \in Problem |-> Counted[r]]
        /\ PublishedHolder = [r \in Problem |-> PublishedHolder[r]]
    BY DEF Counted, PublishedHolder
  <2> QED
    BY <1>1, <2>1
<1>4. SerialInv'
  BY <1>1, <1>2 DEF SerialInv
<1> QED
  BY <1>3, <1>4 DEF Abstract!vars

\* The compare-and-sets: a publication or a takedown.
LEMMA DecisionRefines ==
    ASSUME Inv, SerialInv, NEW c \in Request, Screen(c) \/ Withdraw(c),
           NEW q \in Problem, q = req[c].p
    PROVE  SerialInv' /\ [Abstract!Next]_(Abstract!vars)
<1> DEFINE h == req[c]
<1>1. Step(c)
  BY DEF Step
<1>2. /\ TypeOK /\ h \in Handler /\ Fresh(h) /\ Published(q) /\ OneAtATime'
      /\ \A d \in Request \ {c} : req'[d] # Idle => Fresh(req[d])'
      /\ \A r \in Problem \ {q} : Published(r)'
      /\ Counted[q] = CountedOf(q, req[c]) /\ Counted'[q] = CountedOf(q, req[c])'
      /\ PublishedHolder[q] = HolderOf(q, req[c])
      /\ PublishedHolder'[q] = HolderOf(q, req[c])'
      /\ Counted' = [Counted EXCEPT ![q] = Counted'[q]]
      /\ PublishedHolder' = [PublishedHolder EXCEPT ![q] = PublishedHolder'[q]]
  BY <1>1, StepLocal
<1>3. /\ UNCHANGED <<validCount, text, votes, holder>> /\ h.pc \in {"screen", "withdraw"}
      /\ ValidVoters(q)' = ValidVoters(q)
  BY DEF Screen, Withdraw, At, ValidVoters
<1>4. Finish(c) \/ Goto(c, "audit")
  BY DEF Screen, Withdraw
<1>5. req'[c] = Idle \/ req'[c].pc = "audit"
  BY <1>1, <1>4, StepLocal
<1>6. Counted'[q] = Counted[q] /\ PublishedHolder'[q] = PublishedHolder[q]
  BY <1>2, <1>3, <1>5 DEF CountedOf, HolderOf
<1>7. Fresh(req[c])' \/ req'[c] = Idle
  BY <1>5 DEF Fresh
<1>8. CASE status' = status
  BY <1>1, <1>3, <1>6, <1>7, <1>8, HiddenStep
<1>9. CASE status' # status
  <2>1. PICK s : /\ status' = [status EXCEPT ![q] = s]
                 /\ \/ status[q] = "PendingApproval" /\ s = "Reported"
                    \/ Rejectable(status[q]) /\ s \in {"Rejected", "Withdrawn"}
    <3>1. CASE Screen(c)
      BY <1>2, <1>9, <3>1 DEF Screen, At, Fresh
    <3>2. CASE Withdraw(c)
      BY <1>2, <1>9, <3>2 DEF Withdraw, At, Fresh, Withdrawable, Rejectable
    <3> QED
      BY <3>1, <3>2
  <2>2. status'[q] = s
    BY <1>2, <2>1 DEF TypeOK
  <2>3. PublishedHolder[q] = None
    BY <1>2, <2>1 DEF Published, Rejectable, CaseMirror
  <2>4. status[q] = "PendingApproval" => validCount[q] = 0
    BY DEF Inv, RecordsAgree, Untouched
  <2>5. Published(q)'
    BY <1>2, <1>3, <1>6, <2>1, <2>2, <2>3, <2>4, ThresholdAssumption DEF Published
  <2>6. Counted' = Counted /\ PublishedHolder' = PublishedHolder
    <3>1. /\ Counted = [r \in Problem |-> Counted[r]]
          /\ PublishedHolder = [r \in Problem |-> PublishedHolder[r]]
      BY DEF Counted, PublishedHolder
    <3> QED
      BY <1>2, <1>6, <3>1
  <2>7. Abstract!Publish(q) \/ Abstract!TakeDown(q, "Rejected") \/ Abstract!TakeDown(q, "Withdrawn")
    BY <1>3, <2>1, <2>3, <2>6
    DEF Abstract!Publish, Abstract!TakeDown, Abstract!Open, Rejectable
  <2>8. Abstract!Next
    BY <2>7 DEF Abstract!Next, Abstract!TakenDown
  <2> QED
    BY <1>2, <1>7, <2>5, <2>8 DEF SerialInv
<1> QED
  BY <1>8, <1>9

\* The edit: only an unendorsed wording changes.
LEMMA EditRefines ==
    ASSUME Inv, SerialInv, NEW c \in Request, Edit(c), NEW q \in Problem, q = req[c].p
    PROVE  SerialInv' /\ [Abstract!Next]_(Abstract!vars)
<1> DEFINE h == req[c]
<1>1. Step(c)
  BY DEF Step
<1>2. /\ TypeOK /\ h \in Handler /\ Fresh(h) /\ Published(q) /\ OneAtATime'
      /\ \A d \in Request \ {c} : req'[d] # Idle => Fresh(req[d])'
      /\ \A r \in Problem \ {q} : Published(r)'
      /\ Counted[q] = CountedOf(q, req[c]) /\ Counted'[q] = CountedOf(q, req[c])'
      /\ PublishedHolder[q] = HolderOf(q, req[c])
      /\ PublishedHolder'[q] = HolderOf(q, req[c])'
      /\ Counted' = [Counted EXCEPT ![q] = Counted'[q]]
      /\ PublishedHolder' = [PublishedHolder EXCEPT ![q] = PublishedHolder'[q]]
  BY <1>1, StepLocal
<1>3. /\ UNCHANGED <<status, validCount, votes, holder>> /\ h.pc = "edit"
      /\ ValidVoters(q)' = ValidVoters(q)
  BY DEF Edit, At, ValidVoters
<1>4. Finish(c) \/ Goto(c, "audit")
  BY DEF Edit
<1>5. req'[c] = Idle \/ req'[c].pc = "audit"
  BY <1>1, <1>4, StepLocal
<1>6. Counted'[q] = Counted[q] /\ PublishedHolder'[q] = PublishedHolder[q]
  BY <1>2, <1>3, <1>5 DEF CountedOf, HolderOf
<1>7. Fresh(req[c])' \/ req'[c] = Idle
  BY <1>5 DEF Fresh
<1>8. CASE text' = text
  BY <1>1, <1>3, <1>6, <1>7, <1>8, HiddenStep
<1>9. CASE text' # text
  <2>1. Editable(q) /\ text' = [text EXCEPT ![q] = @ + 1]
    BY <1>9 DEF Edit
  <2>2. Counted[q] = {}
    <3>1. IsFiniteSet(ValidVoters(q)) /\ Counted[q] = ValidVoters(q)
      BY <1>2, <1>3, VotersFinite DEF CountedOf
    <3>2. Cardinality(Counted[q]) = 0
      BY <1>2, <2>1 DEF Editable, Published
    <3> QED
      BY <3>1, <3>2, FS_EmptySet
  <2>3. Counted' = Counted /\ PublishedHolder' = PublishedHolder
    <3>1. /\ Counted = [r \in Problem |-> Counted[r]]
          /\ PublishedHolder = [r \in Problem |-> PublishedHolder[r]]
      BY DEF Counted, PublishedHolder
    <3> QED
      BY <1>2, <1>6, <3>1
  <2>4. Abstract!Reword(q)
    BY <1>3, <2>1, <2>2, <2>3 DEF Editable, Abstract!Reword
  <2>5. Abstract!Next
    BY <2>4 DEF Abstract!Next
  <2>6. Published(q)'
    BY <1>2, <1>3, <1>6 DEF Published
  <2> QED
    BY <1>2, <1>7, <2>5, <2>6 DEF SerialInv
<1> QED
  BY <1>8, <1>9

LEMMA EraseRefines ==
    ASSUME Inv, SerialInv, NEW c \in Request, Erase(c), NEW q \in Problem, q = req[c].p
    PROVE  SerialInv' /\ [Abstract!Next]_(Abstract!vars)
<1> DEFINE h == req[c]
<1>1. Step(c)
  BY DEF Step
<1>2. /\ TypeOK /\ h \in Handler /\ Fresh(h) /\ Published(q) /\ OneAtATime'
      /\ \A d \in Request \ {c} : req'[d] # Idle => Fresh(req[d])'
      /\ \A r \in Problem \ {q} : Published(r)'
      /\ Counted[q] = CountedOf(q, req[c]) /\ Counted'[q] = CountedOf(q, req[c])'
      /\ PublishedHolder[q] = HolderOf(q, req[c])
      /\ PublishedHolder'[q] = HolderOf(q, req[c])'
      /\ Counted' = [Counted EXCEPT ![q] = Counted'[q]]
      /\ PublishedHolder' = [PublishedHolder EXCEPT ![q] = PublishedHolder'[q]]
  BY <1>1, StepLocal
<1>3. (Finish(c) \/ Goto(c, "purge")) /\ h.pc = "erase"
  BY DEF Erase, At
<1>4. req'[c] = Idle \/ req'[c].pc = "purge"
  BY <1>1, <1>3, StepLocal
<1>5. Fresh(req[c])' \/ req'[c] = Idle
  BY <1>4 DEF Fresh
<1>6. CASE ~ Exists(q)
  <2>1. /\ UNCHANGED <<status, validCount, text, votes, holder>>
        /\ ValidVoters(q)' = ValidVoters(q)
    BY <1>6 DEF Erase, record, ValidVoters
  <2>2. Counted'[q] = Counted[q] /\ PublishedHolder'[q] = PublishedHolder[q]
    BY <1>2, <1>3, <1>4, <2>1 DEF CountedOf, HolderOf
  <2> QED
    BY <1>1, <1>5, <2>1, <2>2, HiddenStep
<1>7. CASE Exists(q)
  <2>1. /\ status' = [status EXCEPT ![q] = "Gone"]
        /\ validCount' = [validCount EXCEPT ![q] = 0]
        /\ text' = [text EXCEPT ![q] = 0]
        /\ votes'[q] = NoVotes /\ holder'[q] = None
    BY <1>2, <1>7 DEF Erase, TypeOK
  <2>2. ValidVoters(q)' = {}
    BY <2>1, NoneAssumption DEF NoVotes, ValidVoters
  <2>3. Counted'[q] = {} /\ PublishedHolder'[q] = None
    BY <1>2, <2>1, <2>2 DEF CountedOf, HolderOf
  <2>4. Published(q)'
    BY <1>2, <2>1, <2>3, FS_EmptySet DEF Published, TypeOK
  <2>5. Abstract!Erase(q)
    BY <1>2, <1>7, <2>1, <2>3
    DEF Abstract!Erase, Abstract!Public, Abstract!Open, Abstract!Underway, Abstract!TakenDown,
        Exists, Status
  <2> QED
    BY <1>2, <1>5, <2>4, <2>5 DEF SerialInv, Abstract!Next
<1> QED
  BY <1>6, <1>7

\* A vote cast is not counted yet; the count is then taken of what is there.
LEMMA CastRefines ==
    ASSUME Inv, SerialInv, NEW c \in Request, AddVote(c) \/ CountVotes(c),
           NEW q \in Problem, q = req[c].p
    PROVE  SerialInv' /\ [Abstract!Next]_(Abstract!vars)
<1> DEFINE h == req[c]
<1>1. Step(c)
  BY DEF Step
<1>2. /\ TypeOK /\ h \in Handler /\ Fresh(h) /\ Published(q)
      /\ h # Idle
      /\ Finish(c) => req'[c] = Idle
      /\ req'[c] # Idle => req'[c].p = q /\ req'[c].who = h.who /\ req'[c].from = h.from
                           /\ req'[c].arg = h.arg
      /\ Counted[q] = CountedOf(q, req[c]) /\ Counted'[q] = CountedOf(q, req[c])'
      /\ PublishedHolder[q] = HolderOf(q, req[c])
      /\ PublishedHolder'[q] = HolderOf(q, req[c])'
  BY <1>1, StepLocal
<1>3. /\ UNCHANGED <<status, validCount, text, holder>> /\ h.pc \in {"addvote", "count"}
      /\ h.who \in Resident /\ h.arg \in {"valid", "invalid"} /\ status[q] = h.from
  BY <1>2 DEF AddVote, CountVotes, At, record, Handler, Fresh
<1>4. CASE AddVote(c) /\ ~ MayVote(q, h.who)
  <2>1. req'[c] = Idle /\ votes' = votes /\ ValidVoters(q)' = ValidVoters(q) /\ h.pc = "addvote"
    BY <1>2, <1>4 DEF AddVote, At, ValidVoters
  <2>2. Counted'[q] = Counted[q] /\ PublishedHolder'[q] = PublishedHolder[q]
    BY <1>2, <1>3, <2>1 DEF CountedOf, HolderOf
  <2> QED
    BY <1>1, <1>3, <2>1, <2>2, HiddenStep
<1>5. CASE AddVote(c) /\ MayVote(q, h.who)
  <2>1. Goto(c, "count") /\ votes' = [votes EXCEPT ![q][h.who] = h.arg] /\ votes[q][h.who] = None
        /\ h.pc = "addvote"
    BY <1>5 DEF AddVote, MayVote, At
  <2>2. req'[c].pc = "count" /\ req'[c] # Idle
    BY <1>1, <2>1, StepLocal
  <2>3. votes'[q][h.who] = h.arg /\ \A r \in Resident \ {h.who} : votes'[q][r] = votes[q][r]
    BY <1>2, <1>3, <2>1 DEF TypeOK
  <2>4. ValidVoters(q)' \ {h.who} = ValidVoters(q)
    BY <2>1, <2>3, NoneAssumption DEF ValidVoters
  <2>5. Counted'[q] = Counted[q] /\ PublishedHolder'[q] = PublishedHolder[q]
    BY <1>2, <1>3, <2>1, <2>2, <2>4 DEF CountedOf, HolderOf
  <2>6. Fresh(req[c])'
    BY <1>2, <1>3, <2>2, <2>3 DEF Fresh
  <2> QED
    BY <1>1, <1>3, <2>5, <2>6, HiddenStep
<1>6. CASE CountVotes(c)
  <2>1. /\ votes' = votes /\ ValidVoters(q)' = ValidVoters(q) /\ h.pc = "count"
        /\ DistinctValidVoters(q)' = DistinctValidVoters(q)
    BY <1>6 DEF CountVotes, At, record, ValidVoters, DistinctValidVoters
  <2>2. req'[c] = [h EXCEPT !.pc = "save", !.count = DistinctValidVoters(h.p),
                            !.to = Evaluate(h.from, DistinctValidVoters(h.p))]
    BY <1>2, <1>6 DEF CountVotes, TypeOK
  <2>3. req'[c].pc = "save" /\ req'[c] # Idle /\ req'[c].count = DistinctValidVoters(q)
    <3>1. h \in Fields
      BY <1>2 DEF Handler
    <3>2. DOMAIN req'[c] # DOMAIN Idle
      BY <2>2, <3>1 DEF Fields, Idle
    <3>3. req'[c].pc = "save" /\ req'[c].count = DistinctValidVoters(q)
      BY <2>2, <3>1 DEF Fields
    <3> QED
      BY <3>2, <3>3
  <2>4. Counted'[q] = Counted[q] /\ PublishedHolder'[q] = PublishedHolder[q]
    <3>1. req'[c].p = q /\ req'[c].who = h.who /\ h # Idle
      BY <1>2, <2>3
    <3>2. Counted[q] = ValidVoters(q) \ {h.who}
      BY <1>2, <2>1, <3>1 DEF CountedOf
    <3>3. Counted'[q] = ValidVoters(q) \ {h.who}
      BY <1>2, <2>1, <2>3, <3>1 DEF CountedOf
    <3>4. PublishedHolder[q] = holder[q] /\ PublishedHolder'[q] = holder[q]
      BY <1>2, <1>3, <2>1, <2>3, <3>1 DEF HolderOf
    <3> QED
      BY <3>2, <3>3, <3>4
  <2>5. DistinctValidVoters(req[c].p)' = DistinctValidVoters(q)'
    BY <1>2, <2>3 DEF DistinctValidVoters, ValidVoters
  <2>6. Fresh(req[c])'
    BY <1>2, <1>3, <2>1, <2>3, <2>5 DEF Fresh
  <2> QED
    BY <1>1, <1>3, <2>4, <2>6, HiddenStep
<1> QED
  BY <1>4, <1>5, <1>6

\* The abstract report counts as the code does.
LEMMA SameCount == \A S : Abstract!Cardinality(S) = Cardinality(S)
  BY Zenon DEF Abstract!Cardinality, Cardinality

\* The write of the count is the step that endorses, for a valid vote, and nothing for
\* an invalid one.
LEMMA CountRefines ==
    ASSUME Inv, SerialInv, NEW c \in Request, SaveCount(c), NEW q \in Problem, q = req[c].p
    PROVE  SerialInv' /\ [Abstract!Next]_(Abstract!vars)
<1> DEFINE h == req[c]
<1>1. Step(c)
  BY DEF Step
<1>2. /\ TypeOK /\ h \in Handler /\ Fresh(h) /\ Published(q) /\ Relies(h) /\ OneAtATime'
      /\ h # Idle
      /\ \A d \in Request \ {c} : req'[d] # Idle => Fresh(req[d])'
      /\ \A r \in Problem \ {q} : Published(r)'
      /\ Counted[q] = CountedOf(q, req[c]) /\ Counted'[q] = CountedOf(q, req[c])'
      /\ PublishedHolder[q] = HolderOf(q, req[c])
      /\ PublishedHolder'[q] = HolderOf(q, req[c])'
      /\ Counted' = [Counted EXCEPT ![q] = Counted'[q]]
      /\ PublishedHolder' = [PublishedHolder EXCEPT ![q] = PublishedHolder'[q]]
  BY <1>1, StepLocal
<1>3. /\ UNCHANGED <<text, votes, holder>> /\ h.pc = "save"
      /\ ValidVoters(q)' = ValidVoters(q)
      /\ IsFiniteSet(ValidVoters(q)) /\ Cardinality(ValidVoters(q)) \in Nat
  BY VotersFinite DEF SaveCount, At, ValidVoters
<1>4. /\ h.who \in Resident /\ h.arg \in {"valid", "invalid"} /\ h.from \in Status
      /\ status[q] = h.from /\ h.from # "PendingApproval"
      /\ h.count = Cardinality(ValidVoters(q)) /\ h.to = Evaluate(h.from, h.count)
      /\ votes[q][h.who] = h.arg
  BY <1>2, <1>3 DEF Handler, Fields, Fresh, Relies, DistinctValidVoters
<1>5. /\ validCount' = [validCount EXCEPT ![q] = h.count]
      /\ status' = [status EXCEPT ![q] = h.to]
      /\ Finish(c) \/ Goto(c, "audit")
  BY <1>4 DEF SaveCount, Exists
<1>6. req'[c] = Idle \/ req'[c].pc = "audit"
  BY <1>1, <1>5, StepLocal
<1>7. Fresh(req[c])' \/ req'[c] = Idle
  BY <1>6 DEF Fresh
<1>8. /\ Counted[q] = ValidVoters(q) \ {h.who} /\ Counted'[q] = ValidVoters(q)
      /\ PublishedHolder[q] = holder[q] /\ PublishedHolder'[q] = holder[q]
  BY <1>2, <1>3, <1>6 DEF CountedOf, HolderOf
<1>9. CASE h.arg = "valid"
  <2>1. h.who \in ValidVoters(q)
    BY <1>4, <1>9 DEF ValidVoters
  <2>2. Counted' = [Counted EXCEPT ![q] = @ \cup {h.who}] /\ h.who \notin Counted[q]
    <3>1. Counted'[q] = Counted[q] \cup {h.who} /\ h.who \notin Counted[q]
      BY <1>8, <2>1
    <3> QED
      BY <1>2, <3>1
  <2>3. PublishedHolder' = PublishedHolder
    <3>1. PublishedHolder = [r \in Problem |-> PublishedHolder[r]]
      BY DEF PublishedHolder
    <3> QED
      BY <1>2, <1>8, <3>1
  <2>4. /\ validCount'[q] = h.count /\ Cardinality(Counted'[q]) = h.count
        /\ status'[q] = Evaluate(status[q], h.count)
    BY <1>2, <1>4, <1>5, <1>8 DEF TypeOK
  <2>5. status[q] \in Abstract!Public
    BY <1>4 DEF Status, Abstract!Public, Abstract!Open, Abstract!Underway, Abstract!TakenDown
  <2>6. Abstract!Endorse(q, h.who)
    <3>1. validCount' = [validCount EXCEPT ![q] = Cardinality(Counted'[q])]
      BY <1>5, <2>4
    <3>2. status' = [status EXCEPT ![q] =
                       IF @ = "Reported" /\ validCount'[q] >= V THEN "Validated" ELSE @]
      BY <1>4, <1>5, <2>4 DEF Evaluate
    <3>3. UNCHANGED <<text, PublishedHolder>>
      BY <1>3, <2>3
    <3> QED
      BY <2>2, <2>5, <3>1, <3>2, <3>3, SameCount DEF Abstract!Endorse
  <2>7. Published(q)'
    <3>1. validCount'[q] = Cardinality(Counted'[q])
      BY <2>4
    <3>2. status'[q] = "Reported" => validCount'[q] < V
      BY <1>3, <1>4, <2>4, ThresholdAssumption DEF Evaluate
    <3>3. PublishedHolder'[q] # None => status'[q] \in {"Assigned"} \cup CaseMirror
      BY <1>2, <1>8, <2>4 DEF Published, Evaluate, CaseMirror
    <3> QED
      BY <3>1, <3>2, <3>3 DEF Published
  <2>8. Abstract!Next
    BY <1>4, <2>6 DEF Abstract!Next
  <2> QED
    BY <1>2, <1>7, <2>7, <2>8 DEF SerialInv
<1>10. CASE h.arg = "invalid"
  <2>1. h.who \notin ValidVoters(q)
    BY <1>4, <1>10 DEF ValidVoters
  <2>2. Counted'[q] = Counted[q] /\ Counted[q] = ValidVoters(q)
    BY <1>8, <2>1
  <2>3. validCount[q] = h.count /\ (h.from = "Reported" => h.count < V)
    BY <1>2, <1>4, <2>2 DEF Published
  <2>4. h.to = h.from
    BY <1>3, <1>4, <2>3, ThresholdAssumption DEF Evaluate
  <2>5. UNCHANGED <<status, validCount, text>>
    BY <1>2, <1>3, <1>4, <1>5, <2>3, <2>4 DEF TypeOK
  <2> QED
    BY <1>1, <1>7, <1>8, <2>2, <2>5, HiddenStep
<1> QED
  BY <1>4, <1>9, <1>10

\* An assignment shows when its report is marked.
LEMMA AssignRefines ==
    ASSUME Inv, SerialInv, NEW c \in Request, CreateAssignment(c) \/ MarkAssigned(c),
           NEW q \in Problem, q = req[c].p
    PROVE  SerialInv' /\ [Abstract!Next]_(Abstract!vars)
<1> DEFINE h == req[c]
<1>1. Step(c)
  BY DEF Step
<1>2. /\ TypeOK /\ h \in Handler /\ Fresh(h) /\ Published(q) /\ Relies(h) /\ OneAtATime'
      /\ h # Idle
      /\ Finish(c) => req'[c] = Idle
      /\ req'[c] # Idle => req'[c].p = q /\ req'[c].who = h.who /\ req'[c].from = h.from
      /\ \A d \in Request \ {c} : req'[d] # Idle => Fresh(req[d])'
      /\ \A r \in Problem \ {q} : Published(r)'
      /\ Counted[q] = CountedOf(q, req[c]) /\ Counted'[q] = CountedOf(q, req[c])'
      /\ PublishedHolder[q] = HolderOf(q, req[c])
      /\ PublishedHolder'[q] = HolderOf(q, req[c])'
      /\ Counted' = [Counted EXCEPT ![q] = Counted'[q]]
      /\ PublishedHolder' = [PublishedHolder EXCEPT ![q] = PublishedHolder'[q]]
  BY <1>1, StepLocal
<1>3. /\ UNCHANGED <<validCount, text, votes>> /\ h.pc \in {"insert", "mark"}
      /\ ValidVoters(q)' = ValidVoters(q)
      /\ status[q] = h.from /\ EligibleForAssignment(h.from) /\ h.who \in Admin
  BY <1>2 DEF CreateAssignment, MarkAssigned, At, ValidVoters, Fresh
<1>4. PublishedHolder[q] = None
  BY <1>2, <1>3 DEF Published, EligibleForAssignment, CaseMirror
<1>5. CASE CreateAssignment(c) /\ ~ MayHold(q)
  <2>1. /\ req'[c] = Idle /\ UNCHANGED <<status, holder>> /\ h.pc = "insert"
    BY <1>2, <1>5 DEF CreateAssignment, At
  <2>2. Counted'[q] = Counted[q] /\ PublishedHolder'[q] = PublishedHolder[q]
    BY <1>2, <1>3, <2>1 DEF CountedOf, HolderOf
  <2> QED
    BY <1>1, <1>3, <2>1, <2>2, HiddenStep
<1>6. CASE CreateAssignment(c) /\ MayHold(q)
  <2>1. /\ Goto(c, "mark") /\ UNCHANGED status /\ h.pc = "insert"
    BY <1>6 DEF CreateAssignment, At
  <2>2. req'[c].pc = "mark" /\ req'[c] # Idle
    BY <1>1, <2>1, StepLocal
  <2>3. Counted'[q] = Counted[q] /\ PublishedHolder'[q] = None
    BY <1>2, <1>3, <2>1, <2>2 DEF CountedOf, HolderOf
  <2>4. Fresh(req[c])'
    BY <1>2, <1>3, <2>1, <2>2 DEF Fresh
  <2> QED
    BY <1>1, <1>3, <1>4, <2>1, <2>3, <2>4, HiddenStep
<1>7. CASE MarkAssigned(c)
  <2>1. /\ Goto(c, "audit") /\ status' = [status EXCEPT ![q] = "Assigned"]
        /\ holder' = holder /\ h.pc = "mark"
    BY <1>3, <1>7 DEF MarkAssigned, At, Exists, EligibleForAssignment, Status
  <2>2. req'[c].pc = "audit" /\ req'[c] # Idle
    BY <1>1, <2>1, StepLocal
  <2>3. status'[q] = "Assigned" /\ Fresh(req[c])'
    BY <1>2, <2>1, <2>2 DEF TypeOK, Fresh
  <2>4. Counted'[q] = Counted[q] /\ PublishedHolder'[q] = holder[q]
    BY <1>2, <1>3, <2>1, <2>2 DEF CountedOf, HolderOf
  <2>5. holder[q] \in Official
    BY <1>2, <1>3, <2>1 DEF Relies, Held, EligibleForAssignment, TypeOK
  <2>6. Counted' = Counted
    <3>1. Counted = [r \in Problem |-> Counted[r]]
      BY DEF Counted
    <3> QED
      BY <1>2, <2>4, <3>1
  <2>7. Abstract!Assign(q, holder[q])
    BY <1>2, <1>3, <1>4, <2>1, <2>4, <2>6
    DEF Abstract!Assign, Abstract!Open, EligibleForAssignment
  <2>8. Abstract!Next
    BY <2>5, <2>7 DEF Abstract!Next
  <2>9. Published(q)'
    BY <1>2, <1>3, <2>3, <2>4 DEF Published
  <2> QED
    BY <1>2, <2>3, <2>8, <2>9 DEF SerialInv
<1> QED
  BY <1>5, <1>6, <1>7

\* Audit entries, messages and the purge of the trail are no part of the abstract report.
LEMMA TrailRefines ==
    ASSUME Inv, SerialInv, NEW c \in Request, Purge(c) \/ AppendAudit(c) \/ Tell(c),
           NEW q \in Problem, q = req[c].p
    PROVE  SerialInv' /\ [Abstract!Next]_(Abstract!vars)
<1> DEFINE h == req[c]
<1>1. Step(c)
  BY DEF Step
<1>2. /\ h # Idle
      /\ Counted[q] = CountedOf(q, req[c]) /\ Counted'[q] = CountedOf(q, req[c])'
      /\ PublishedHolder[q] = HolderOf(q, req[c])
      /\ PublishedHolder'[q] = HolderOf(q, req[c])'
  BY <1>1, StepLocal
<1>3. /\ UNCHANGED <<status, validCount, text, votes, holder>>
      /\ h.pc \in {"purge", "audit", "tell"}
      /\ ValidVoters(q)' = ValidVoters(q)
  BY DEF Purge, AppendAudit, Tell, At, record, ValidVoters
<1>4. Finish(c) \/ Goto(c, "tell")
  BY DEF Purge, AppendAudit, Tell
<1>5. req'[c] = Idle \/ req'[c].pc = "tell"
  BY <1>1, <1>4, StepLocal
<1>6. Counted'[q] = Counted[q] /\ PublishedHolder'[q] = PublishedHolder[q]
  BY <1>2, <1>3, <1>5 DEF CountedOf, HolderOf
<1>7. req'[c] = Idle \/ Fresh(req[c])'
  BY <1>5 DEF Fresh
<1> QED
  BY <1>1, <1>3, <1>6, <1>7, HiddenStep

LEMMA MirrorRefines ==
    ASSUME Serial, Inv, SerialInv, NEW q \in Problem, NEW s \in CaseMirror, MirrorCase(q, s)
    PROVE  SerialInv' /\ [Abstract!Next]_(Abstract!vars)
<1>1. /\ TypeOK /\ UNCHANGED <<validCount, text, votes, holder, req>>
      /\ Quiet(q) /\ Exists(q) /\ holder[q] # None
      /\ status' = [status EXCEPT ![q] = s]
      /\ \A p \in Problem : Published(p)
  BY DEF Inv, SerialInv, MirrorCase
<1>2. ASSUME NEW p, NEW w, NEW ats PROVE Pending(p, w, ats)' <=> Pending(p, w, ats)
  BY <1>1 DEF Pending
<1>3. \A p : ValidVoters(p)' = ValidVoters(p)
  BY <1>1 DEF ValidVoters
<1>4. Counted' = Counted
  BY <1>2, <1>3 DEF Counted
<1>5. PublishedHolder' = PublishedHolder
  BY <1>1, <1>2 DEF PublishedHolder
<1>6. PublishedHolder[q] = holder[q]
  BY <1>1 DEF PublishedHolder, Pending, Quiet
<1>7. /\ status'[q] = s /\ s # "Reported"
      /\ \A p \in Problem \ {q} : status'[p] = status[p]
  BY <1>1 DEF TypeOK, CaseMirror
<1>8. \A p \in Problem : Published(p)'
  BY <1>1, <1>4, <1>5, <1>7 DEF Published
<1>9. ASSUME NEW c \in Request, req'[c] # Idle PROVE Fresh(req[c])'
  <2>1. req[c] # Idle /\ req[c].p \in Problem \ {q} /\ Fresh(req[c]) /\ req'[c] = req[c]
    BY <1>1, <1>9, RequestFacts DEF Quiet, SerialInv
  <2>2. DistinctValidVoters(req[c].p)' = DistinctValidVoters(req[c].p)
    BY <1>1 DEF DistinctValidVoters, ValidVoters
  <2> QED
    BY <1>1, <1>7, <2>1, <2>2 DEF Fresh
<1>10. OneAtATime'
  BY <1>1 DEF SerialInv, OneAtATime
<1>11. Abstract!Work(q, s)
  BY <1>1, <1>4, <1>5, <1>6
  DEF Published, CaseMirror, Abstract!Work, Abstract!Underway
<1>12. Abstract!Next
  BY <1>11 DEF Abstract!Next, Abstract!Underway, CaseMirror
<1> QED
  BY <1>8, <1>9, <1>10, <1>12 DEF SerialInv

LEMMA SerialStep ==
    ASSUME Serial, ~ Faults, Inv, SerialInv, Next
    PROVE  SerialInv' /\ [Abstract!Next]_(Abstract!vars)
<1>1. ASSUME NEW c \in Request, NEW p \in Problem, Load(c, p)
      PROVE  SerialInv' /\ [Abstract!Next]_(Abstract!vars)
  BY <1>1, LoadRefines
<1>2. ASSUME NEW c \in Request, Step(c)
      PROVE  SerialInv' /\ [Abstract!Next]_(Abstract!vars)
  <2>1. req[c] # Idle
    BY <1>2 DEF Step, Screen, Withdraw, Edit, Erase, Purge, AddVote, CountVotes, SaveCount,
                CreateAssignment, MarkAssigned, AppendAudit, Tell, At
  <2>2. PICK q \in Problem : q = req[c].p
    BY <2>1, RequestFacts
  <2>3. CASE Screen(c) \/ Withdraw(c)
    BY <2>2, <2>3, DecisionRefines
  <2>4. CASE Edit(c) \/ Erase(c)
    BY <2>2, <2>4, EditRefines, EraseRefines
  <2>5. CASE AddVote(c) \/ CountVotes(c) \/ SaveCount(c)
    BY <2>2, <2>5, CastRefines, CountRefines
  <2>6. CASE CreateAssignment(c) \/ MarkAssigned(c)
    BY <2>2, <2>6, AssignRefines
  <2>7. CASE Purge(c) \/ AppendAudit(c) \/ Tell(c)
    BY <2>2, <2>7, TrailRefines
  <2> QED
    BY <1>2, <2>3, <2>4, <2>5, <2>6, <2>7 DEF Step
<1>3. ASSUME NEW p \in Problem, NEW s \in CaseMirror, MirrorCase(p, s)
      PROVE  SerialInv' /\ [Abstract!Next]_(Abstract!vars)
  BY <1>3, MirrorRefines
<1> QED
  BY <1>1, <1>2, <1>3 DEF Next, Die

\* SerialInv: without overlaps and deaths, what a request loaded is still so when it writes.
THEOREM SerialInvariance ==
    ASSUME Serial, ~ Faults
    PROVE  Spec => []SerialInv
<1>1. Init => SerialInv
  <2> SUFFICES ASSUME Init PROVE SerialInv
    OBVIOUS
  <2>1. ASSUME NEW p \in Problem
        PROVE  /\ Counted[p] = {} /\ PublishedHolder[p] = None
               /\ validCount[p] = 0 /\ status[p] = "Unfiled"
    BY NoneAssumption DEF Init, Counted, ValidVoters, NoVotes, PublishedHolder
  <2>2. \A p \in Problem : Published(p)
    BY <2>1, FS_EmptySet DEF Published
  <2> QED
    BY <2>2 DEF Init, SerialInv, OneAtATime
<1>2. Inv /\ SerialInv /\ [Next]_vars => SerialInv'
  <2> SUFFICES ASSUME Inv, SerialInv, [Next]_vars PROVE SerialInv'
    OBVIOUS
  <2>1. CASE Next
    BY <2>1, SerialStep
  <2>2. CASE UNCHANGED vars
    <3>1. Counted' = Counted /\ PublishedHolder' = PublishedHolder
      BY <2>2 DEF vars, Counted, PublishedHolder, Pending, ValidVoters
    <3>2. \A p \in Problem : Published(p)'
      BY <2>2, <3>1 DEF vars, SerialInv, Published
    <3>3. \A c \in Request : req'[c] # Idle => Fresh(req[c])'
      BY <2>2 DEF vars, SerialInv, Fresh, DistinctValidVoters, ValidVoters
    <3>4. OneAtATime'
      BY <2>2 DEF vars, SerialInv, OneAtATime
    <3> QED
      BY <3>2, <3>3, <3>4 DEF SerialInv
  <2> QED
    BY <2>1, <2>2
<1> QED
  BY <1>1, <1>2, Invariance, PTL DEF Spec

\* KeepsTheRecord: without overlaps and deaths the statements of every use case add up
\* to one step of the report as the domain rules describe it.
THEOREM RecordIsKept ==
    ASSUME Serial, ~ Faults
    PROVE  Spec => KeepsTheRecord
<1>1. Init => Abstract!Init
  <2> SUFFICES ASSUME Init PROVE Abstract!Init
    OBVIOUS
  <2>1. Counted = [p \in Problem |-> {}]
    BY NoneAssumption DEF Init, Counted, ValidVoters, NoVotes
  <2>2. PublishedHolder = [p \in Problem |-> None]
    BY DEF Init, PublishedHolder
  <2> QED
    BY <2>1, <2>2 DEF Init, Abstract!Init
<1>2. Inv /\ SerialInv /\ [Next]_vars => [Abstract!Next]_(Abstract!vars)
  <2> SUFFICES ASSUME Inv, SerialInv, [Next]_vars PROVE [Abstract!Next]_(Abstract!vars)
    OBVIOUS
  <2>1. CASE Next
    BY <2>1, SerialStep
  <2>2. CASE UNCHANGED vars
    <3>1. Counted' = Counted /\ PublishedHolder' = PublishedHolder
      BY <2>2 DEF vars, Counted, PublishedHolder, Pending, ValidVoters
    <3> QED
      BY <2>2, <3>1 DEF vars, Abstract!vars
  <2> QED
    BY <2>1, <2>2
<1> QED
  BY <1>1, <1>2, Invariance, SerialInvariance, PTL DEF Spec, KeepsTheRecord, Abstract!Spec

\* CountIsExactWhenQuiet: without overlaps and deaths the published count equals the
\* votes whenever no request on the report is under way.
THEOREM CountIsExact ==
    ASSUME Serial, ~ Faults
    PROVE  Spec => []CountIsExactWhenQuiet
<1>1. SerialInv => CountIsExactWhenQuiet
  <2> SUFFICES ASSUME SerialInv, NEW p \in Problem, Quiet(p)
               PROVE  validCount[p] = Cardinality(ValidVoters(p))
    BY DEF CountIsExactWhenQuiet
  <2>1. Counted[p] = ValidVoters(p)
    BY DEF Counted, Pending, Quiet, ValidVoters
  <2> QED
    BY <2>1 DEF SerialInv, Published
<1> QED
  BY <1>1, SerialInvariance, PTL

\* EndorsedTextIsFrozen: without overlaps and deaths no wording changes under a stored
\* valid vote.
THEOREM EndorsementsFreezeTheText ==
    ASSUME Serial, ~ Faults
    PROVE  Spec => EndorsedTextIsFrozen
<1>1. ASSUME Inv, SerialInv, Next, NEW p \in Problem, text'[p] # text[p]
      PROVE  ValidVoters(p) = {} \/ status'[p] = "Gone"
  <2>1. TypeOK
    BY <1>1 DEF Inv
  <2>2. PICK c \in Request : Edit(c) \/ Erase(c)
    <3>1. ASSUME NEW c \in Request, NEW q \in Problem, Load(c, q) PROVE text' = text
      BY <3>1 DEF Load, Report, LoadApprove, LoadReject, LoadWithdraw, LoadEdit, LoadDelete,
                  LoadVote, LoadAssign, record
    <3>2. ASSUME NEW c \in Request, Step(c), ~ Edit(c), ~ Erase(c) PROVE text' = text
      BY <3>2 DEF Step, Screen, Withdraw, Purge, AddVote, CountVotes, SaveCount,
                  CreateAssignment, MarkAssigned, AppendAudit, Tell, record
    <3>3. ASSUME NEW c \in Request, Die(c) PROVE text' = text
      BY <3>3 DEF Die, record
    <3>4. ASSUME NEW q \in Problem, NEW s \in CaseMirror, MirrorCase(q, s) PROVE text' = text
      BY <3>4 DEF MirrorCase
    <3> QED
      BY <1>1, <3>1, <3>2, <3>3, <3>4 DEF Next
  <2>3. CASE Erase(c)
    BY <1>1, <2>1, <2>3 DEF Erase, TypeOK, record
  <2>4. CASE Edit(c)
    <3>1. req[c].p = p /\ Editable(p) /\ req[c] # Idle /\ req[c].pc = "edit"
      BY <1>1, <2>1, <2>4 DEF Edit, At, TypeOK
    <3>2. Counted[p] = CountedOf(p, req[c]) /\ Published(p)
      BY <1>1, <2>4, <3>1, StepLocal DEF Step
    <3>3. Cardinality(ValidVoters(p)) = 0
      BY <3>1, <3>2 DEF CountedOf, Published, Editable
    <3> QED
      BY <3>3, VotersFinite, FS_EmptySet
  <2> QED
    BY <2>2, <2>3, <2>4
<1>2. Inv /\ SerialInv /\ [Next]_vars =>
        [\A p \in Problem : text'[p] # text[p]
                                => ValidVoters(p) = {} \/ status'[p] = "Gone"]_vars
  BY <1>1
<1> QED
  BY <1>2, Invariance, SerialInvariance, PTL DEF Spec, EndorsedTextIsFrozen

\* AssignedIsNotTakenDown: without overlaps and deaths the compare-and-set of a takedown
\* does close the race with assignment.
THEOREM TakedownsPrecedeAssignment ==
    ASSUME Serial, ~ Faults
    PROVE  Spec => AssignedIsNotTakenDown
<1>1. ASSUME Inv, SerialInv, Next, NEW p \in Problem,
             status[p] \notin {"Rejected", "Withdrawn"}, status'[p] \in {"Rejected", "Withdrawn"}
      PROVE  holder[p] = None
  <2>1. TypeOK
    BY <1>1 DEF Inv
  <2>2. ASSUME NEW c \in Request, NEW q \in Problem, Load(c, q) PROVE FALSE
    BY <1>1, <2>1, <2>2
    DEF Load, Report, LoadApprove, LoadReject, LoadWithdraw, LoadEdit, LoadDelete, LoadVote,
        LoadAssign, record, TypeOK
  <2>3. ASSUME NEW q \in Problem, NEW s \in CaseMirror, MirrorCase(q, s) PROVE FALSE
    BY <1>1, <2>1, <2>3 DEF MirrorCase, CaseMirror, TypeOK
  <2>4. PICK c \in Request : Step(c)
    BY <1>1, <2>2, <2>3 DEF Next, Die
  <2>5. PICK q \in Problem : q = req[c].p
    BY <1>1, <2>4, RequestFacts DEF Step, Screen, Withdraw, Edit, Erase, Purge, AddVote, CountVotes,
           SaveCount, CreateAssignment, MarkAssigned, AppendAudit, Tell, At
  <2>6. /\ Fresh(req[c]) /\ Relies(req[c]) /\ Published(q) /\ req[c] # Idle
        /\ PublishedHolder[q] = HolderOf(q, req[c])
    BY <1>1, <2>4, <2>5, StepLocal
  <2>7. CASE Screen(c) \/ Withdraw(c)
    <3>1. /\ p = q /\ req[c].pc \in {"screen", "withdraw"}
          /\ status[p] \in {"PendingApproval", "Reported", "Validated"}
      BY <1>1, <2>1, <2>5, <2>6, <2>7
      DEF Screen, Withdraw, At, TypeOK, Fresh, Rejectable, Withdrawable
    <3>2. PublishedHolder[p] = holder[p]
      BY <2>6, <3>1 DEF HolderOf
    <3> QED
      BY <2>6, <3>1, <3>2 DEF Published, CaseMirror
  <2>8. CASE SaveCount(c)
    <3>1. req[c].to = status[q] \/ req[c].to = "Validated"
      BY <2>5, <2>6, <2>8 DEF SaveCount, At, Fresh, Relies, Evaluate
    <3> QED
      BY <1>1, <2>1, <2>5, <2>8, <3>1 DEF SaveCount, TypeOK
  <2>9. CASE Erase(c) \/ MarkAssigned(c)
    BY <1>1, <2>1, <2>9 DEF Erase, MarkAssigned, TypeOK, record
  <2> QED
    BY <1>1, <2>4, <2>7, <2>8, <2>9
    DEF Step, Edit, Purge, AddVote, CountVotes, CreateAssignment, AppendAudit, Tell, record
<1>2. Inv /\ SerialInv /\ [Next]_vars =>
        [\A p \in Problem :
           status[p] \notin {"Rejected", "Withdrawn"} /\ status'[p] \in {"Rejected", "Withdrawn"}
             => holder[p] = None]_vars
  BY <1>1
<1> QED
  BY <1>2, Invariance, SerialInvariance, PTL DEF Spec, AssignedIsNotTakenDown

\* LateVoteMovesNothingBack: without overlaps and deaths a vote writes the status it found,
\* or validates.
THEOREM VotesMoveForward ==
    ASSUME Serial, ~ Faults
    PROVE  Spec => LateVoteMovesNothingBack
<1>1. ASSUME Inv, SerialInv, NEW c \in Request, SaveCount(c)
      PROVE  LET p == req[c].p IN status'[p] \in {status[p], Evaluate(status[p], req[c].count)}
  <2>1. PICK q \in Problem : q = req[c].p
    BY <1>1, RequestFacts DEF SaveCount, At
  <2>2. TypeOK /\ Fresh(req[c]) /\ Relies(req[c])
    BY <1>1, <2>1, StepLocal DEF Step
  <2> QED
    BY <1>1, <2>1, <2>2 DEF SaveCount, At, Fresh, Relies, TypeOK
<1>2. Inv /\ SerialInv /\ [Next]_vars =>
        [\A c \in Request : SaveCount(c) =>
           LET p == req[c].p IN
           status'[p] \in {status[p], Evaluate(status[p], req[c].count)}]_vars
  BY <1>1
<1> QED
  BY <1>2, Invariance, SerialInvariance, PTL DEF Spec, LateVoteMovesNothingBack
=============================================================================
