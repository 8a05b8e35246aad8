---------------------------- MODULE Escalation_proofs ----------------------------
(***************************************************************************)
(* Proofs about Escalation, for any clock, deadline, windows, ladder and       *)
(* bounds: its types and inductive invariant, that silence stays on record,    *)
(* that only an answer releases the observers, and that it implements Watch.   *)
(***************************************************************************)
EXTENDS Escalation, TLAPS, Maximum

USE EscalationAssumption

-----------------------------------------------------------------------------
(* The clocks. *)

\* Whole windows, bounded from both sides.
LEMMA Windows ==
    ASSUME NEW a \in Nat
    PROVE  /\ a \div D \in Nat
           /\ D * (a \div D) <= a
           /\ a < D * (a \div D) + D
  OBVIOUS

\* A later moment has begun no fewer windows.
LEMMA WindowsGrow ==
    ASSUME NEW a \in Nat, NEW b \in Nat, a <= b
    PROVE  a \div D <= b \div D
<1> DEFINE p == a \div D
           q == b \div D
<1>1. /\ p \in Nat /\ D * p <= a
      /\ q \in Nat /\ b < D * q + D
  BY Windows
<1> HIDE DEF p, q
<1>2. ~ q + 1 <= p
  <2>1. q + 1 <= p => D * (q + 1) <= D * p
    BY <1>1
  <2>2. D * (q + 1) = D * q + D
    BY <1>1
  <2> QED
    BY <1>1, <2>1, <2>2
<1>3. p <= q
  BY <1>1, <1>2
<1> QED
  BY <1>3 DEF p, q

\* The target is a level, and no window begins before the anchor.
LEMMA TargetIsLevel ==
    ASSUME NEW a \in Nat, NEW t \in Nat
    PROVE  /\ EscalationTarget(a, t) \in 0..MaxLevel
           /\ EscalationTarget(a, t) > 0 => a < t
<1>1. CASE t <= a
  BY <1>1 DEF EscalationTarget
<1>2. CASE a < t
  <2>1. t - a \in Nat
    BY <1>2
  <2>2. (t - a) \div D \in Nat
    BY <2>1, Windows
  <2> QED
    BY <1>2, <2>2 DEF EscalationTarget
<1> QED
  BY <1>1, <1>2

\* A later anchor reaches no higher.
LEMMA LaterAnchor ==
    ASSUME NEW a \in Nat, NEW b \in Nat, NEW t \in Nat, a <= b
    PROVE  EscalationTarget(b, t) <= EscalationTarget(a, t)
<1>1. CASE t <= b
  BY <1>1, TargetIsLevel DEF EscalationTarget
<1>2. CASE b < t
  <2>1. t - b \in Nat /\ t - a \in Nat /\ t - b <= t - a
    BY <1>2
  <2>2. /\ (t - b) \div D \in Nat /\ (t - a) \div D \in Nat
        /\ (t - b) \div D <= (t - a) \div D
    BY <2>1, Windows, WindowsGrow
  <2> QED
    BY <1>2, <2>2 DEF EscalationTarget
<1> QED
  BY <1>1, <1>2

\* An answer can only lower what the silence since the deadline reaches.
LEMMA SilenceIsLate ==
    ASSUME NEW a \in Nat, NEW t \in Nat
    PROVE  /\ SilenceLevel(a, t) \in 0..MaxLevel
           /\ SilenceLevel(a, t) <= EscalationTarget(Deadline, t)
<1> DEFINE from == IF a = 0 THEN Deadline ELSE Later(Deadline, a + D)
<1>1. from \in Nat /\ Deadline <= from
  BY DEF Later
<1> HIDE DEF from
<1>2. /\ EscalationTarget(from, t) \in 0..MaxLevel
      /\ EscalationTarget(from, t) <= EscalationTarget(Deadline, t)
  BY <1>1, TargetIsLevel, LaterAnchor
<1> QED
  BY <1>2 DEF SilenceLevel, from

-----------------------------------------------------------------------------
(* The rows and the scan's copies. *)

\* What a scan holds at each query.
LEMMA ScanHolds ==
    ASSUME NEW h \in ScanType
    PROVE  /\ h.pc \in {"idle", "activity", "open", "raise", "sync", "rungs"}
           /\ h.pc # "idle" => h.now \in Instant
           /\ h.pc \in {"activity", "open", "raise"} =>
                 h.level \in 0..MaxLevel /\ h.anchored \in BOOLEAN /\ h.anchor \in Nat
           /\ h.pc \in {"open", "raise", "sync"} => h.acted \in Instant
           /\ h.pc \in {"raise", "sync"} => h.open \in SUBSET Row
           /\ h.pc = "rungs" => h.missing \in SUBSET Rung /\
                 h = [pc |-> "rungs", now |-> h.now, missing |-> h.missing]
  BY DEF ScanType, Idle

\* The scan goes on to its next query, and no other is under way.
LEMMA Moves ==
    ASSUME TypeOK, NEW w \in Worker, NEW h \in ScanType, Goto(w, h)
    PROVE  scan' \in [Worker -> ScanType] /\ \A v \in Worker : scan'[v] = h
  BY OneWorker DEF Goto, TypeOK

\* Closing keeps every row's rung and its moment, and ends every silence.
LEMMA ClosedRows ==
    ASSUME NEW S \in SUBSET Row, NEW at \in Instant, 0 < at
    PROVE  /\ Closed(S, at) \in SUBSET Row
           /\ \A o \in Closed(S, at) : o.resolved # 0 /\
                 \E p \in S : o.rung = p.rung /\ o.opened = p.opened
           /\ \A p \in S : \E o \in Closed(S, at) :
                 /\ o.rung = p.rung /\ o.opened = p.opened
                 /\ p.resolved # 0 => o.resolved = p.resolved
<1> DEFINE c(o) == [o EXCEPT !.resolved = IF @ = 0 THEN at ELSE @]
<1>1. ASSUME NEW o \in S
      PROVE  /\ c(o) \in Row /\ c(o).resolved # 0
             /\ c(o).rung = o.rung /\ c(o).opened = o.opened
             /\ o.resolved # 0 => c(o).resolved = o.resolved
  BY <1>1 DEF Row, Instant
<1>2. Closed(S, at) = {c(o) : o \in S}
  BY DEF Closed
<1> HIDE DEF c
<1> QED
  BY <1>1, <1>2

\* With the rows gone quiet nobody watches.
LEMMA NobodyWatches ==
    ASSUME NEW S \in SUBSET Row, NEW at \in Instant, 0 < at, obs' = Closed(S, at)
    PROVE  OpenRows' = {} /\ OpenRungs' = {}
  BY ClosedRows DEF OpenRows, OpenRungs

RungsOf(S) == {o.rung : o \in S}

\* The rungs yet to be opened follow those that are.
LEMMA RungsAbove ==
    ASSUME NEW m \in 0..MaxLevel, NEW S \in SUBSET Row, RungsOf(S) = 1..m,
           NEW t \in 0..MaxLevel, NEW height \in Nat, MissingRungs(S, t, height) # {}
    PROVE  \E n \in 0..MaxLevel : m < n /\ n <= t /\ MissingRungs(S, t, height) = (m + 1)..n
<1> DEFINE n == IF t <= height THEN t ELSE height
<1>1. n \in 0..MaxLevel /\ n <= t /\ n <= height /\ (n = t \/ n = height)
  OBVIOUS
<1> HIDE DEF n
<1>2. ASSUME NEW k \in Rung
      PROVE  (\A o \in S : o.rung # k) <=> m < k
  BY <1>2 DEF Rung, RungsOf
<1>3. MissingRungs(S, t, height) = {k \in Rung : k <= t /\ k <= height /\ m < k}
  BY <1>2 DEF MissingRungs
<1>4. MissingRungs(S, t, height) = (m + 1)..n
  BY <1>1, <1>3 DEF Rung
<1>5. m < n
  BY <1>1, <1>4
<1> QED
  BY <1>1, <1>4, <1>5

\* The lowest of them is next.
LEMMA NextIsLowest ==
    ASSUME NEW m \in 0..MaxLevel, NEW n \in 0..MaxLevel, m < n
    PROVE  /\ NextRung((m + 1)..n) = m + 1
           /\ ((m + 1)..n) \ {m + 1} = (m + 2)..n
           /\ (m + 1)..n = {m + 1} <=> n = m + 1
<1>1. m + 1 \in (m + 1)..n /\ \A j \in (m + 1)..n : m + 1 <= j
  OBVIOUS
<1>2. \A k \in (m + 1)..n : (\A j \in (m + 1)..n : k <= j) => k = m + 1
  BY <1>1
<1>3. NextRung((m + 1)..n) = m + 1
  BY <1>1, <1>2 DEF NextRung
<1>4. (m + 1)..n = {m + 1} <=> n = m + 1
  OBVIOUS
<1> QED
  BY <1>3, <1>4

-----------------------------------------------------------------------------
(* The invariant, through each query of the scan. *)

LEMMA InitSound == Init => ObserversAreDue
<1> SUFFICES ASSUME Init PROVE ObserversAreDue
  OBVIOUS
<1>1. OpenRows = {} /\ OpenRungs = {}
  BY DEF Init, OpenRows, OpenRungs
<1>2. Idle \in ScanType /\ Idle.pc = "idle"
  BY DEF ScanType, Idle
<1>3. TypeOK
  BY <1>2 DEF Init, TypeOK, Status, Instant
<1>4. InOrder /\ CalledInLate /\ TrailHasCause
  BY <1>1 DEF Init, InOrder, CalledInLate, TrailHasCause
<1>5. OpenRungs = 1..0 /\ 0 \in 0..MaxLevel
  BY <1>1
<1>6. \A w \in Worker : FreshScan(scan[w])
  BY <1>2 DEF Init, FreshScan
<1>7. ScansAreFresh
  BY <1>5, <1>6 DEF Init, ScansAreFresh, Idle
<1> QED
  BY <1>3, <1>4, <1>7 DEF ObserversAreDue

\* A query changes what the scan holds and nothing else.
LEMMA ReadSound ==
    ASSUME ObserversAreDue, NEW w \in Worker, NEW h \in ScanType, Goto(w, h), FreshScan(h),
           UNCHANGED <<now, case, level, obs, notes, audit, act, note, faults>>
    PROVE  ObserversAreDue'
<1> USE DEF ObserversAreDue
<1>1. scan' \in [Worker -> ScanType] /\ \A v \in Worker : scan'[v] = h
  BY Moves
<1>2. OpenRows' = OpenRows /\ OpenRungs' = OpenRungs
  BY DEF OpenRows, OpenRungs
<1>3. TypeOK'
  BY <1>1 DEF TypeOK, case
<1>4. InOrder' /\ CalledInLate' /\ TrailHasCause'
  BY <1>2 DEF InOrder, CalledInLate, TrailHasCause
<1>5. \A v \in Worker : FreshScan(scan[v])'
  BY <1>1, <1>2 DEF FreshScan, case
<1>6. ScansAreFresh'
  BY <1>2, <1>5 DEF ScansAreFresh, case
<1> QED
  BY <1>3, <1>4, <1>6

LEMMA AnchorIsInstant ==
    ASSUME TypeOK, HasAnchor
    PROVE  Anchor \in Nat
<1>1. CASE status = "Blocked"
  <2>1. \E b \in pending : \A c \in pending : c <= b
    BY <1>1, GreatestExists DEF TypeOK, HasAnchor, Instant
  <2>2. (CHOOSE b \in pending : \A c \in pending : c <= b) \in Instant
    BY <2>1 DEF TypeOK
  <2> QED
    BY <1>1, <2>2 DEF Anchor, Instant
<1>2. CASE status # "Blocked"
  BY <1>2 DEF Anchor
<1> QED
  BY <1>1, <1>2

LEMMA StartSound ==
    ASSUME ObserversAreDue, NEW w \in Worker, Start(w)
    PROVE  ObserversAreDue'
<1> DEFINE a == IF HasAnchor THEN Anchor ELSE 0
           h == [pc |-> "activity", now |-> now, level |-> level,
                 anchored |-> HasAnchor, anchor |-> a]
<1>1. a \in Nat
  BY AnchorIsInstant DEF ObserversAreDue
<1>2. HasAnchor \in BOOLEAN
  BY DEF HasAnchor
<1> HIDE DEF a
<1>3. h \in ScanType
  BY <1>1, <1>2 DEF ScanType, ObserversAreDue, TypeOK
<1>4. FreshScan(h)
  BY DEF FreshScan, ObserversAreDue, ScansAreFresh
<1> QED
  BY <1>3, <1>4, ReadSound DEF Start, a

LEMMA ReadActivitySound ==
    ASSUME ObserversAreDue, NEW w \in Worker, ReadActivity(w)
    PROVE  ObserversAreDue'
<1> DEFINE g == scan[w]
           h == [pc |-> "open", now |-> g.now, level |-> g.level, anchored |-> g.anchored,
                 anchor |-> g.anchor, acted |-> LastActivity]
<1>1. g \in ScanType /\ g.pc = "activity" /\ FreshScan(g)
  BY DEF ReadActivity, At, ObserversAreDue, TypeOK, ScansAreFresh
<1>2. LastActivity \in Instant /\ LastActivity <= heard
  BY DEF LastActivity, Later, ObserversAreDue, TypeOK, ScansAreFresh
<1>3. h \in ScanType
  BY <1>1, <1>2, ScanHolds DEF ScanType
<1>4. FreshScan(h)
  BY <1>1, <1>2 DEF FreshScan
<1> QED
  BY <1>3, <1>4, ReadSound DEF ReadActivity

LEMMA ReadOpenSound ==
    ASSUME ObserversAreDue, NEW w \in Worker, ReadOpen(w)
    PROVE  ObserversAreDue'
<1> DEFINE g == scan[w]
           h == [pc |-> "raise", now |-> g.now, level |-> g.level, anchored |-> g.anchored,
                 anchor |-> g.anchor, acted |-> g.acted, open |-> OpenRows]
<1>1. g \in ScanType /\ g.pc = "open" /\ FreshScan(g)
  BY DEF ReadOpen, At, ObserversAreDue, TypeOK, ScansAreFresh
<1>2. OpenRows \in SUBSET Row
  BY DEF OpenRows, ObserversAreDue, TypeOK
<1>3. h \in ScanType
  BY <1>1, <1>2, ScanHolds DEF ScanType
<1>4. FreshScan(h)
  BY <1>1 DEF FreshScan
<1> QED
  BY <1>3, <1>4, ReadSound DEF ReadOpen

\* The level never goes down: what the scan read is still what it overwrites.
LEMMA Climbs ==
    ASSUME ObserversAreDue, NEW w \in Worker, Raise(w)
    PROVE  /\ level' \in 0..MaxLevel
           /\ level' = level \/ level < level'
           /\ audit' = audit \/ (audit' = audit \cup {"escalated"} /\ level < level')
<1> DEFINE g == scan[w]
<1>1. g \in ScanType /\ g.pc = "raise" /\ FreshScan(g) /\ level \in 0..MaxLevel
  BY DEF Raise, At, ObserversAreDue, TypeOK, ScansAreFresh
<1>2. g.level = level /\ g.anchor \in Nat /\ g.now \in Nat
  BY <1>1, ScanHolds DEF FreshScan, Instant
<1>3. EscalationTarget(g.anchor, g.now) \in 0..MaxLevel
  BY <1>2, TargetIsLevel
<1>4. CASE Overdue(g)
  <2>1. level' = EscalationTarget(g.anchor, g.now) /\ audit' = audit \cup {"escalated"}
    BY <1>4 DEF Raise
  <2>2. level < level'
    BY <1>2, <1>4, <2>1 DEF Overdue
  <2> QED
    BY <1>3, <2>1, <2>2
<1>5. CASE ~ Overdue(g)
  BY <1>1, <1>5 DEF Raise
<1> QED
  BY <1>4, <1>5

LEMMA RaiseSound ==
    ASSUME ObserversAreDue, NEW w \in Worker, Raise(w)
    PROVE  ObserversAreDue'
<1> USE DEF ObserversAreDue
<1> DEFINE g == scan[w]
           h == [pc |-> "sync", now |-> g.now, acted |-> g.acted, open |-> g.open]
<1>1. g \in ScanType /\ g.pc = "raise" /\ FreshScan(g)
  BY DEF Raise, At, TypeOK, ScansAreFresh
<1>2. h \in ScanType
  BY <1>1, ScanHolds DEF ScanType
<1>3. scan' \in [Worker -> ScanType] /\ \A v \in Worker : scan'[v] = h
  BY <1>2, Moves DEF Raise
<1>4. OpenRows' = OpenRows /\ OpenRungs' = OpenRungs
  BY DEF Raise, OpenRows, OpenRungs
<1>5. TypeOK'
  BY <1>3, Climbs DEF Raise, TypeOK, case
<1>6. InOrder' /\ CalledInLate'
  BY <1>4 DEF Raise, InOrder, CalledInLate
<1>7. TrailHasCause'
  BY Climbs DEF Raise, TrailHasCause, TypeOK
<1>8. \A v \in Worker : FreshScan(scan[v])'
  BY <1>1, <1>3, <1>4 DEF Raise, FreshScan, case
<1>9. ScansAreFresh'
  BY <1>3, <1>4, <1>8 DEF Raise, ScansAreFresh, case
<1> QED
  BY <1>5, <1>6, <1>7, <1>9

\* What the scan holds as it turns to the observers.
LEMMA Synced ==
    ASSUME ObserversAreDue, NEW w \in Worker, Sync(w)
    PROVE  /\ scan[w] \in ScanType /\ scan[w].pc = "sync"
           /\ scan[w].now \in Instant /\ 0 < scan[w].now
           /\ scan[w].acted \in Instant /\ scan[w].acted <= heard
           /\ scan[w].open = OpenRows
  BY ScanHolds DEF Sync, At, ObserversAreDue, TypeOK, ScansAreFresh, FreshScan

\* The open rungs after an answer, and without one, are the lowest.
LEMMA SyncsRows ==
    ASSUME ObserversAreDue, NEW w \in Worker, Sync(w)
    PROVE  /\ obs' \in SUBSET Row
           /\ Answered(scan[w]) =>
                 OpenRungs' = {} /\ OpenRows' = {} /\ \E o \in obs' : o.resolved # 0
           /\ ~ Answered(scan[w]) => obs' = obs /\ OpenRungs' = OpenRungs /\ OpenRows' = OpenRows
           /\ \A o \in obs' : \E p \in obs : o.rung = p.rung /\ o.opened = p.opened
           /\ \A p \in obs : \E o \in obs' :
                 /\ o.rung = p.rung /\ o.opened = p.opened
                 /\ p.resolved # 0 => o.resolved = p.resolved
<1> USE DEF ObserversAreDue
<1> DEFINE g == scan[w]
<1>1. obs \in SUBSET Row
  BY DEF TypeOK
<1>2. CASE Answered(g)
  <2>1. obs' = Closed(obs, g.now)
    BY <1>2 DEF Sync
  <2>2. OpenRungs' = {} /\ OpenRows' = {}
    BY <1>1, <2>1, Synced, NobodyWatches
  <2>3. obs # {}
    BY <1>2, Synced DEF Answered, OpenRows
  <2> QED
    BY <1>1, <1>2, <2>1, <2>2, <2>3, Synced, ClosedRows
<1>3. CASE ~ Answered(g)
  <2>1. obs' = obs
    BY <1>3 DEF Sync
  <2> QED
    BY <1>1, <1>3, <2>1 DEF OpenRows, OpenRungs
<1> QED
  BY <1>2, <1>3

\* The rungs it goes on to open are missing ones above those, and due.
LEMMA SyncGoes ==
    ASSUME ObserversAreDue, NEW w \in Worker, Sync(w)
    PROVE  \E m \in 0..MaxLevel :
              /\ OpenRungs' = 1..m
              /\ \/ Goto(w, Idle)
                 \/ \E n \in 0..MaxLevel :
                       /\ m < n /\ n <= EscalationTarget(Deadline, scan[w].now)
                       /\ Goto(w, [pc |-> "rungs", now |-> scan[w].now, missing |-> (m + 1)..n])
<1> DEFINE g == scan[w]
           open == IF Answered(g) THEN {} ELSE g.open
           t == SilenceLevel(g.acted, g.now)
<1>1. \E m \in 0..MaxLevel : OpenRungs' = 1..m /\ RungsOf(open) = 1..m
  <2>1. CASE Answered(g)
    <3>1. OpenRungs' = {} /\ RungsOf(open) = {} /\ 1..0 = {}
      BY <2>1, SyncsRows DEF RungsOf
    <3> QED
      BY <3>1
  <2>2. CASE ~ Answered(g)
    <3>1. OpenRungs' = OpenRungs /\ RungsOf(open) = OpenRungs
      BY <2>2, SyncsRows, Synced DEF OpenRungs, RungsOf
    <3> QED
      BY <3>1 DEF ObserversAreDue, ScansAreFresh
  <2> QED
    BY <2>1, <2>2
<1>2. PICK m \in 0..MaxLevel : OpenRungs' = 1..m /\ RungsOf(open) = 1..m
  BY <1>1
<1>3. open \in SUBSET Row
  BY Synced DEF OpenRows, ObserversAreDue, TypeOK
<1>4. t \in 0..MaxLevel /\ t <= EscalationTarget(Deadline, g.now)
  <2>1. g.acted \in Nat /\ g.now \in Nat
    BY Synced DEF Instant
  <2> HIDE DEF g, open
  <2> QED
    BY <2>1, SilenceIsLate
<1>5. PICK height \in {0, Height} :
          LET rungs == MissingRungs(open, t, height) IN
          Goto(w, IF rungs = {} THEN Idle ELSE [pc |-> "rungs", now |-> g.now, missing |-> rungs])
  BY DEF Sync
<1> HIDE DEF open, t
<1>6. CASE MissingRungs(open, t, height) = {}
  BY <1>2, <1>5, <1>6
<1>7. CASE MissingRungs(open, t, height) # {}
  <2> height \in Nat
    OBVIOUS
  <2>1. PICK n \in 0..MaxLevel :
            m < n /\ n <= t /\ MissingRungs(open, t, height) = (m + 1)..n
    BY <1>2, <1>3, <1>4, <1>7, RungsAbove
  <2>2. EscalationTarget(Deadline, g.now) \in Nat
    <3>1. g.now \in Nat
      BY Synced DEF Instant
    <3>2. EscalationTarget(Deadline, g.now) \in 0..MaxLevel
      BY <3>1, TargetIsLevel
    <3> QED
      BY <3>2
  <2>3. n <= EscalationTarget(Deadline, g.now)
    BY <1>4, <2>1, <2>2
  <2>4. Goto(w, [pc |-> "rungs", now |-> g.now, missing |-> (m + 1)..n])
    BY <1>5, <1>7, <2>1
  <2> QED
    BY <1>2, <2>1, <2>3, <2>4
<1> QED
  BY <1>6, <1>7

LEMMA SyncSound ==
    ASSUME ObserversAreDue, NEW w \in Worker, Sync(w)
    PROVE  ObserversAreDue'
<1> USE DEF ObserversAreDue
<1>1. PICK m \in 0..MaxLevel :
          /\ OpenRungs' = 1..m
          /\ \/ Goto(w, Idle)
             \/ \E n \in 0..MaxLevel :
                   /\ m < n /\ n <= EscalationTarget(Deadline, scan[w].now)
                   /\ Goto(w, [pc |-> "rungs", now |-> scan[w].now, missing |-> (m + 1)..n])
  BY SyncGoes
<1>2. \E h \in ScanType :
          /\ Goto(w, h) /\ h.pc \in {"idle", "rungs"}
          /\ h.pc = "rungs" => /\ 0 < h.now
                               /\ \E n \in 0..MaxLevel :
                                     /\ m < n /\ h.missing = (m + 1)..n
                                     /\ n <= EscalationTarget(Deadline, h.now)
  <2>1. CASE Goto(w, Idle)
    BY <2>1 DEF ScanType, Idle
  <2>2. ASSUME NEW n \in 0..MaxLevel, m < n, n <= EscalationTarget(Deadline, scan[w].now),
               Goto(w, [pc |-> "rungs", now |-> scan[w].now, missing |-> (m + 1)..n])
        PROVE  \E h \in ScanType :
          /\ Goto(w, h) /\ h.pc \in {"idle", "rungs"}
          /\ h.pc = "rungs" => /\ 0 < h.now
                               /\ \E k \in 0..MaxLevel :
                                     /\ m < k /\ h.missing = (m + 1)..k
                                     /\ k <= EscalationTarget(Deadline, h.now)
    <3> DEFINE h == [pc |-> "rungs", now |-> scan[w].now, missing |-> (m + 1)..n]
    <3>1. h \in ScanType
      BY Synced DEF ScanType, Rung
    <3> QED
      BY <2>2, <3>1, Synced
  <2> QED
    BY <1>1, <2>1, <2>2
<1>3. PICK h \in ScanType :
          /\ Goto(w, h) /\ h.pc \in {"idle", "rungs"}
          /\ h.pc = "rungs" => /\ 0 < h.now
                               /\ \E n \in 0..MaxLevel :
                                     /\ m < n /\ h.missing = (m + 1)..n
                                     /\ n <= EscalationTarget(Deadline, h.now)
  BY <1>2
<1>4. scan' \in [Worker -> ScanType] /\ \A v \in Worker : scan'[v] = h
  BY <1>3, Moves
<1>5. audit' \in {audit, audit \cup {"observation_resolved"}}
      /\ ("observation_resolved" \in audit' => "observation_resolved" \in audit \/ Answered(scan[w]))
      /\ faults' \in 0..MaxFaults
  BY DEF Sync, TypeOK
<1>6. TypeOK'
  BY <1>4, <1>5, SyncsRows DEF Sync, TypeOK, case
<1>7. InOrder'
  BY <1>1 DEF InOrder
<1>8. CalledInLate'
  BY SyncsRows DEF CalledInLate
<1>9. TrailHasCause'
  <2>1. "observation_opened" \in audit' => obs' # {}
    BY <1>5, SyncsRows DEF TrailHasCause
  <2>2. "observation_resolved" \in audit' => \E o \in obs' : o.resolved # 0
    BY <1>5, SyncsRows DEF TrailHasCause
  <2> QED
    BY <1>5, <2>1, <2>2 DEF Sync, TrailHasCause
<1>10. \A v \in Worker : FreshScan(scan[v])'
  BY <1>1, <1>3, <1>4 DEF FreshScan
<1>11. ScansAreFresh'
  BY <1>1, <1>10 DEF Sync, ScansAreFresh, case
<1> QED
  BY <1>6, <1>7, <1>8, <1>9, <1>11

\* What is left of the scan's copy once a rung is opened.
LEMMA Shorter ==
    ASSUME NEW g, NEW at, NEW s, NEW x, g = [pc |-> "rungs", now |-> at, missing |-> s]
    PROVE  [g EXCEPT !.missing = @ \ x] = [pc |-> "rungs", now |-> at, missing |-> s \ x]
  OBVIOUS

\* The lowest missing rung is never open: the scan opens it, on top of those below.
LEMMA OpensNext ==
    ASSUME ObserversAreDue, NEW w \in Worker, OpenRung(w)
    PROVE  \E m, n \in 0..MaxLevel :
              /\ m < n /\ n <= EscalationTarget(Deadline, scan[w].now)
              /\ 0 < scan[w].now /\ scan[w].now \in Instant
              /\ OpenRungs = 1..m
              /\ obs' = obs \cup {[rung |-> m + 1, opened |-> scan[w].now, resolved |-> 0]}
              /\ audit' = audit \cup {"observation_opened"}
              /\ Goto(w, IF n = m + 1 THEN Idle
                         ELSE [pc |-> "rungs", now |-> scan[w].now, missing |-> (m + 2)..n])
<1> DEFINE g == scan[w]
<1>1. g \in ScanType /\ g.pc = "rungs" /\ FreshScan(g)
  BY DEF OpenRung, At, ObserversAreDue, TypeOK, ScansAreFresh
<1>2. /\ g.now \in Instant
      /\ g = [pc |-> "rungs", now |-> g.now, missing |-> g.missing]
  BY <1>1, ScanHolds
<1>3. PICK m, n \in 0..MaxLevel :
          /\ m < n /\ OpenRungs = 1..m /\ g.missing = (m + 1)..n
          /\ n <= EscalationTarget(Deadline, g.now)
  BY <1>1 DEF FreshScan
<1>4. /\ NextRung(g.missing) = m + 1
      /\ g.missing \ {m + 1} = (m + 2)..n
      /\ g.missing = {m + 1} <=> n = m + 1
  BY <1>3, NextIsLowest
<1>5. m + 1 \notin OpenRungs
  BY <1>3
<1>6. /\ obs' = obs \cup {[rung |-> m + 1, opened |-> g.now, resolved |-> 0]}
      /\ audit' = audit \cup {"observation_opened"}
  BY <1>4, <1>5 DEF OpenRung
<1>7. Goto(w, IF g.missing = {m + 1} THEN Idle ELSE [g EXCEPT !.missing = @ \ {m + 1}])
  BY <1>4 DEF OpenRung
<1>8. [g EXCEPT !.missing = @ \ {m + 1}] = [pc |-> "rungs", now |-> g.now, missing |-> (m + 2)..n]
  <2>1. [g EXCEPT !.missing = @ \ {m + 1}]
            = [pc |-> "rungs", now |-> g.now, missing |-> g.missing \ {m + 1}]
    BY <1>2, Shorter
  <2> QED
    BY <1>4, <2>1
<1>9. Goto(w, IF n = m + 1 THEN Idle
              ELSE [pc |-> "rungs", now |-> g.now, missing |-> (m + 2)..n])
  BY <1>4, <1>7, <1>8
<1>10. 0 < g.now
  BY <1>1 DEF FreshScan
<1> QED
  BY <1>2, <1>3, <1>6, <1>9, <1>10

\* A row more is a rung more.
LEMMA OneMore ==
    ASSUME NEW m \in Nat, NEW at, OpenRungs = 1..m,
           obs' = obs \cup {[rung |-> m + 1, opened |-> at, resolved |-> 0]}
    PROVE  OpenRungs' = 1..(m + 1)
<1> DEFINE o == [rung |-> m + 1, opened |-> at, resolved |-> 0]
<1>1. OpenRows' = OpenRows \cup {o}
  BY DEF OpenRows
<1>2. OpenRungs' = OpenRungs \cup {m + 1}
  <2>1. o.rung = m + 1
    OBVIOUS
  <2> HIDE DEF o
  <2>2. {p.rung : p \in OpenRows \cup {o}} = {p.rung : p \in OpenRows} \cup {o.rung}
    OBVIOUS
  <2> QED
    BY <1>1, <2>1, <2>2 DEF OpenRungs
<1> QED
  BY <1>2

LEMMA OpenRungSound ==
    ASSUME ObserversAreDue, NEW w \in Worker, OpenRung(w)
    PROVE  ObserversAreDue'
<1> USE DEF ObserversAreDue
<1>1. PICK m, n \in 0..MaxLevel :
              /\ m < n /\ n <= EscalationTarget(Deadline, scan[w].now)
              /\ 0 < scan[w].now /\ scan[w].now \in Instant
              /\ OpenRungs = 1..m
              /\ obs' = obs \cup {[rung |-> m + 1, opened |-> scan[w].now, resolved |-> 0]}
              /\ audit' = audit \cup {"observation_opened"}
              /\ Goto(w, IF n = m + 1 THEN Idle
                         ELSE [pc |-> "rungs", now |-> scan[w].now, missing |-> (m + 2)..n])
  BY OpensNext
<1>2. PICK at \in Instant : at = scan[w].now
  BY <1>1
<1> DEFINE h == IF n = m + 1 THEN Idle ELSE [pc |-> "rungs", now |-> at, missing |-> (m + 2)..n]
           o == [rung |-> m + 1, opened |-> at, resolved |-> 0]
<1>3. h \in ScanType
  BY <1>1 DEF ScanType, Idle, Rung
<1>4. scan' \in [Worker -> ScanType] /\ \A v \in Worker : scan'[v] = h
  BY <1>1, <1>2, <1>3, Moves
<1>5. o \in Row /\ obs' = obs \cup {o} /\ m + 1 \in 0..MaxLevel
  BY <1>1, <1>2 DEF Row, Rung, Instant
<1>6. OpenRungs' = 1..(m + 1)
  <2>1. m \in Nat /\ OpenRungs = 1..m
    BY <1>1
  <2>2. obs' = obs \cup {[rung |-> m + 1, opened |-> at, resolved |-> 0]}
    BY <1>5
  <2> QED
    BY <2>1, <2>2, OneMore
<1>7. TypeOK'
  BY <1>1, <1>4, <1>5 DEF OpenRung, TypeOK, case
<1>8. InOrder'
  BY <1>6 DEF InOrder
<1>9. Deadline < at /\ m + 1 <= EscalationTarget(Deadline, at)
  <2>1. /\ EscalationTarget(Deadline, at) \in 0..MaxLevel
        /\ EscalationTarget(Deadline, at) > 0 => Deadline < at
    BY TargetIsLevel DEF Instant
  <2> QED
    BY <1>1, <1>2, <2>1
<1>10. CalledInLate'
  BY <1>5, <1>9 DEF CalledInLate
<1>11. TrailHasCause'
  BY <1>1, <1>5 DEF OpenRung, TrailHasCause
<1>12. \A v \in Worker : FreshScan(scan[v])'
  <2>1. CASE n = m + 1
    BY <1>4, <2>1 DEF FreshScan, Idle
  <2>2. CASE n # m + 1
    <3>1. /\ m + 1 \in 0..MaxLevel /\ m + 1 < n
          /\ h = [pc |-> "rungs", now |-> at, missing |-> ((m + 1) + 1)..n]
      BY <1>1, <2>2
    <3>2. n <= EscalationTarget(Deadline, at) /\ 0 < at
      BY <1>1, <1>2
    <3> HIDE DEF h
    <3> QED
      BY <1>4, <1>6, <3>1, <3>2 DEF FreshScan
  <2> QED
    BY <2>1, <2>2
<1>13. ScansAreFresh'
  BY <1>5, <1>6, <1>12 DEF OpenRung, ScansAreFresh, case
<1> QED
  BY <1>7, <1>8, <1>10, <1>11, <1>13

LEMMA CrashSound ==
    ASSUME ObserversAreDue, NEW w \in Worker, Crash(w)
    PROVE  ObserversAreDue'
<1> USE DEF ObserversAreDue
<1>1. Idle \in ScanType
  BY DEF ScanType
<1>2. scan' \in [Worker -> ScanType] /\ \A v \in Worker : scan'[v] = Idle
  BY <1>1, Moves DEF Crash
<1>3. OpenRows' = OpenRows /\ OpenRungs' = OpenRungs
  BY DEF Crash, OpenRows, OpenRungs
<1>4. TypeOK'
  BY <1>2 DEF Crash, TypeOK, case
<1>5. InOrder' /\ CalledInLate' /\ TrailHasCause'
  BY <1>3 DEF Crash, InOrder, CalledInLate, TrailHasCause
<1>6. \A v \in Worker : FreshScan(scan[v])'
  BY <1>2 DEF FreshScan, Idle
<1>7. ScansAreFresh'
  BY <1>3, <1>6 DEF Crash, ScansAreFresh, case
<1> QED
  BY <1>4, <1>5, <1>7

-----------------------------------------------------------------------------
(* The invariant, through what the others do. *)

\* Whoever leaves the observers' rows, the level and the scan alone, and takes back no
\* answer and no note.
LEMMA BystanderSound ==
    ASSUME ObserversAreDue, TypeOK', UNCHANGED <<level, obs, scan>>,
           now <= now', heard <= heard', acted' <= heard', planned' <= heard',
           notes \subseteq notes', note'.pc = "tell" => notes' # {},
           audit' = audit \/ (audit' = audit \cup {"observation_noted"} /\ notes' # {})
    PROVE  ObserversAreDue'
<1> USE DEF ObserversAreDue
<1>1. OpenRows' = OpenRows /\ OpenRungs' = OpenRungs
  BY DEF OpenRows, OpenRungs
<1>2. InOrder' /\ CalledInLate'
  BY <1>1 DEF InOrder, CalledInLate
<1>3. TrailHasCause'
  BY DEF TrailHasCause
<1>4. ASSUME NEW v \in Worker
      PROVE  FreshScan(scan[v])'
  <2>1. scan[v] \in ScanType /\ FreshScan(scan[v]) /\ scan'[v] = scan[v]
    BY DEF TypeOK, ScansAreFresh
  <2>2. scan[v].pc \in {"open", "raise", "sync"} => scan[v].acted <= heard'
    <3>1. scan[v].pc \in {"open", "raise", "sync"} =>
              scan[v].acted \in Nat /\ scan[v].acted <= heard
      BY <2>1, ScanHolds DEF FreshScan, Instant
    <3> QED
      BY <3>1 DEF TypeOK, Instant
  <2> QED
    BY <1>1, <2>1, <2>2 DEF FreshScan
<1>5. 0 < now'
  BY DEF ScansAreFresh, TypeOK, Instant
<1>6. ScansAreFresh'
  BY <1>1, <1>4, <1>5 DEF ScansAreFresh
<1> QED
  BY <1>2, <1>3, <1>6

\* Whatever the official stamps is a request of its form, at a fresh instant.
LEMMA StampSound ==
    ASSUME ObserversAreDue, NEW first \in {"row", "drop"}, NEW to \in Status,
           NEW leaves \in Answers \cup {"nothing"}, Stamp(first, to, leaves)
    PROVE  ObserversAreDue'
<1>1. now + 1 \in Instant
  BY DEF Stamp, ObserversAreDue, TypeOK, Instant
<1>2. act' \in Request
  BY <1>1 DEF Stamp, Request
<1>3. TypeOK'
  BY <1>1, <1>2 DEF Stamp, ObserversAreDue, TypeOK, case
<1>4. /\ now <= now' /\ heard <= heard' /\ acted' <= heard' /\ planned' <= heard'
      /\ note'.pc = "tell" => notes' # {}
  BY DEF Stamp, ObserversAreDue, TypeOK, ScansAreFresh, Instant, case
<1> QED
  BY <1>3, <1>4, BystanderSound DEF Stamp

LEMMA OfficialSound ==
    ASSUME ObserversAreDue, Official
    PROVE  ObserversAreDue'
<1> USE DEF ObserversAreDue
<1>1. CASE Work
  <2>1. PICK to \in {"Waiting", status} : Stamp("row", to, "act")
    BY <1>1 DEF Work
  <2>2. to \in Status /\ "act" \in Answers
    BY DEF Status, Answers, TypeOK
  <2> QED
    BY <2>1, <2>2, StampSound
<1>2. CASE PlanWork \/ Replan \/ Declare \/ MarkDone \/ Dispute
  BY <1>2, StampSound DEF PlanWork, Replan, Declare, MarkDone, Dispute, Answers, Status
<1>3. CASE DropPlan
  <2>1. act \in Request /\ act' \in Request
    BY <1>3 DEF DropPlan, TypeOK, Request, Idle
  <2>2. TypeOK'
    BY <1>3, <2>1 DEF DropPlan, TypeOK, Instant
  <2>3. /\ now <= now' /\ heard <= heard' /\ acted' <= heard' /\ planned' <= heard'
        /\ note'.pc = "tell" => notes' # {}
    BY <1>3 DEF DropPlan, TypeOK, ScansAreFresh, Instant
  <2> QED
    BY <1>3, <2>2, <2>3, BystanderSound DEF DropPlan
<1>4. CASE SaveRow
  <2>1. act \in Request /\ act' \in {Idle} \cup Request
    BY <1>4 DEF SaveRow, TypeOK, Request, Idle
  <2>2. act.to \in Status
    BY <2>1 DEF Request
  <2>3. TypeOK'
    BY <1>4, <2>1, <2>2 DEF SaveRow, TypeOK
  <2>4. /\ now <= now' /\ heard <= heard' /\ acted' <= heard' /\ planned' <= heard'
        /\ note'.pc = "tell" => notes' # {}
    BY <1>4 DEF SaveRow, TypeOK, ScansAreFresh, Instant
  <2> QED
    BY <1>4, <2>3, <2>4, BystanderSound DEF SaveRow
<1>5. CASE SaveChild
  <2>1. act \in Request
    BY <1>5 DEF SaveChild, TypeOK, Idle
  <2>2. act.at \in Instant
    BY <2>1 DEF Request
  <2>3. TypeOK'
    BY <1>5, <2>2 DEF SaveChild, TypeOK, Later
  <2>4. /\ now <= now' /\ heard <= heard' /\ acted' <= heard' /\ planned' <= heard'
        /\ note'.pc = "tell" => notes' # {}
    BY <1>5, <2>2 DEF SaveChild, TypeOK, ScansAreFresh, Instant, Later
  <2> QED
    BY <1>5, <2>3, <2>4, BystanderSound DEF SaveChild
<1>6. CASE Abandon
  <2>1. TypeOK'
    BY <1>6 DEF Abandon, TypeOK, case
  <2>2. /\ now <= now' /\ heard <= heard' /\ acted' <= heard' /\ planned' <= heard'
        /\ note'.pc = "tell" => notes' # {}
    BY <1>6 DEF Abandon, TypeOK, ScansAreFresh, Instant, case
  <2> QED
    BY <1>6, <2>1, <2>2, BystanderSound DEF Abandon
<1> QED
  BY <1>1, <1>2, <1>3, <1>4, <1>5, <1>6 DEF Official

LEMMA OthersSound ==
    ASSUME ObserversAreDue, Deny \/ Confirm \/ Tick
    PROVE  ObserversAreDue'
<1> USE DEF ObserversAreDue
<1>1. TypeOK'
  <2>1. CASE Deny
    BY <2>1 DEF Deny, TypeOK, Status
  <2>2. CASE Confirm
    BY <2>2 DEF Confirm, TypeOK, Status
  <2>3. CASE Tick
    BY <2>3 DEF Tick, TypeOK, Instant, case
  <2> QED
    BY <2>1, <2>2, <2>3
<1>2. /\ now <= now' /\ heard <= heard' /\ acted' <= heard' /\ planned' <= heard'
      /\ note'.pc = "tell" => notes' # {}
  BY DEF Deny, Confirm, Tick, TypeOK, ScansAreFresh, Instant, case
<1>3. UNCHANGED <<level, obs, scan, notes, audit>>
  BY DEF Deny, Confirm, Tick, case
<1> QED
  BY <1>1, <1>2, <1>3, BystanderSound

LEMMA ObserverSound ==
    ASSUME ObserversAreDue, Observer
    PROVE  ObserversAreDue'
<1> USE DEF ObserversAreDue
<1> DEFINE Noting == [pc : {"write", "tell"}, rung : Rung, opened : Instant]
<1>1. /\ now' = now /\ heard' = heard /\ acted' = acted /\ planned' = planned
      /\ status' = status /\ pending' = pending /\ act' = act /\ faults' = faults
      /\ UNCHANGED <<level, obs, scan>>
  BY DEF Observer, LoadNote, AddNote, TellNote, DropNote, case
<1>6. now <= now' /\ heard <= heard' /\ acted' <= heard' /\ planned' <= heard'
  BY <1>1 DEF TypeOK, ScansAreFresh, Instant
<1>2. CASE LoadNote
  <2>1. note' \in Noting /\ note'.pc = "write" /\ notes' = notes /\ audit' = audit
    BY <1>2 DEF LoadNote, TypeOK, Row
  <2>2. TypeOK'
    BY <1>1, <2>1 DEF TypeOK
  <2>3. note'.pc # "tell"
    BY <2>1
  <2> HIDE DEF Noting
  <2> QED
    BY <1>1, <1>6, <2>1, <2>2, <2>3, BystanderSound
<1>3. CASE AddNote
  <2>1. note \in Noting
    BY <1>3 DEF AddNote, TypeOK, Idle
  <2>2. /\ note' \in Noting /\ audit' = audit
        /\ notes' = notes \cup {[rung |-> note.rung, opened |-> note.opened]}
    BY <1>3, <2>1 DEF AddNote
  <2>3. TypeOK'
    BY <1>1, <2>1, <2>2 DEF TypeOK
  <2>4. notes \subseteq notes' /\ notes' # {}
    BY <2>2
  <2>5. audit' = audit \/ audit' = audit \cup {"observation_noted"}
    BY <2>2
  <2> HIDE DEF Noting
  <2> QED
    BY <1>1, <1>6, <2>2, <2>3, <2>4, <2>5, BystanderSound
<1>4. CASE TellNote
  <2>1. note' = Idle /\ notes' = notes /\ notes # {} /\ audit' = audit \cup {"observation_noted"}
    BY <1>4 DEF TellNote, ScansAreFresh
  <2>2. TypeOK'
    BY <1>1, <2>1 DEF TypeOK
  <2>3. note'.pc # "tell"
    BY <2>1 DEF Idle
  <2> QED
    BY <1>1, <1>6, <2>1, <2>2, <2>3, BystanderSound
<1>5. CASE DropNote
  <2>1. note' = Idle /\ notes' = notes /\ audit' = audit
    BY <1>5 DEF DropNote
  <2>2. TypeOK'
    BY <1>1, <2>1 DEF TypeOK
  <2>3. note'.pc # "tell"
    BY <2>1 DEF Idle
  <2> QED
    BY <1>1, <1>6, <2>1, <2>2, <2>3, BystanderSound
<1> QED
  BY <1>2, <1>3, <1>4, <1>5 DEF Observer

LEMMA StepSound == ObserversAreDue /\ [Next]_vars => ObserversAreDue'
<1> SUFFICES ASSUME ObserversAreDue, [Next]_vars PROVE ObserversAreDue'
  OBVIOUS
<1>1. CASE UNCHANGED vars
  BY <1>1 DEF vars, case, ObserversAreDue, TypeOK, InOrder, CalledInLate, TrailHasCause,
              ScansAreFresh, FreshScan, OpenRows, OpenRungs
<1>2. ASSUME NEW w \in Worker, Scan(w) \/ Crash(w)
      PROVE  ObserversAreDue'
  BY <1>2, StartSound, ReadActivitySound, ReadOpenSound, RaiseSound, SyncSound, OpenRungSound,
     CrashSound DEF Scan
<1>3. CASE Next
  BY <1>2, <1>3, OfficialSound, OthersSound, ObserverSound DEF Next
<1> QED
  BY <1>1, <1>3

\* Whatever the official, the admin, the reporter and an observer do between the queries
\* of a scan, and wherever scans fail: rungs are open from the lowest up, nobody was called
\* in before the deadline or above the lateness, and the trail tells no more than the rows
\* (escalation.go:65, escalate_overdue.go:177).
THEOREM Invariance == Spec => []ObserversAreDue
<1> QED
  BY InitSound, StepSound, PTL DEF Spec

-----------------------------------------------------------------------------
(* What a step may do to the rows. *)

\* Only the scan writes them.
LEMMA RowsMove ==
    ASSUME ObserversAreDue, [Next]_vars, obs' # obs
    PROVE  \E w \in Worker : Sync(w) \/ OpenRung(w)
<1>1. Next
  BY DEF vars
<1>2. ~ (Official \/ Deny \/ Confirm \/ Observer \/ Tick)
  BY DEF Official, Work, PlanWork, Replan, Declare, MarkDone, Dispute, Stamp, DropPlan, SaveRow,
         SaveChild, Abandon, Deny, Confirm, Observer, LoadNote, AddNote, TellNote, DropNote, Tick
<1>3. \A w \in Worker : ~ (Start(w) \/ ReadActivity(w) \/ ReadOpen(w) \/ Raise(w) \/ Crash(w))
  BY DEF Start, ReadActivity, ReadOpen, Raise, Crash
<1> QED
  BY <1>1, <1>2, <1>3 DEF Next, Scan

\* observation_repo.go:180: no statement deletes a row, reopens one or moves the moment a
\* silence ended.
THEOREM RecordStands == Spec => SilenceStaysOnRecord
<1>1. ASSUME ObserversAreDue, [Next]_vars
      PROVE  [\A o \in obs : \E p \in obs' :
                 /\ p.rung = o.rung /\ p.opened = o.opened
                 /\ o.resolved # 0 => p.resolved = o.resolved]_obs
  <2>1. SUFFICES ASSUME obs' # obs
                 PROVE  \A o \in obs : \E p \in obs' :
                           /\ p.rung = o.rung /\ p.opened = o.opened
                           /\ o.resolved # 0 => p.resolved = o.resolved
    OBVIOUS
  <2>2. ASSUME NEW w \in Worker, Sync(w)
        PROVE  \A o \in obs : \E p \in obs' :
                  /\ p.rung = o.rung /\ p.opened = o.opened
                  /\ o.resolved # 0 => p.resolved = o.resolved
    BY <1>1, <2>2, SyncsRows
  <2>3. ASSUME NEW w \in Worker, OpenRung(w)
        PROVE  obs \subseteq obs'
    BY <2>3 DEF OpenRung
  <2> QED
    BY <1>1, <2>1, <2>2, <2>3, RowsMove
<1> QED
  BY <1>1, Invariance, PTL DEF Spec, SilenceStaysOnRecord

\* observation.go: the observers are released by an answer stored after one of them was
\* called in, however old the activity the scan had read.
THEOREM OnlyAnswersRelease == Spec => ReleasedByAnAnswer
<1>1. ASSUME ObserversAreDue, [Next]_vars
      PROVE  [(\E o \in OpenRows : \A p \in OpenRows' : p.rung # o.rung)
                 => \E o \in OpenRows : o.opened < heard]_obs
  <2>1. SUFFICES ASSUME obs' # obs, NEW q \in OpenRows, \A p \in OpenRows' : p.rung # q.rung
                 PROVE  \E o \in OpenRows : o.opened < heard
    OBVIOUS
  <2>2. ASSUME NEW w \in Worker, Sync(w)
        PROVE  \E o \in OpenRows : o.opened < heard
    <3>1. Answered(scan[w])
      BY <1>1, <2>1, <2>2, SyncsRows
    <3>2. PICK o \in OpenRows : o.opened < scan[w].acted
      BY <1>1, <2>2, <3>1, Synced DEF Answered
    <3>3. o \in Row /\ scan[w].acted \in Nat /\ scan[w].acted <= heard /\ heard \in Nat
      BY <1>1, <2>2, Synced DEF OpenRows, ObserversAreDue, TypeOK, Instant
    <3>4. o.opened \in Nat
      BY <3>3 DEF Row, Instant
    <3> QED
      BY <3>2, <3>3, <3>4
  <2>3. ASSUME NEW w \in Worker, OpenRung(w)
        PROVE  FALSE
    <3>1. OpenRows \subseteq OpenRows'
      BY <2>3 DEF OpenRung, OpenRows
    <3> QED
      BY <2>1, <3>1
  <2> QED
    BY <1>1, <2>1, <2>2, <2>3, RowsMove
<1> QED
  BY <1>1, Invariance, PTL DEF Spec, ReleasedByAnAnswer

-----------------------------------------------------------------------------
(* The refinement. *)

LEMMA WatchInit == Init => Promise!Init
  BY DEF Init, Promise!Init, OpenRungs, OpenRows

LEMMA WatchStep ==
    ASSUME ObserversAreDue, [Next]_vars
    PROVE  Promise!Next \/ UNCHANGED <<level, OpenRungs>>
<1>1. ASSUME NEW w \in Worker, Raise(w)
      PROVE  Promise!Next \/ UNCHANGED <<level, OpenRungs>>
  <2>1. OpenRungs' = OpenRungs
    BY <1>1 DEF Raise, OpenRungs, OpenRows
  <2>2. level \in 0..MaxLevel /\ level' \in 0..MaxLevel /\ (level' = level \/ level < level')
    BY <1>1, Climbs DEF ObserversAreDue, TypeOK
  <2>3. CASE level < level'
    <3>1. level' \in 1..MaxLevel
      BY <2>2, <2>3
    <3> QED
      BY <2>1, <2>3, <3>1 DEF Promise!Next, Promise!Climb, Promise!Rung
  <2> QED
    BY <2>1, <2>2, <2>3
<1>2. ASSUME NEW w \in Worker, Sync(w)
      PROVE  Promise!Next \/ UNCHANGED <<level, OpenRungs>>
  <2>1. level' = level /\ (OpenRungs' = {} \/ OpenRungs' = OpenRungs)
    BY <1>2, SyncsRows DEF Sync
  <2> QED
    BY <2>1 DEF Promise!Next, Promise!Release
<1>3. ASSUME NEW w \in Worker, OpenRung(w)
      PROVE  Promise!Next \/ UNCHANGED <<level, OpenRungs>>
  <2>1. PICK m, n \in 0..MaxLevel :
            /\ m < n /\ OpenRungs = 1..m
            /\ obs' = obs \cup {[rung |-> m + 1, opened |-> scan[w].now, resolved |-> 0]}
    BY <1>3, OpensNext
  <2>2. m \in Nat /\ OpenRungs' = 1..(m + 1)
    <3>1. m \in Nat
      OBVIOUS
    <3> QED
      BY <2>1, <3>1, OneMore
  <2>3. level' = level
    BY <1>3 DEF OpenRung
  <2>4. m + 1 \in 1..MaxLevel /\ (m + 1) - 1 = m
    BY <2>1
  <2> QED
    BY <2>1, <2>2, <2>3, <2>4 DEF Promise!Next, Promise!CallIn, Promise!Rung
<1>4. CASE obs' # obs
  BY <1>2, <1>3, <1>4, RowsMove
<1>5. CASE obs' = obs
  <2>1. OpenRungs' = OpenRungs
    BY <1>5 DEF OpenRungs, OpenRows
  <2>2. level' = level \/ \E w \in Worker : Raise(w)
    BY DEF vars, Next, Scan, Crash, Start, ReadActivity, ReadOpen, Sync, OpenRung, Official, Work,
           PlanWork, Replan, Declare, MarkDone, Dispute, Stamp, DropPlan, SaveRow, SaveChild,
           Abandon, Deny, Confirm, Observer, LoadNote, AddNote, TellNote, DropNote, Tick
  <2> QED
    BY <1>1, <2>1, <2>2
<1> QED
  BY <1>4, <1>5

\* The scan's queries, with everything that happens between them and every scan that
\* fails midway, implement what the observers were promised: visibility only climbs, and
\* they are called in one after the other from the lowest and released together.
THEOREM ImplementsWatch == Spec => WatchIsKept
<1>1. ObserversAreDue /\ [Next]_vars => [Promise!Next]_<<level, OpenRungs>>
  BY WatchStep
<1> QED
  BY <1>1, WatchInit, Invariance, PTL DEF Spec, WatchIsKept, Promise!Spec
=============================================================================
