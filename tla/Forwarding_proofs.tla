---------------------------- MODULE Forwarding_proofs ----------------------------
(***************************************************************************)
(* Proofs about Forwarding, for any directory, any areas, and any number of     *)
(* admins and requests: a departure is explained, the advice is weighed as it    *)
(* was given whatever the order of the tally, a report is handed over once, and   *)
(* the lists offer what the actions behind them accept.                         *)
(***************************************************************************)
EXTENDS Forwarding, TLAPS, FiniteSetTheorems, Maximum

-----------------------------------------------------------------------------
(* The monitor. *)

\* The rung above is an office of the directory, or vacant.
LEMMA RungIsAnOffice ==
    ASSUME NEW o \in Official
    PROVE  RungAbove(Directory, o) \in Official \cup {None}
<1>1. \A S \in SUBSET Official : First(S) \in Official \cup {None}
  BY DEF First
<1>2. \A tier, areas : Seated(Directory, tier, areas) \in SUBSET Official
  BY DEF Seated, Official
<1>3. Level[Directory[o].area] \in {"seat", "upazila", "union", "ward"}
  BY ForwardingAssumption, LadderAssumption
<1> QED
  BY <1>1, <1>2, <1>3 DEF RungAbove

\* A chain of one rung is the rung above, or nothing.
LEMMA MonitorIsAnOffice ==
    ASSUME NEW o \in Official
    PROVE  MonitorFor(Directory, o) \in Official \cup {None}
<1> DEFINE next == RungAbove(Directory, o)
           Rung(c, k) ==
                LET from == IF c = << >> THEN o ELSE c[Len(c)]
                    up == RungAbove(Directory, from) IN
                IF Len(c) < k - 1 \/ EndOfChain(o, c, up) THEN c ELSE Append(c, up)
           IsChain(f) == f = [k \in 0..1 |-> IF k = 0 THEN << >> ELSE Rung(f[k - 1], k)]
           chain == CHOOSE f : IsChain(f)
<1>1. \E f : IsChain(f)
  <2> DEFINE f == [k \in 0..1 |-> IF k = 0 THEN << >> ELSE Rung(<< >>, 1)]
  <2>1. f[0] = << >>
    OBVIOUS
  <2>2. \A k \in 0..1 : k # 0 => k = 1 /\ f[k - 1] = << >>
    BY <2>1
  <2> HIDE DEF Rung
  <2>3. IsChain(f)
    BY <2>1, <2>2
  <2> QED
    BY <2>3
<1>2. IsChain(chain)
  BY <1>1
<1>3. chain[0] = << >> /\ chain[1] = Rung(chain[0], 1)
  <2> HIDE DEF chain, Rung
  <2> QED
    BY <1>2
<1>4. chain[1] = << >> \/ chain[1] = << next >>
  <2>1. Rung(<< >>, 1) = << >> \/ Rung(<< >>, 1) = Append(<< >>, next)
    OBVIOUS
  <2> HIDE DEF chain, Rung, next
  <2> QED
    BY <1>3, <2>1
<1>5. MonitorChain(Directory, o, 1) = chain[1]
  BY DEF MonitorChain
<1> HIDE DEF chain, next
<1>6. MonitorFor(Directory, o) \in {None, next}
  BY <1>4, <1>5 DEF MonitorFor
<1> QED
  BY <1>6, RungIsAnOffice DEF next
-----------------------------------------------------------------------------
(* The tally. *)

\* The officials advice was given for.
Named(given) == {given[v] : v \in Admin} \ {None}

\* Whoever is named has a vote, and in any order each is visited once.
LEMMA NamedAreCounted ==
    ASSUME NEW given \in Given
    PROVE  /\ IsFiniteSet(Named(given)) /\ Named(given) \subseteq Official
           /\ \A o \in Named(given) : Votes(given, o) \in Nat \ {0}
<1>1. IsFiniteSet({given[v] : v \in Admin})
  <2> DEFINE T == {given[v] : v \in Admin}
  <2>1. given \in Surjection(Admin, T)
    BY DEF Given, Surjection
  <2> QED
    BY <2>1, ForwardingAssumption, FS_Surjection
<1>2. IsFiniteSet(Named(given))
  BY <1>1, FS_Subset DEF Named
<1>3. ASSUME NEW o \in Named(given)
      PROVE  Votes(given, o) \in Nat \ {0}
  <2> DEFINE S == {v \in Admin : given[v] = o}
  <2>1. IsFiniteSet(S)
    BY ForwardingAssumption, FS_Subset
  <2>2. S # {}
    BY <1>3 DEF Named
  <2>3. Cardinality(S) \in Nat /\ Cardinality(S) # 0
    BY <2>1, <2>2, FS_CardinalityType, FS_EmptySet
  <2> QED
    BY <2>3 DEF Votes
<1> QED
  BY <1>2, <1>3 DEF Named, Given

LEMMA OrderVisitsEachOnce ==
    ASSUME NEW S, IsFiniteSet(S), NEW order \in SetToSeqs(S)
    PROVE  /\ order \in Seq(S) /\ Len(order) = Cardinality(S) /\ Cardinality(S) \in Nat
           /\ \A i, j \in 1..Len(order) : order[i] = order[j] => i = j
           /\ \A o \in S : \E i \in 1..Len(order) : order[i] = o
<1> DEFINE n == Cardinality(S)
<1>1. n \in Nat
  BY FS_CardinalityType
<1>2. order \in [1..n -> S] /\ \A i, j \in 1..n : i # j => order[i] # order[j]
  BY DEF SetToSeqs
<1>3. order \in Seq(S) /\ Len(order) = n
  BY <1>1, <1>2
<1>4. order \in Injection(1..n, S)
  BY <1>2 DEF Injection, IsInjective
<1>5. IsFiniteSet(1..n) /\ Cardinality(1..n) = n
  BY <1>1, FS_Interval
<1>6. order \in Surjection(1..n, S)
  BY <1>4, <1>5, FS_Injection
<1> QED
  BY <1>1, <1>2, <1>3, <1>6 DEF Surjection

\* A loop over 1..n from t0 computes something: what a definition by recursion needs.
Loops(f, n, t0, g) == f[0] = t0 /\ \A k \in 1..n : f[k] = g[k][f[k - 1]]

LEMMA LoopExists ==
    ASSUME NEW T, NEW n \in Nat, NEW t0 \in T, NEW g \in [1..n -> [T -> T]]
    PROVE  \E f \in [0..n -> T] : Loops(f, n, t0, g)
<1> DEFINE Runs(f, m) == f[0] = t0 /\ \A k \in 1..m : f[k] = g[k][f[k - 1]]
           Done == {m \in 0..n : \E f \in [0..m -> T] : Runs(f, m)}
<1>1. 0 \in Done
  <2> DEFINE f == [k \in 0..0 |-> t0]
  <2>1. f \in [0..0 -> T] /\ Runs(f, 0)
    OBVIOUS
  <2> HIDE DEF f, Runs
  <2>2. 0 \in 0..n
    OBVIOUS
  <2> QED
    BY <2>1, <2>2
<1>2. PICK b \in Done : \A c \in Done : c <= b
  <2>1. Done \in SUBSET (0..n) /\ Done # {}
    BY <1>1
  <2> HIDE DEF Done
  <2> QED
    BY <2>1, GreatestExists
<1>3. b = n
  <2> SUFFICES ASSUME b < n PROVE FALSE
    OBVIOUS
  <2>1. PICK f \in [0..b -> T] : Runs(f, b)
    OBVIOUS
  <2> DEFINE h == [k \in 0..(b + 1) |-> IF k = b + 1 THEN g[k][f[b]] ELSE f[k]]
  <2>2. b \in 0..n /\ b + 1 \in 1..n /\ f[b] \in T
    OBVIOUS
  <2>3. g[b + 1][f[b]] \in T
    BY <2>2
  <2>4. h \in [0..(b + 1) -> T]
    BY <2>2, <2>3
  <2>5. h[0] = t0
    BY <2>1, <2>2
  <2>6. ASSUME NEW k \in 1..(b + 1)
        PROVE  h[k] = g[k][h[k - 1]]
    <3>1. CASE k = b + 1
      BY <2>2, <3>1
    <3>2. CASE k \in 1..b
      BY <2>1, <2>2, <3>2
    <3> QED
      BY <2>2, <3>1, <3>2
  <2> HIDE DEF h
  <2>7. b + 1 \in Done
    BY <2>2, <2>4, <2>5, <2>6
  <2> QED
    BY <1>2, <2>2, <2>7
<1>4. PICK f \in [0..b -> T] : Runs(f, b)
  OBVIOUS
<1>5. f \in [0..n -> T] /\ Loops(f, n, t0, g)
  BY <1>3, <1>4 DEF Loops
<1> QED
  BY <1>5

\* One visit of the loop, and its runs over an order.
Visit(given, t, o) ==
    LET n == Votes(given, o) IN
    [best |-> IF n > t.count THEN o ELSE t.best,
     count |-> IF n > t.count THEN n ELSE t.count, tied |-> Tied(t, n)]
Begin == [best |-> None, count |-> 0, tied |-> FALSE]
Tallies(f, given, order) ==
    f = [k \in 0..Len(order) |-> IF k = 0 THEN Begin ELSE Visit(given, f[k - 1], order[k])]

LEMMA TallyRuns ==
    ASSUME NEW given \in Given, NEW order \in SetToSeqs(Named(given))
    PROVE  \E f : Tallies(f, given, order)
<1> DEFINE n == Len(order)
           T == [best : Official \cup {None}, count : Nat, tied : BOOLEAN]
           g == [k \in 1..n |-> [t \in T |-> Visit(given, t, order[k])]]
<1>1. n \in Nat /\ \A k \in 1..n : order[k] \in Official /\ Votes(given, order[k]) \in Nat
  BY NamedAreCounted, OrderVisitsEachOnce
<1>2. Begin \in T
  BY DEF Begin
<1>3. g \in [1..n -> [T -> T]]
  <2> HIDE DEF n
  <2>1. ASSUME NEW k \in 1..n, NEW t \in T
        PROVE  Visit(given, t, order[k]) \in T
    BY <1>1 DEF Visit, Tied
  <2> QED
    BY <2>1
<1>4. PICK f \in [0..n -> T] : Loops(f, n, Begin, g)
  <2> HIDE DEF n, T, g
  <2>1. n \in Nat
    BY <1>1
  <2> QED
    BY <1>2, <1>3, <2>1, LoopExists
<1>5. ASSUME NEW k \in 1..n
      PROVE  f[k] = Visit(given, f[k - 1], order[k])
  <2> HIDE DEF n, T
  <2>1. k - 1 \in 0..n /\ f[k - 1] \in T
    BY <1>1, <1>4
  <2> QED
    BY <1>4, <2>1 DEF Loops
<1>6. Tallies(f, given, order)
  <2>1. f[0] = Begin
    BY <1>4 DEF Loops
  <2> HIDE DEF T, g
  <2> QED
    BY <1>1, <1>4, <1>5, <2>1 DEF Tallies
<1> QED
  BY <1>6

\* What the loop knows after k visits.
Leads(given, order, k, t) ==
    /\ t.count \in Nat /\ t.tied \in BOOLEAN
    /\ k = 0 => t = Begin
    /\ \A i \in 1..k : Votes(given, order[i]) <= t.count
    /\ k # 0 => \E i \in 1..k : t.best = order[i] /\ t.count = Votes(given, order[i])
    /\ t.tied <=> \E i, j \in 1..k : /\ i # j
                                     /\ Votes(given, order[i]) = t.count
                                     /\ Votes(given, order[j]) = t.count

LEMMA VisitKeepsTheLead ==
    ASSUME NEW given \in Given, NEW order \in SetToSeqs(Named(given)),
           NEW k \in 0..Len(order), k # Len(order), NEW t, Leads(given, order, k, t)
    PROVE  Leads(given, order, k + 1, Visit(given, t, order[k + 1]))
<1> DEFINE m == k + 1
           n == Votes(given, order[m])
           u == Visit(given, t, order[m])
<1> SUFFICES Leads(given, order, m, u)
  OBVIOUS
<1>1. Len(order) \in Nat /\ \A i \in 1..Len(order) : Votes(given, order[i]) \in Nat \ {0}
  BY NamedAreCounted, OrderVisitsEachOnce
<1>2. k \in Nat /\ m \in 1..Len(order) /\ n \in Nat \ {0}
  BY <1>1
<1>3. \A i \in 1..k : i \in 1..Len(order) /\ i # m
  BY <1>1
<1>4. \A i \in 1..m : i = m \/ i \in 1..k
  BY <1>2
<1>5. t.count \in Nat /\ t.tied \in BOOLEAN /\ \A i \in 1..k : Votes(given, order[i]) <= t.count
  BY DEF Leads
<1>6. /\ u.best = IF n > t.count THEN order[m] ELSE t.best
      /\ u.count = IF n > t.count THEN n ELSE t.count
      /\ u.tied = Tied(t, n)
  BY DEF Visit
<1> HIDE DEF u, n
<1>7. u.count \in Nat /\ n <= u.count /\ t.count <= u.count
  BY <1>2, <1>5, <1>6
<1>8. u.tied \in BOOLEAN
  BY <1>5, <1>6 DEF Tied
<1>9. \A i \in 1..m : Votes(given, order[i]) <= u.count
  BY <1>1, <1>3, <1>4, <1>5, <1>7 DEF n
<1>10. CASE n > t.count
  <2>1. u.best = order[m] /\ u.count = n /\ u.tied = FALSE
    BY <1>6, <1>10 DEF Tied
  <2>2. \A i \in 1..k : Votes(given, order[i]) # n
    BY <1>1, <1>2, <1>3, <1>5, <1>10
  <2>3. ~ \E i, j \in 1..m : /\ i # j
                             /\ Votes(given, order[i]) = u.count
                             /\ Votes(given, order[j]) = u.count
    BY <1>4, <2>1, <2>2
  <2>4. \E i \in 1..m : u.best = order[i] /\ u.count = Votes(given, order[i])
    BY <1>2, <2>1 DEF n
  <2>5. m # 0
    BY <1>2
  <2> HIDE DEF m
  <2> QED
    BY <1>7, <1>9, <2>1, <2>3, <2>4, <2>5 DEF Leads
<1>11. CASE ~ (n > t.count)
  <2>1. u.best = t.best /\ u.count = t.count /\ u.tied = (t.tied \/ n = t.count)
    BY <1>6, <1>11 DEF Tied
  <2>2. k # 0
    BY <1>2, <1>11 DEF Leads, Begin
  <2>3. PICK b \in 1..k : t.best = order[b] /\ t.count = Votes(given, order[b])
    BY <2>2 DEF Leads
  <2>4. b \in 1..m /\ m \in 1..m /\ b # m /\ \A i \in 1..k : i \in 1..m
    BY <1>2, <1>3
  <2>5. ASSUME u.tied
        PROVE  \E i, j \in 1..m : /\ i # j
                                  /\ Votes(given, order[i]) = u.count
                                  /\ Votes(given, order[j]) = u.count
    <3>1. CASE t.tied
      BY <2>1, <2>4, <3>1 DEF Leads
    <3>2. CASE n = t.count
      BY <2>1, <2>3, <2>4, <3>2 DEF n
    <3> QED
      BY <2>1, <2>5, <3>1, <3>2
  <2>6. ASSUME NEW i \in 1..m, NEW j \in 1..m, i # j,
               Votes(given, order[i]) = u.count, Votes(given, order[j]) = u.count
        PROVE  u.tied
    <3>1. CASE i \in 1..k /\ j \in 1..k
      BY <2>1, <2>6, <3>1 DEF Leads
    <3>2. CASE i = m \/ j = m
      BY <2>1, <2>6, <3>2 DEF n
    <3> QED
      BY <1>4, <2>6, <3>1, <3>2
  <2>7. \E i \in 1..m : u.best = order[i] /\ u.count = Votes(given, order[i])
    BY <2>1, <2>3, <2>4
  <2> QED
    BY <1>2, <1>7, <1>8, <1>9, <2>5, <2>6, <2>7 DEF Leads
<1> QED
  BY <1>10, <1>11
LEMMA LoopLeads ==
    ASSUME NEW given \in Given, NEW order \in SetToSeqs(Named(given)), NEW f, Tallies(f, given, order)
    PROVE  Leads(given, order, Len(order), f[Len(order)])
<1> DEFINE n == Len(order)
           Known == {k \in 0..n : Leads(given, order, k, f[k])}
<1>1. n \in Nat
  BY NamedAreCounted, OrderVisitsEachOnce
<1>2. f[0] = Begin /\ \A k \in 1..n : f[k] = Visit(given, f[k - 1], order[k])
  BY <1>1 DEF Tallies
<1>3. 0 \in Known
  <2>1. Leads(given, order, 0, Begin)
    BY DEF Leads, Begin
  <2>2. 0 \in 0..n
    BY <1>1
  <2> QED
    BY <1>2, <2>1, <2>2
<1>4. PICK b \in Known : \A c \in Known : c <= b
  <2>1. Known \in SUBSET (0..n) /\ Known # {}
    BY <1>3
  <2> HIDE DEF Known
  <2> QED
    BY <1>1, <2>1, GreatestExists
<1>5. b \in 0..n /\ Leads(given, order, b, f[b])
  OBVIOUS
<1>6. b = n
  <2> SUFFICES ASSUME b # n PROVE FALSE
    OBVIOUS
  <2>1. b + 1 \in 1..n /\ (b + 1) - 1 = b
    BY <1>1, <1>5
  <2>2. f[b + 1] = Visit(given, f[b], order[b + 1])
    BY <1>2, <2>1
  <2>3. Leads(given, order, b + 1, f[b + 1])
    BY <1>5, <2>2, VisitKeepsTheLead
  <2>4. b + 1 \in Known
    BY <2>1, <2>3
  <2> QED
    BY <1>4, <1>5, <2>4
<1> QED
  BY <1>5, <1>6

\* forwarding.go:44: in whatever order the map is walked, TopSuggestion is the official most
\* advisers named, and nobody when there is none such.
LEMMA TopIsFound ==
    ASSUME NEW given \in Given, NEW order \in SetToSeqs(Named(given))
    PROVE  Top(given) = {TopSuggestion(given, order)} \ {None}
<1> DEFINE n == Len(order)
           f == CHOOSE f : Tallies(f, given, order)
           t == f[n]
<1>1. Tallies(f, given, order)
  BY TallyRuns
<1>2. TopSuggestion(given, order) = IF t.tied THEN None ELSE t.best
  BY DEF TopSuggestion, Tallies, Visit, Begin
<1>3. Leads(given, order, n, t)
  <2> HIDE DEF f
  <2> QED
    BY <1>1, LoopLeads
<1>4. /\ n \in Nat /\ order \in Seq(Named(given))
      /\ \A o \in Named(given) : \E i \in 1..n : order[i] = o
      /\ \A i, j \in 1..n : order[i] = order[j] => i = j
  BY NamedAreCounted, OrderVisitsEachOnce
<1>5. \A i \in 1..n : order[i] \in Named(given) /\ order[i] # None
  BY <1>4 DEF Named
<1>6. Top(given) = {o \in Named(given) :
            \A q \in Named(given) \ {o} : Votes(given, q) < Votes(given, o)}
  BY DEF Top, Named
<1>7. \A o \in Named(given) : Votes(given, o) \in Nat
  BY NamedAreCounted
<1> HIDE DEF t, f, n
<1>8. CASE n = 0
  BY <1>2, <1>3, <1>4, <1>6, <1>8 DEF Leads, Begin
<1>9. CASE n # 0
  <2>1. PICK b \in 1..n : t.best = order[b] /\ t.count = Votes(given, order[b])
    BY <1>3, <1>9 DEF Leads
  <2>2. \A o \in Named(given) : Votes(given, o) <= t.count
    BY <1>3, <1>4 DEF Leads
  <2>3. ASSUME t.tied
        PROVE  Top(given) = {}
    <3>1. PICK i \in 1..n, j \in 1..n : /\ i # j
                                        /\ Votes(given, order[i]) = t.count
                                        /\ Votes(given, order[j]) = t.count
      BY <1>3, <2>3 DEF Leads
    <3>2. order[i] # order[j] /\ order[i] \in Named(given) /\ order[j] \in Named(given)
      BY <1>4, <1>5, <3>1
    <3>3. ASSUME NEW o \in Named(given)
          PROVE  \E q \in Named(given) \ {o} : ~ (Votes(given, q) < Votes(given, o))
      BY <1>7, <2>2, <3>1, <3>2
    <3> QED
      BY <1>6, <3>3
  <2>4. ASSUME ~ t.tied
        PROVE  Top(given) = {t.best}
    <3>1. \A i \in 1..n : i # b => Votes(given, order[i]) # t.count
      BY <1>3, <2>1, <2>4 DEF Leads
    <3>2. \A q \in Named(given) \ {order[b]} : Votes(given, q) # t.count
      BY <1>4, <3>1
    <3>3. \A q \in Named(given) \ {order[b]} : Votes(given, q) < Votes(given, order[b])
      BY <1>5, <1>7, <2>1, <2>2, <3>2
    <3>4. ASSUME NEW o \in Named(given), o # order[b]
          PROVE  ~ (Votes(given, order[b]) < Votes(given, o))
      BY <1>5, <1>7, <2>1, <2>2
    <3> QED
      BY <1>5, <1>6, <2>1, <3>3, <3>4
  <2>5. t.best # None
    BY <1>5, <2>1
  <2> QED
    BY <1>2, <2>3, <2>4, <2>5
<1> QED
  BY <1>8, <1>9
-----------------------------------------------------------------------------
(* The invariant. *)

\* What TallyIsHonest says of one decision.
Weighed(h) ==
    /\ h.why = "" => Top(h.given) \subseteq {h.to}
    /\ h.entry = "assignment_overridden" <=> h.to # pointed \/ (Top(h.given) \ {h.to}) # {}

\* What a request under way relies on: a decision to be stored owes nothing, and one that
\* was stored is what the row says.
Fits(h) ==
    /\ h.pc = "insert" => /\ h.to # pointed => h.why # ""
                          /\ "given" \in DOMAIN h => Weighed(h)
    /\ h.pc \in {"insert", "mark", "audit"} /\ h.entry = "assigned" => h.to = pointed
    /\ h.pc \in {"mark", "audit", "tell"} => row.to = h.to

HandoverInv ==
    /\ TypeOK /\ DepartureIsExplained /\ HandedOnce
    /\ \A r \in Request : Fits(request[r])

LEMMA InvariantIsSound == HandoverInv => HandoverIsSound
  BY DEF HandoverInv, HandoverIsSound, TallyIsHonest, Fits, Weighed, At

LEMMA JobHolds ==
    ASSUME NEW h \in Job
    PROVE  /\ h.pc \in {"insert", "advice", "mark", "audit", "tell", "upsert"} => h.to \in Official
           /\ h.pc \in {"insert", "advice"} => h.why \in Reason
           /\ h.pc \in {"insert", "mark", "audit"} => h.entry \in Entry
           /\ h.pc \in {"upsert", "noted"} => h.by \in Admin
  BY DEF Job, Idle

LEMMA InitSound == Init => HandoverInv
<1> SUFFICES ASSUME Init PROVE HandoverInv
  OBVIOUS
<1>1. TypeOK
  BY DEF Init, TypeOK, NoRow, Given, Job, Reason
<1>2. DepartureIsExplained /\ HandedOnce
  BY DEF Init, DepartureIsExplained, HandedOnce, NoRow
<1>3. \A r \in Request : Fits(request[r])
  BY DEF Init, Fits, Idle
<1> QED
  BY <1>1, <1>2, <1>3 DEF HandoverInv

\* One request goes on, the others stay.
LEMMA GoesOn ==
    ASSUME TypeOK, NEW r \in Request, NEW h \in Job, Goto(r, h)
    PROVE  /\ request' \in [Request -> Job] /\ request'[r] = h
           /\ \A q \in Request \ {r} : request'[q] = request[q]
  BY DEF TypeOK, Goto

\* What fits goes on fitting while the row and the choice stand.
LEMMA FitsStay ==
    ASSUME TypeOK, NEW r \in Request, NEW h \in Job, Goto(r, h), UNCHANGED pointed, Fits(h)',
           \A q \in Request \ {r} : row'.to = row.to \/ ~ (request[q].pc \in {"mark", "audit", "tell"}),
           \A q \in Request : Fits(request[q])
    PROVE  \A q \in Request : Fits(request[q])'
<1>1. ASSUME NEW q \in Request \ {r} PROVE Fits(request[q])'
  <2>1. request'[q] = request[q]
    BY GoesOn
  <2>2. Weighed(request[q]) => Weighed(request[q])'
    BY <2>1 DEF Weighed
  <2> QED
    BY <2>1, <2>2 DEF Fits
<1>2. Fits(request[r])'
  BY GoesOn
<1> QED
  BY <1>1, <1>2

\* The first statement of each request, the weighing, and a request that ends.
LEMMA LoadSound ==
    ASSUME HandoverInv, NEW r \in Request, NEW h \in Job, Goto(r, h), Fits(h),
           UNCHANGED <<pointed, status, advice, row, trail, told>>
    PROVE  HandoverInv'
<1>1. Fits(h)'
  BY DEF Fits, Weighed
<1>2. TypeOK'
  BY GoesOn DEF HandoverInv, TypeOK
<1>3. DepartureIsExplained' /\ HandedOnce'
  BY DEF HandoverInv, DepartureIsExplained, HandedOnce
<1>4. \A q \in Request : Fits(request[q])'
  BY <1>1, FitsStay DEF HandoverInv
<1> QED
  BY <1>2, <1>3, <1>4 DEF HandoverInv
LEMMA DecisionsSound ==
    ASSUME HandoverInv, NEW r \in Request,
           \E o \in Official, reason \in Reason :
                (\E v \in Admin : Assign(r, v, o, reason)) \/ Forward(r, o, reason)
    PROVE  HandoverInv'
<1>1. PICK o \in Official, reason \in Reason :
            (\E v \in Admin : Assign(r, v, o, reason)) \/ Forward(r, o, reason)
  OBVIOUS
<1>2. ASSUME NEW v \in Admin, Assign(r, v, o, reason)
      PROVE  HandoverInv'
  <2> DEFINE h == [pc |-> "insert", to |-> o, why |-> IF o = pointed THEN "" ELSE reason,
                   entry |-> IF o = pointed THEN "assigned" ELSE "assignment_overridden"]
  <2>1. h \in Job
    BY DEF Job, Entry, Reason
  <2>2. Fits(h)
    BY <1>2 DEF Fits, Assign, OverrideAllowed
  <2>3. Goto(r, h) /\ UNCHANGED <<pointed, status, advice, row, trail, told>>
    BY <1>2 DEF Assign
  <2> HIDE DEF h
  <2> QED
    BY <2>1, <2>2, <2>3, LoadSound
<1>3. CASE Forward(r, o, reason)
  <2> DEFINE h == [pc |-> "advice", to |-> o, why |-> TrimSpace(reason)]
  <2>1. h \in Job
    BY DEF Job, TrimSpace, Reason
  <2>2. Fits(h)
    BY DEF Fits
  <2>3. Goto(r, h) /\ UNCHANGED <<pointed, status, advice, row, trail, told>>
    BY <1>3 DEF Forward
  <2> HIDE DEF h
  <2> QED
    BY <2>1, <2>2, <2>3, LoadSound
<1> QED
  BY <1>1, <1>2, <1>3

LEMMA IdleSound ==
    ASSUME HandoverInv, NEW r \in Request, Goto(r, Idle),
           UNCHANGED <<pointed, status, advice, row, trail, told>>
    PROVE  HandoverInv'
<1>1. Idle \in Job /\ Fits(Idle)
  BY DEF Job, Fits, Idle
<1> QED
  BY <1>1, LoadSound

\* forward_problem.go:103: what was read of the advice is weighed with the choice.
LEMMA JudgeSound ==
    ASSUME HandoverInv, NEW r \in Request, Judge(r)
    PROVE  HandoverInv'
<1> DEFINE h == request[r]
<1>1. advice \in Given /\ pointed \in Official
  BY DEF HandoverInv, TypeOK
<1>2. h \in Job /\ h.to \in Official /\ h.why \in Reason
  BY JobHolds DEF HandoverInv, TypeOK, Judge, At
<1>3. PICK order \in SetToSeqs(Named(advice)) :
        LET departs == RequiresReason(h.to, TopSuggestion(advice, order)) IN
        \/ /\ departs => h.why # ""
           /\ Goto(r, [pc |-> "insert", to |-> h.to, why |-> h.why, given |-> advice,
                       entry |-> IF departs THEN "assignment_overridden" ELSE "assigned"])
        \/ departs /\ h.why = "" /\ Goto(r, Idle)
  BY DEF Judge, Named
<1>4. UNCHANGED <<pointed, status, advice, row, trail, told>>
  BY DEF Judge
<1> DEFINE top == TopSuggestion(advice, order)
           departs == RequiresReason(h.to, top)
           next == [pc |-> "insert", to |-> h.to, why |-> h.why, given |-> advice,
                    entry |-> IF departs THEN "assignment_overridden" ELSE "assigned"]
<1>5. Top(advice) = {top} \ {None}
  BY <1>1, TopIsFound
<1> HIDE DEF top
<1>6. departs <=> h.to # pointed \/ (Top(advice) \ {h.to}) # {}
  BY <1>5 DEF RequiresReason
<1>7. CASE (departs => h.why # "") /\ Goto(r, next)
  <2>1. next \in Job
    BY <1>1, <1>2 DEF Job, Entry
  <2>2. /\ next.pc = "insert" /\ next.to = h.to /\ next.why = h.why /\ next.given = advice
        /\ next.entry = IF departs THEN "assignment_overridden" ELSE "assigned"
    OBVIOUS
  <2> HIDE DEF next, departs
  <2>3. Weighed(next)
    BY <1>6, <1>7, <2>2 DEF Weighed
  <2>4. Fits(next)
    BY <1>6, <1>7, <2>2, <2>3 DEF Fits
  <2> QED
    BY <1>4, <1>7, <2>1, <2>4, LoadSound
<1>8. CASE Goto(r, Idle)
  BY <1>4, <1>8, IdleSound
<1> QED
  BY <1>3, <1>7, <1>8 DEF top

\* UNIQUE (problem_id): the row is written once, by a decision that owes nothing.
LEMMA InsertSound ==
    ASSUME HandoverInv, NEW r \in Request, Insert(r)
    PROVE  HandoverInv'
<1>0. PICK h : h = request[r]
  OBVIOUS
<1>1. h \in Job /\ h.pc = "insert" /\ h.to \in Official /\ h.why \in Reason /\ h.entry \in Entry
  BY <1>0, JobHolds DEF HandoverInv, TypeOK, Insert, At
<1>2. Fits(h)
  BY <1>0 DEF HandoverInv
<1>3. UNCHANGED <<pointed, status, advice, trail, told>>
  BY DEF Insert
<1>4. CASE Unassigned /\ row' = [to |-> h.to, monitor |-> MonitorFor(Directory, h.to), why |-> h.why]
           /\ Goto(r, [pc |-> "mark", to |-> h.to, entry |-> h.entry])
  <2> DEFINE next == [pc |-> "mark", to |-> h.to, entry |-> h.entry]
  <2>1. next \in Job
    BY <1>1 DEF Job
  <2>2. row.to = None /\ None \notin Official
    BY <1>4, ForwardingAssumption DEF Unassigned, NoRow
  <2>3. row'.to = h.to /\ row'.why = h.why
    BY <1>4
  <2>4. row' \in [to : Official \cup {None}, monitor : Official \cup {None}, why : Reason]
    BY <1>1, <1>4, MonitorIsAnOffice
  <2>5. Fits(next)'
    <3>1. next.pc = "mark" /\ next.to = h.to /\ next.entry = h.entry
      OBVIOUS
    <3>2. h.entry = "assigned" => h.to = pointed
      BY <1>1, <1>2 DEF Fits
    <3> HIDE DEF next
    <3> QED
      BY <1>3, <2>3, <3>1, <3>2 DEF Fits
  <2>6. TypeOK'
    BY <1>3, <1>4, <2>1, <2>4, GoesOn DEF HandoverInv, TypeOK
  <2>7. \A q \in Request : ~ (request[q].pc \in {"mark", "audit", "tell"})
    BY <2>2, JobHolds DEF HandoverInv, TypeOK, Fits
  <2>8. \A q \in Request : Fits(request[q])'
    <3>1. Goto(r, next) /\ UNCHANGED pointed
      BY <1>3, <1>4
    <3> HIDE DEF next
    <3> QED
      BY <2>1, <2>5, <2>7, <3>1, FitsStay DEF HandoverInv
  <2>9. HandedOnce'
    BY <1>3, <2>2 DEF HandoverInv, HandedOnce
  <2>10. DepartureIsExplained'
    BY <1>1, <1>2, <1>3, <2>2, <2>3 DEF HandoverInv, DepartureIsExplained, Fits
  <2> QED
    BY <2>6, <2>8, <2>9, <2>10 DEF HandoverInv
<1>5. CASE Goto(r, Idle) /\ UNCHANGED row
  BY <1>3, <1>5, IdleSound
<1> QED
  BY <1>0, <1>4, <1>5 DEF Insert
\* assigner.go:51-67: what follows the row says what the row says.
LEMMA AftermathSound ==
    ASSUME HandoverInv, NEW r \in Request, Mark(r) \/ Audit(r) \/ Tell(r)
    PROVE  HandoverInv'
<1>1. PICK h : h = request[r]
  OBVIOUS
<1>2. h \in Job /\ Fits(h)
  BY <1>1 DEF HandoverInv, TypeOK
<1>3. CASE Mark(r)
  <2> DEFINE next == [pc |-> "audit", to |-> h.to, entry |-> h.entry]
  <2>1. h.pc = "mark" /\ h.to \in Official /\ h.entry \in Entry
    BY <1>1, <1>2, <1>3, JobHolds DEF Mark, At
  <2>2. h \in [pc : {"mark", "audit"}, to : Official, entry : Entry]
    BY <1>2, <2>1 DEF Job, Idle
  <2>3. Goto(r, next) /\ status' = "assigned" /\ UNCHANGED <<pointed, advice, row, trail, told>>
    <3>1. [h EXCEPT !.pc = "audit"] = next
      BY <2>2
    <3> HIDE DEF next
    <3> QED
      BY <1>1, <1>3, <3>1 DEF Mark
  <2>4. next \in Job /\ Fits(next)'
    BY <1>2, <2>1, <2>3 DEF Job, Fits
  <2> HIDE DEF next
  <2>5. TypeOK'
    BY <2>3, <2>4, GoesOn DEF HandoverInv, TypeOK
  <2>6. DepartureIsExplained' /\ HandedOnce'
    BY <2>3 DEF HandoverInv, DepartureIsExplained, HandedOnce
  <2>7. \A q \in Request : Fits(request[q])'
    BY <2>3, <2>4, FitsStay DEF HandoverInv
  <2> QED
    BY <2>5, <2>6, <2>7 DEF HandoverInv
<1>4. CASE Audit(r)
  <2> DEFINE next == [pc |-> "tell", to |-> h.to]
  <2>1. h.pc = "audit" /\ h.to \in Official /\ h.entry \in Entry
    BY <1>1, <1>2, <1>4, JobHolds DEF Audit, At
  <2>2. row.to = h.to /\ (h.entry = "assigned" => h.to = pointed)
    BY <1>2, <2>1 DEF Fits
  <2>3. /\ Goto(r, next) /\ UNCHANGED <<pointed, status, advice, row, told>>
        /\ trail' \in {trail, trail \cup {<<h.entry, h.to>>}}
    BY <1>1, <1>4 DEF Audit
  <2>4. next \in Job /\ Fits(next)'
    BY <2>1, <2>2, <2>3 DEF Job, Fits
  <2> HIDE DEF next
  <2>5. TypeOK'
    BY <2>1, <2>3, <2>4, GoesOn DEF HandoverInv, TypeOK
  <2>6. DepartureIsExplained'
    BY <2>2, <2>3 DEF HandoverInv, DepartureIsExplained
  <2>7. HandedOnce'
    BY <2>2, <2>3 DEF HandoverInv, HandedOnce
  <2>8. \A q \in Request : Fits(request[q])'
    BY <2>3, <2>4, FitsStay DEF HandoverInv
  <2> QED
    BY <2>5, <2>6, <2>7, <2>8 DEF HandoverInv
<1>5. CASE Tell(r)
  <2>1. h.pc = "tell" /\ h.to \in Official /\ row.to = h.to
    BY <1>1, <1>2, <1>5, JobHolds DEF Tell, At, Fits
  <2>2. Goto(r, Idle) /\ UNCHANGED <<pointed, status, advice, row, trail>>
    BY <1>5 DEF Tell
  <2>3. PICK sent \in SUBSET ({"reporter", "official"} \X {h.to}) : told' = told \cup sent
    BY <1>1, <1>5 DEF Tell
  <2>4. Idle \in Job /\ Fits(Idle)'
    BY DEF Job, Fits, Idle
  <2>5. told' \subseteq {"reporter", "official"} \X Official
    BY <2>1, <2>3 DEF HandoverInv, TypeOK
  <2>6. TypeOK'
    BY <2>2, <2>4, <2>5, GoesOn DEF HandoverInv, TypeOK
  <2>7. DepartureIsExplained'
    BY <2>2 DEF HandoverInv, DepartureIsExplained
  <2>8. HandedOnce'
    BY <2>1, <2>2, <2>3 DEF HandoverInv, HandedOnce
  <2>9. \A q \in Request : Fits(request[q])'
    BY <2>2, <2>4, FitsStay DEF HandoverInv
  <2> QED
    BY <2>6, <2>7, <2>8, <2>9 DEF HandoverInv
<1> QED
  BY <1>3, <1>4, <1>5

LEMMA AdviceSound ==
    ASSUME HandoverInv, NEW r \in Request,
           (\E v \in Admin, o \in Official : Suggest(r, v, o)) \/ Upsert(r) \/ Note(r)
    PROVE  HandoverInv'
<1>1. PICK h : h = request[r]
  OBVIOUS
<1>2. h \in Job
  BY <1>1 DEF HandoverInv, TypeOK
<1>3. ASSUME NEW v \in Admin, NEW o \in Official, Suggest(r, v, o)
      PROVE  HandoverInv'
  <2> DEFINE next == [pc |-> "upsert", by |-> v, to |-> o]
  <2>1. next \in Job /\ Fits(next)
    BY DEF Job, Fits
  <2> QED
    BY <1>3, <2>1, LoadSound DEF Suggest
<1>4. CASE Upsert(r)
  <2> DEFINE next == [pc |-> "noted", by |-> h.by]
  <2>1. h.by \in Admin /\ h.to \in Official
    BY <1>1, <1>2, <1>4, JobHolds DEF Upsert, At
  <2>2. Goto(r, next) /\ UNCHANGED <<pointed, status, row, trail, told>>
    BY <1>1, <1>4 DEF Upsert
  <2>3. advice' \in Given
    BY <1>1, <1>4, <2>1 DEF Upsert, Advised, HandoverInv, TypeOK, Given
  <2>4. next \in Job /\ Fits(next)'
    BY <2>1 DEF Job, Fits
  <2> HIDE DEF next
  <2>5. TypeOK'
    BY <2>2, <2>3, <2>4, GoesOn DEF HandoverInv, TypeOK
  <2>6. DepartureIsExplained' /\ HandedOnce'
    BY <2>2 DEF HandoverInv, DepartureIsExplained, HandedOnce
  <2>7. \A q \in Request : Fits(request[q])'
    BY <2>2, <2>4, FitsStay DEF HandoverInv
  <2> QED
    BY <2>5, <2>6, <2>7 DEF HandoverInv
<1>5. CASE Note(r)
  <2>1. h.by \in Admin
    BY <1>1, <1>2, <1>5, JobHolds DEF Note, At
  <2>2. /\ Goto(r, Idle) /\ UNCHANGED <<pointed, status, advice, row, told>>
        /\ trail' \in {trail, trail \cup {<<"forwarding_suggested", h.by>>}}
    BY <1>1, <1>5 DEF Note
  <2>3. Idle \in Job /\ Fits(Idle)'
    BY DEF Job, Fits, Idle
  <2>4. TypeOK'
    BY <2>1, <2>2, <2>3, GoesOn DEF HandoverInv, TypeOK
  <2>5. DepartureIsExplained' /\ HandedOnce'
    BY <2>2 DEF HandoverInv, DepartureIsExplained, HandedOnce, Entry
  <2>6. \A q \in Request : Fits(request[q])'
    BY <2>2, <2>3, FitsStay DEF HandoverInv
  <2> QED
    BY <2>4, <2>5, <2>6 DEF HandoverInv
<1> QED
  BY <1>3, <1>4, <1>5

LEMMA StatusSound == HandoverInv /\ (Validate \/ TakeDown \/ UNCHANGED vars) => HandoverInv'
<1> SUFFICES ASSUME HandoverInv, Validate \/ TakeDown \/ UNCHANGED vars PROVE HandoverInv'
  OBVIOUS
<1>1. /\ UNCHANGED <<pointed, advice, row, trail, told, request>>
      /\ status' \in {status, "validated", "down"}
  BY DEF Validate, TakeDown, vars
<1>2. TypeOK' /\ DepartureIsExplained' /\ HandedOnce'
  BY <1>1 DEF HandoverInv, TypeOK, DepartureIsExplained, HandedOnce
<1>3. \A q \in Request : Fits(request[q])'
  BY <1>1 DEF HandoverInv, Fits, Weighed
<1> QED
  BY <1>2, <1>3 DEF HandoverInv

LEMMA StepSound == HandoverInv /\ [Next]_vars => HandoverInv'
<1> SUFFICES ASSUME HandoverInv, [Next]_vars PROVE HandoverInv'
  OBVIOUS
<1>1. ASSUME NEW r \in Request, Fail(r) PROVE HandoverInv'
  BY <1>1, IdleSound DEF Fail
<1> QED
  BY <1>1, StatusSound, DecisionsSound, JudgeSound, InsertSound, AftermathSound, AdviceSound DEF Next

-----------------------------------------------------------------------------

\* forward_problem.go:52, assigner.go:34, forwarding.go:44: whoever decides, by either route
\* and against whatever else is under way, a departure from the reporter's choice carries a
\* reason, the advice is weighed as it was read, and what is announced and entered is the
\* one row that was stored.
THEOREM Handover == Spec => []HandoverIsSound
<1>1. Spec => []HandoverInv
  BY InitSound, StepSound, PTL DEF Spec
<1> QED
  BY <1>1, InvariantIsSound, PTL

LEMMA ListsAgree == TypeOK => ListsAreTrue
<1> SUFFICES ASSUME TypeOK PROVE ListsAreTrue
  OBVIOUS
<1>1. pointed \in Official
  BY DEF TypeOK
<1>2. InForwardingQueue <=> \E o \in Official : MayForward(o)
  BY <1>1 DEF InForwardingQueue, MayForward, Assignable, Eligible
<1>3. ASSUME NEW v \in Admin
      PROVE  /\ InQueue(v) <=> MayAssign(v)
             /\ InAdviceList(v) <=> \E o \in Official : MayAdvise(v, o)
  BY <1>1 DEF InQueue, MayAssign, InAdviceList, InForwardingQueue, MayAdvise, Assignable, Eligible,
              AboveUnion
<1>4. OneDecider
  BY DEF OneDecider, InForwardingQueue, InQueue
<1> QED
  BY <1>2, <1>3, <1>4 DEF ListsAreTrue, ShownIsAllowed

\* list_queue.go:43, suggest_forwarding.go:113: for every admin, tier and place, a list
\* offers what the action behind it accepts and nothing else, and no report waits for both
\* the union and the seat.
THEOREM Lists == Spec => []ListsAreTrue
<1>1. Spec => []HandoverInv
  BY InitSound, StepSound, PTL DEF Spec
<1>2. HandoverInv => ListsAreTrue
  BY ListsAgree DEF HandoverInv
<1> QED
  BY <1>1, <1>2, PTL
=============================================================================
