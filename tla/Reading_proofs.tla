------------------------------ MODULE Reading_proofs ------------------------------
(***************************************************************************)
(* Proofs about what is read, and by whom.  Of Inbox, for any number of accounts,  *)
(* offices and messages and any length of the list: nobody is shown or marks       *)
(* another's message, the badge and the list agree, and the first reading is the     *)
(* one recorded.  Of Views, for any accounts, unions and reads under way: a pending  *)
(* report reaches its reporter and its admin only, what is listed can be opened,     *)
(* and every decision on a report is public.                                      *)
(***************************************************************************)
EXTENDS Inbox, Views, TLAPS, FiniteSetTheorems, Maximum

-----------------------------------------------------------------------------
(* Inbox. *)

\* What makes PrivateToAddressee inductive: a token may be older than its account, but an
\* office on it was given and stays; what was opened was addressed to somebody.
TokensAreGiven == \A a \in Account : token[a] \in Office => bound[a] = token[a]
OpenedIsAddressed == \A e \in opened : e[1] \in Account /\ e[2][2] \in Addressee

InboxInv == InboxTypeOK /\ TokensAreGiven /\ OpenedIsAddressed /\ PrivateToAddressee

-----------------------------------------------------------------------------
(* The badge and the list. *)

LEMMA OwnIsFinite ==
    ASSUME InboxTypeOK, NEW a \in Account, NEW S \in SUBSET Own(a)
    PROVE  /\ S \in SUBSET (0..sent) /\ sent \in Nat
           /\ IsFiniteSet(S) /\ Cardinality(S) \in Nat
<1>1. sent \in Nat /\ S \in SUBSET (1..sent)
  BY InboxAssumption DEF Own, InboxTypeOK
<1>2. IsFiniteSet(1..sent)
  BY <1>1, FS_Interval
<1>3. IsFiniteSet(S)
  BY <1>1, <1>2, FS_Subset
<1> QED
  BY <1>1, <1>3, FS_CardinalityType

\* A list that is not full shows everything: the newest left out would have a whole list
\* of newer ones before it.
LEMMA ShortListIsWhole ==
    ASSUME InboxTypeOK, NEW a \in Account, Cardinality(Shown(a)) < Limit
    PROVE  Shown(a) = Own(a)
<1> DEFINE Left == Own(a) \ Shown(a)
<1>1. Shown(a) \in SUBSET Own(a)
  BY DEF Shown
<1> SUFFICES ASSUME Left # {} PROVE FALSE
  BY <1>1
<1>2. PICK n \in Left : \A k \in Left : k <= n
  <2>1. Left \in SUBSET (0..sent) /\ sent \in Nat
    <3>1. Left \in SUBSET Own(a)
      OBVIOUS
    <3> QED
      BY <3>1, OwnIsFinite
  <2> HIDE DEF Left
  <2> QED
    BY <2>1, GreatestExists
<1> DEFINE Newer == {k \in Own(a) : k > n}
<1>3. /\ n \in Nat /\ \A k \in Own(a) : k \in Nat
      /\ Newer \in SUBSET Own(a)
  BY <1>2, OwnIsFinite
<1>4. Newer \in SUBSET Shown(a)
  <2> SUFFICES ASSUME NEW k \in Own(a), k > n, k \notin Shown(a) PROVE FALSE
    OBVIOUS
  <2>1. k \in Left
    OBVIOUS
  <2>2. k <= n
    BY <1>2, <2>1
  <2> QED
    BY <1>3, <2>2
<1>5. ~ (Cardinality(Newer) < Limit)
  BY <1>2 DEF Shown
<1>6. /\ Cardinality(Newer) \in Nat /\ Cardinality(Shown(a)) \in Nat
      /\ IsFiniteSet(Shown(a))
  BY <1>1, <1>3, OwnIsFinite
<1>7. Cardinality(Newer) <= Cardinality(Shown(a))
  BY <1>4, <1>6, FS_Subset
<1> QED
  BY <1>5, <1>6, <1>7, InboxAssumption

LEMMA BadgeIsTrue == ASSUME InboxTypeOK PROVE BadgeAgrees
<1> SUFFICES ASSUME NEW a \in Account
             PROVE  LET unread == {n \in Shown(a) : messages[n].read = 0} IN
                    /\ CountUnread(a) >= Cardinality(unread)
                    /\ Cardinality(Shown(a)) < Limit => CountUnread(a) = Cardinality(unread)
                    /\ \A n \in Shown(a) : MayMark(a, n)
  BY DEF BadgeAgrees
<1> DEFINE unread == {n \in Shown(a) : messages[n].read = 0}
           Unread == {n \in Own(a) : messages[n].read = 0}
<1>1. unread \in SUBSET Unread /\ Unread \in SUBSET Own(a)
  BY DEF Shown
<1>2. IsFiniteSet(Unread) /\ Cardinality(Unread) \in Nat /\ Cardinality(unread) \in Nat
  BY <1>1, OwnIsFinite
<1>3. Cardinality(unread) <= Cardinality(Unread)
  BY <1>1, <1>2, FS_Subset
<1>4. CountUnread(a) = Cardinality(Unread)
  BY DEF CountUnread
<1>5. Cardinality(Shown(a)) < Limit => unread = Unread
  BY ShortListIsWhole
<1>6. \A n \in Shown(a) : MayMark(a, n)
  BY DEF Shown, Own, Mine, MayMark
<1> HIDE DEF unread, Unread
<1>7. /\ CountUnread(a) >= Cardinality(unread)
      /\ Cardinality(Shown(a)) < Limit => CountUnread(a) = Cardinality(unread)
  BY <1>2, <1>3, <1>4, <1>5
<1> QED
  BY <1>6, <1>7 DEF unread

-----------------------------------------------------------------------------
(* The invariant. *)

LEMMA InboxInitSound == InboxInit => InboxInv
<1> SUFFICES ASSUME InboxInit PROVE InboxInv
  OBVIOUS
<1>1. InboxTypeOK
  BY InboxAssumption DEF InboxInit, InboxTypeOK
<1>2. TokensAreGiven /\ OpenedIsAddressed /\ PrivateToAddressee
  BY InboxAssumption DEF InboxInit, TokensAreGiven, OpenedIsAddressed, PrivateToAddressee
<1> QED
  BY <1>1, <1>2 DEF InboxInv

\* What is a caller's own is addressed to them for good.
LEMMA OwnIsTheirs ==
    ASSUME InboxInv, NEW a \in Account, LoggedIn(a), NEW n \in DOMAIN messages,
           Mine(a, messages[n].to)
    PROVE  /\ messages[n].to \in Addressee
           /\ messages[n].to = <<"account", a>> \/ messages[n].to = <<"official", bound[a]>>
<1>1. messages[n].to \in Addressee
  BY DEF InboxInv, InboxTypeOK
<1>2. token[a] \in Office \/ token[a] = Blank
  BY DEF InboxInv, InboxTypeOK, LoggedIn
<1> QED
  BY <1>1, <1>2 DEF InboxInv, TokensAreGiven, Mine

\* Whoever opens only what is theirs, and rewrites no address.
LEMMA OpeningSound ==
    ASSUME InboxInv, NEW a \in Account, LoggedIn(a), NEW S \in SUBSET Own(a),
           opened' = opened \cup ({a} \X {<<n, messages[n].to>> : n \in S}),
           UNCHANGED <<bound, token>>
    PROVE  TokensAreGiven' /\ OpenedIsAddressed' /\ PrivateToAddressee'
<1> USE DEF InboxInv
<1>1. ASSUME NEW e \in opened' \ opened
      PROVE  /\ e[1] = a /\ e[2][2] \in Addressee
             /\ e[2][2] = <<"account", a>> \/ e[2][2] = <<"official", bound[a]>>
  <2>1. PICK n \in S : e = <<a, <<n, messages[n].to>>>>
    OBVIOUS
  <2>2. n \in DOMAIN messages /\ Mine(a, messages[n].to)
    BY DEF Own
  <2> QED
    BY <2>1, <2>2, OwnIsTheirs
<1>2. TokensAreGiven'
  BY DEF TokensAreGiven
<1>3. OpenedIsAddressed'
  BY <1>1 DEF OpenedIsAddressed
<1>4. PrivateToAddressee'
  BY <1>1 DEF PrivateToAddressee
<1> QED
  BY <1>2, <1>3, <1>4

LEMMA RowsSound ==
    ASSUME InboxInv,
           \/ Pass
           \/ \E a \in Account \cup {Blank} : AppendMessage("account", a)
           \/ \E o \in Office \cup {Blank} : AppendMessage("official", o)
           \/ \E n \in DOMAIN messages : Cascade(n)
    PROVE  InboxInv'
<1> USE DEF InboxInv
<1>1. UNCHANGED <<bound, token, opened>>
  BY DEF Pass, AppendMessage, Cascade
<1>2. TokensAreGiven' /\ OpenedIsAddressed' /\ PrivateToAddressee'
  BY <1>1 DEF TokensAreGiven, OpenedIsAddressed, PrivateToAddressee
<1>3. CASE Pass
  <2>1. /\ moment' \in 1..MaxMoment /\ moment \in 1..MaxMoment /\ moment' = moment + 1
        /\ messages' = messages /\ sent' = sent
    BY <1>3, InboxAssumption DEF Pass, InboxTypeOK
  <2>2. 0..moment \subseteq 0..moment'
    BY <2>1, InboxAssumption
  <2>3. InboxTypeOK'
    BY <1>1, <2>1, <2>2 DEF InboxTypeOK
  <2> QED
    BY <1>2, <2>3
<1>4. ASSUME NEW kind, NEW id, <<kind, id>> \in Addressee, AppendMessage(kind, id)
      PROVE  InboxInv'
  <2>1. /\ sent' = sent + 1 /\ sent' \in 0..MaxMessages /\ moment' = moment /\ moment \in Nat
        /\ DOMAIN messages' = DOMAIN messages \cup {sent + 1}
        /\ messages'[sent + 1] = [to |-> <<kind, id>>, read |-> 0]
        /\ \A n \in DOMAIN messages \ {sent + 1} : messages'[n] = messages[n]
    BY <1>4, InboxAssumption DEF AppendMessage, InboxTypeOK
  <2>2. DOMAIN messages' \subseteq 1..sent'
    BY <2>1, InboxAssumption DEF InboxTypeOK
  <2>3. [to |-> <<kind, id>>, read |-> 0] \in [to : Addressee, read : 0..moment]
    BY <1>4, <2>1
  <2>4. \A n \in DOMAIN messages' : messages'[n] \in [to : Addressee, read : 0..moment]
    BY <2>1, <2>3 DEF InboxTypeOK
  <2>5. InboxTypeOK'
    BY <1>1, <2>1, <2>2, <2>4 DEF InboxTypeOK
  <2> QED
    BY <1>2, <2>5
<1>5. ASSUME NEW n \in DOMAIN messages, Cascade(n)
      PROVE  InboxInv'
  <2>1. /\ DOMAIN messages' = DOMAIN messages \ {n} /\ sent' = sent /\ moment' = moment
        /\ \A k \in DOMAIN messages \ {n} : messages'[k] = messages[k]
    BY <1>5 DEF Cascade
  <2>2. InboxTypeOK'
    BY <1>1, <2>1 DEF InboxTypeOK
  <2> QED
    BY <1>2, <2>2
<1>6. \A a \in Account \cup {Blank} : AppendMessage("account", a) => <<"account", a>> \in Addressee
  BY DEF AppendMessage, HasRecipient, Addressee
<1>7. \A o \in Office \cup {Blank} : AppendMessage("official", o) => <<"official", o>> \in Addressee
  BY DEF AppendMessage, HasRecipient, Addressee
<1> QED
  BY <1>3, <1>4, <1>5, <1>6, <1>7

LEMMA AccountsSound ==
    ASSUME InboxInv, NEW a \in Account, Login(a) \/ \E o \in Office : Bind(a, o)
    PROVE  InboxInv'
<1> USE DEF InboxInv
<1>1. CASE Login(a)
  <2>1. InboxTypeOK'
    BY <1>1 DEF Login, InboxTypeOK
  <2>2. TokensAreGiven' /\ OpenedIsAddressed' /\ PrivateToAddressee'
    BY <1>1 DEF Login, TokensAreGiven, OpenedIsAddressed, PrivateToAddressee, InboxTypeOK
  <2> QED
    BY <2>1, <2>2
<1>2. ASSUME NEW o \in Office, Bind(a, o)
      PROVE  InboxInv'
  <2>1. /\ bound[a] = Blank /\ bound' = [bound EXCEPT ![a] = o]
        /\ UNCHANGED <<messages, sent, token, opened, moment>>
    BY <1>2 DEF Bind
  <2>2. /\ bound' \in [Account -> Office \cup {Blank}]
        /\ \A b \in Account : bound[b] \in Office => bound'[b] = bound[b]
    BY <2>1, InboxAssumption DEF InboxTypeOK
  <2>3. InboxTypeOK'
    BY <2>1, <2>2 DEF InboxTypeOK
  <2>4. TokensAreGiven'
    BY <2>1, <2>2 DEF TokensAreGiven
  <2>5. OpenedIsAddressed'
    BY <2>1 DEF OpenedIsAddressed
  <2>6. PrivateToAddressee'
    <3> SUFFICES ASSUME NEW e \in opened, e[2][2] # <<"account", e[1]>>
                 PROVE  e[2][2] = <<"official", bound'[e[1]]>>
      BY <2>1 DEF PrivateToAddressee
    <3>1. e[1] \in Account /\ <<"official", bound[e[1]]>> \in Addressee
          /\ e[2][2] = <<"official", bound[e[1]]>>
      BY DEF PrivateToAddressee, OpenedIsAddressed
    <3>2. bound[e[1]] \in Office
      BY <3>1 DEF Addressee
    <3> QED
      BY <2>2, <3>1, <3>2
  <2> QED
    BY <2>3, <2>4, <2>5, <2>6
<1> QED
  BY <1>1, <1>2

\* Marking stamps rows that were unread, and changes no other.
Stamped ==
    /\ DOMAIN messages' = DOMAIN messages
    /\ \A n \in DOMAIN messages :
          /\ messages'[n] \in {messages[n], [to |-> messages[n].to, read |-> moment]}
          /\ messages[n].read # 0 => messages'[n] = messages[n]

LEMMA MarksStamp ==
    ASSUME InboxInv, NEW a \in Account, MarkAllRead(a) \/ \E n \in 1..MaxMessages : MarkRead(a, n)
    PROVE  Stamped
<1>1. \A n \in DOMAIN messages : messages[n] = [to |-> messages[n].to, read |-> messages[n].read]
  BY DEF InboxInv, InboxTypeOK
<1>2. CASE MarkAllRead(a)
  <2>1. DOMAIN messages' = DOMAIN messages
    BY <1>2 DEF MarkAllRead
  <2>2. ASSUME NEW n \in DOMAIN messages
        PROVE  /\ messages'[n] \in {messages[n], [to |-> messages[n].to, read |-> moment]}
               /\ messages[n].read # 0 => messages'[n] = messages[n]
    <3>1. messages'[n] = messages[n]
          \/ (messages[n].read = 0 /\ messages'[n] = [messages[n] EXCEPT !.read = moment])
      BY <1>2 DEF MarkAllRead
    <3>2. [messages[n] EXCEPT !.read = moment] = [to |-> messages[n].to, read |-> moment]
      BY <1>1
    <3> QED
      BY <3>1, <3>2
  <2> QED
    BY <2>1, <2>2 DEF Stamped
<1>3. ASSUME NEW k \in 1..MaxMessages, MarkRead(a, k)
      PROVE  Stamped
  <2>1. k \in DOMAIN messages /\ messages' = [messages EXCEPT ![k].read = FirstRead(k)]
    BY <1>3 DEF MarkRead, MayMark
  <2>2. /\ DOMAIN messages' = DOMAIN messages
        /\ messages'[k] = [messages[k] EXCEPT !.read = FirstRead(k)]
        /\ \A n \in DOMAIN messages \ {k} : messages'[n] = messages[n]
    BY <2>1
  <2>3. messages'[k] = [to |-> messages[k].to, read |-> FirstRead(k)]
    BY <1>1, <2>1, <2>2
  <2>4. messages[k].read # 0 => messages'[k] = messages[k]
    BY <1>1, <2>1, <2>3 DEF FirstRead
  <2>5. messages[k].read = 0 => messages'[k] = [to |-> messages[k].to, read |-> moment]
    BY <2>3 DEF FirstRead
  <2> QED
    BY <2>2, <2>4, <2>5 DEF Stamped
<1> QED
  BY <1>2, <1>3

LEMMA ReadingSound ==
    ASSUME InboxInv, NEW a \in Account,
           List(a) \/ MarkAllRead(a) \/ \E n \in 1..MaxMessages : MarkRead(a, n)
    PROVE  InboxInv'
<1> USE DEF InboxInv
<1>1. LoggedIn(a) /\ UNCHANGED <<bound, token, sent, moment>>
  BY DEF List, MarkAllRead, MarkRead
<1>2. \E S \in SUBSET Own(a) : opened' = opened \cup ({a} \X {<<n, messages[n].to>> : n \in S})
  <2>1. CASE List(a)
    BY <2>1 DEF List, Shown
  <2>2. CASE MarkAllRead(a)
    BY <2>2 DEF MarkAllRead
  <2>3. ASSUME NEW k \in 1..MaxMessages, MarkRead(a, k)
        PROVE  \E S \in SUBSET Own(a) :
                  opened' = opened \cup ({a} \X {<<n, messages[n].to>> : n \in S})
    <3>1. k \in Own(a)
      BY <2>3 DEF MarkRead, MayMark, Own, Mine
    <3>2. opened' = opened \cup ({a} \X {<<n, messages[n].to>> : n \in {k}})
      BY <2>3 DEF MarkRead
    <3>3. {k} \in SUBSET Own(a)
      BY <3>1
    <3> QED
      BY <3>2, <3>3
  <2> QED
    BY <2>1, <2>2, <2>3
<1>3. TokensAreGiven' /\ OpenedIsAddressed' /\ PrivateToAddressee'
  BY <1>1, <1>2, OpeningSound
<1>4. InboxTypeOK'
  <2>1. CASE List(a)
    BY <1>1, <2>1 DEF List, InboxTypeOK
  <2>2. CASE MarkAllRead(a) \/ \E n \in 1..MaxMessages : MarkRead(a, n)
    <3>1. Stamped /\ moment \in 1..MaxMoment
      BY <2>2, MarksStamp DEF InboxTypeOK
    <3>2. \A n \in DOMAIN messages : [to |-> messages[n].to, read |-> moment] \in [to : Addressee, read : 0..moment]
      BY <3>1, InboxAssumption DEF InboxTypeOK
    <3> QED
      BY <1>1, <3>1, <3>2 DEF Stamped, InboxTypeOK
  <2> QED
    BY <2>1, <2>2
<1> QED
  BY <1>3, <1>4

LEMMA InboxStepSound == InboxInv /\ [InboxNext]_inbox => InboxInv'
<1> SUFFICES ASSUME InboxInv, [InboxNext]_inbox PROVE InboxInv'
  OBVIOUS
<1>1. CASE UNCHANGED inbox
  BY <1>1 DEF inbox, InboxInv, InboxTypeOK, TokensAreGiven, OpenedIsAddressed, PrivateToAddressee
<1>2. CASE InboxNext
  BY <1>2, RowsSound, AccountsSound, ReadingSound DEF InboxNext
<1> QED
  BY <1>1, <1>2

\* notification_repo.go:26-86: whatever is sent, bound, listed and marked in whatever order
\* and by tokens however old, nobody is shown or marks a message addressed to another, and
\* the badge, the list and the marking are about one set.
THEOREM Privacy == InboxSpec => []InboxIsPrivate
<1>1. InboxSpec => []InboxInv
  BY InboxInitSound, InboxStepSound, PTL DEF InboxSpec
<1>2. InboxInv => InboxIsPrivate
  BY BadgeIsTrue DEF InboxInv, InboxIsPrivate
<1> QED
  BY <1>1, <1>2, PTL

\* notification_repo.go:108: no second reading and no "mark all" moves a read_at.
THEOREM FirstReadingStands == InboxSpec => ReadStaysRead
<1>1. ASSUME InboxInv, [InboxNext]_inbox
      PROVE  [\A n \in (DOMAIN messages) \cap (DOMAIN messages)' :
                 messages[n].read # 0 => messages'[n].read = messages[n].read]_inbox
  <2>1. CASE \E a \in Account : MarkAllRead(a) \/ \E n \in 1..MaxMessages : MarkRead(a, n)
    BY <1>1, <2>1, MarksStamp DEF Stamped
  <2>2. CASE \E n \in DOMAIN messages : Cascade(n)
    BY <2>2 DEF Cascade
  <2>3. ASSUME NEW kind, NEW id, AppendMessage(kind, id)
        PROVE  \A n \in DOMAIN messages : messages'[n] = messages[n]
    <3>1. sent + 1 \notin DOMAIN messages
      BY <1>1, InboxAssumption DEF InboxInv, InboxTypeOK
    <3> QED
      BY <2>3, <3>1 DEF AppendMessage
  <2>4. CASE UNCHANGED messages
    BY <2>4
  <2> QED
    BY <1>1, <2>1, <2>2, <2>3, <2>4 DEF inbox, InboxNext, Pass, Login, Bind, List
<1>2. InboxSpec => []InboxInv
  BY InboxInitSound, InboxStepSound, PTL DEF InboxSpec
<1> QED
  BY <1>1, <1>2, PTL DEF InboxSpec, ReadStaysRead

-----------------------------------------------------------------------------
(* Views. *)

\* Who may be told of a report as it was in that status.
MayKnow(v, s) == s = "PendingApproval" => MayViewPending(v)

\* A page under way is for a reader who passed the gate in the status it holds.
GateWasPassed == \A r \in Reader : Reading(r, "page") => MayKnow(reader[r].by, reader[r].as)

ViewsInv == ViewsTypeOK /\ NothingPendingShown /\ PowerIsSeen /\ GateWasPassed

-----------------------------------------------------------------------------
(* The gates. *)

\* The lists agree with the gate in every state, and need no history.
LEMMA ListsAgree == ASSUME ViewsTypeOK PROVE ShownIsOpenable
<1>1. InFeed => Found /\ PubliclyVisible(standing)
  BY DEF InFeed, Filter, PublicStatuses, PubliclyVisible, Found, Statuses
<1>2. InFeed => \A v \in Viewer \cup {Anonymous} : MayGet(v)
  BY <1>1 DEF MayGet
<1>3. ASSUME NEW v \in Viewer \cup {Anonymous}, InMine(v) PROVE MayGet(v)
  <2>1. v \in Viewer
    BY <1>3, ViewsAssumption DEF InMine
  <2> QED
    BY <1>3, <2>1 DEF InMine, MayGet, MayViewPending, PubliclyVisible, Found
<1>4. ASSUME NEW v, InModeration(v) PROVE MayGet(v)
  BY <1>4 DEF InModeration, MayGet, MayViewPending, UnionAdmin, Found, Statuses
<1>5. \A v \in Viewer : standing = "PendingApproval" => (InModeration(v) <=> UnionAdmin(v))
  BY DEF InModeration, UnionAdmin
<1> QED
  BY <1>2, <1>3, <1>4, <1>5 DEF ShownIsOpenable

\* A row a gate let through is one its reader may know of.
LEMMA GateTells == ASSUME NEW v, MayGet(v) PROVE standing \in Statuses /\ MayKnow(v, standing)
  BY DEF MayGet, MayKnow, Found, PubliclyVisible

\* A look at what one may know breaks no secret.
LEMMA KnownMayBeShown ==
    ASSUME NEW v, NEW s, MayKnow(v, s), seen' = <<v, s>>
    PROVE  NothingPendingShown'
  BY DEF NothingPendingShown, MayKnow, MayViewPending, UnionAdmin

-----------------------------------------------------------------------------
(* The steps. *)

LEMMA ViewsInitSound == ViewsInit => ViewsInv
<1> SUFFICES ASSUME ViewsInit PROVE ViewsInv
  OBVIOUS
<1> USE DEF ViewsInit
<1>1. ViewsTypeOK
  BY DEF ViewsTypeOK, Statuses, AdminActions, Unweighed
<1>2. NothingPendingShown
  BY DEF NothingPendingShown, Unseen
<1>3. PowerIsSeen
  BY DEF PowerIsSeen, InActivityFeed, InOversightFeed, PublicActions, AdminActions
<1>4. GateWasPassed
  BY DEF GateWasPassed, Reading, Away
<1> QED
  BY <1>1, <1>2, <1>3, <1>4 DEF ViewsInv

\* Whoever decides or lives moves the report and its newest entry, and shows nothing.
LEMMA EntrySound ==
    ASSUME ViewsInv, UNCHANGED <<seen, reader>>, standing' \in Statuses \cup {"erased"},
           NEW a, NEW on, entry' = [action |-> a, on |-> on],
           \/ on = "report" /\ a \in PublicActions
           \/ on = "person" /\ a \in AdminActions \ PublicActions
           \/ on = "nothing" /\ a \in Unweighed
    PROVE  ViewsInv'
<1>1. /\ a \in AdminActions \cup Unweighed
      /\ on = "report" <=> a \in PublicActions
      /\ on # "nothing" <=> a \in AdminActions
  BY DEF PublicActions, AdminActions, Unweighed
<1>2. ViewsTypeOK'
  BY <1>1 DEF ViewsInv, ViewsTypeOK
<1>3. PowerIsSeen'
  BY <1>1 DEF PowerIsSeen, InActivityFeed, InOversightFeed
<1>4. NothingPendingShown' /\ GateWasPassed'
  BY DEF ViewsInv, NothingPendingShown, GateWasPassed, Reading, MayKnow, MayViewPending
<1> QED
  BY <1>2, <1>3, <1>4 DEF ViewsInv

LEMMA DecideSound ==
    ASSUME ViewsInv, NEW from, NEW to \in Statuses, NEW a \in PublicActions, Decide(from, to, a)
    PROVE  ViewsInv'
  BY EntrySound DEF Decide, Writes

LEMMA DecisionsSound ==
    ASSUME ViewsInv, Approve \/ Reject \/ Advise \/ AssignTo \/ Adjudicate
    PROVE  ViewsInv'
<1>1. /\ {"approved", "rejected", "forwarding_suggested", "assigned", "assignment_overridden",
          "blocker_confirmed", "blocker_denied"} \subseteq PublicActions
      /\ Statuses \cap {"Reported", "Rejected", "Assigned", "InProgress"}
            = {"Reported", "Rejected", "Assigned", "InProgress"}
  BY DEF PublicActions, Statuses
<1>2. CASE Approve
  BY <1>1, <1>2, DecideSound DEF Approve
<1>3. CASE Reject
  BY <1>1, <1>3, DecideSound DEF Reject
<1>4. CASE Advise
  <2>1. PICK s \in Before : Decide({s}, s, "forwarding_suggested")
    BY <1>4 DEF Advise
  <2>2. s \in Statuses
    BY DEF Before, Statuses
  <2> QED
    BY <1>1, <2>1, <2>2, DecideSound
<1>5. CASE AssignTo
  <2>1. PICK a \in {"assigned", "assignment_overridden"} : Decide(Before, "Assigned", a)
    BY <1>5 DEF AssignTo
  <2> QED
    BY <1>1, <2>1, DecideSound
<1>6. CASE Adjudicate
  <2>1. CASE Decide({"InProgress", "Blocked", "Reopened"}, "InProgress", "blocker_denied")
    BY <1>1, <2>1, DecideSound
  <2>2. CASE \E s \in {"InProgress", "Blocked", "Done", "Resolved", "Reopened"} :
                Decide({s}, s, "blocker_confirmed")
    <3>1. PICK s \in {"InProgress", "Blocked", "Done", "Resolved", "Reopened"} :
                Decide({s}, s, "blocker_confirmed")
      BY <2>2
    <3>2. s \in Statuses
      BY DEF Statuses
    <3> QED
      BY <1>1, <3>1, <3>2, DecideSound
  <2> QED
    BY <1>6, <2>1, <2>2 DEF Adjudicate
<1> QED
  BY <1>2, <1>3, <1>4, <1>5, <1>6

LEMMA OthersSound ==
    ASSUME ViewsInv, OnPeople \/ Live \/ EraseReport
    PROVE  ViewsInv'
<1>1. CASE OnPeople
  <2>1. PICK a \in {"verified", "claim_approved", "claim_rejected"} : Writes(a, "person")
    BY <1>1 DEF OnPeople
  <2>2. a \in AdminActions \ PublicActions
    BY DEF AdminActions, PublicActions
  <2>3. standing' \in Statuses \cup {"erased"} /\ UNCHANGED <<seen, reader>>
    BY <1>1 DEF OnPeople, ViewsInv, ViewsTypeOK
  <2> QED
    BY <2>1, <2>2, <2>3, EntrySound DEF Writes
<1>2. CASE Live
  <2>1. standing' \in Statuses /\ UNCHANGED <<seen, reader>>
    BY <1>2 DEF Live
  <2> QED
    BY <1>2, <2>1, EntrySound DEF Live, Writes, Unweighed
<1>3. CASE EraseReport
  <2>1. standing' \in Statuses \cup {"erased"} /\ UNCHANGED <<seen, reader>>
    BY <1>3 DEF EraseReport
  <2>2. CASE entry.on = "person"
    <3>1. entry' = [action |-> entry.action, on |-> "person"]
      BY <1>3, <2>2 DEF EraseReport, ViewsInv, ViewsTypeOK
    <3>2. entry.action \in AdminActions \ PublicActions
      BY <2>2 DEF ViewsInv, PowerIsSeen, InActivityFeed, InOversightFeed
    <3> QED
      BY <2>1, <3>1, <3>2, EntrySound
  <2>3. CASE entry.on # "person"
    <3>1. entry' = [action |-> "none", on |-> "nothing"]
      BY <1>3, <2>3 DEF EraseReport
    <3> QED
      BY <2>1, <3>1, EntrySound DEF Unweighed
  <2> QED
    BY <2>2, <2>3
<1> QED
  BY <1>1, <1>2, <1>3

\* A list shows its reader what the gate would have let them open.
LEMMA ReadListsSound ==
    ASSUME ViewsInv, NEW v \in Viewer \cup {Anonymous}, ReadLists(v)
    PROVE  ViewsInv'
<1>1. /\ Shows(v)
      /\ InFeed \/ InMine(v) \/ InModeration(v) \/ standing \in PublicStatuses
  BY DEF ReadLists, Counted
<1>2. InFeed \/ InMine(v) \/ InModeration(v) => MayGet(v)
  BY ListsAgree DEF ViewsInv, ShownIsOpenable
<1>3. standing \in PublicStatuses => MayGet(v)
  BY DEF MayGet, Found, PubliclyVisible, PublicStatuses
<1>4. standing \in Statuses /\ MayKnow(v, standing)
  BY <1>1, <1>2, <1>3, GateTells
<1>5. UNCHANGED <<standing, entry, reader>>
  BY DEF ReadLists
<1>6. seen' = <<v, standing>>
  BY <1>1 DEF Shows
<1>7. NothingPendingShown'
  BY <1>4, <1>6, KnownMayBeShown
<1>8. ViewsTypeOK'
  BY <1>4, <1>5, <1>6 DEF ViewsInv, ViewsTypeOK
<1>9. PowerIsSeen' /\ GateWasPassed'
  BY <1>5 DEF ViewsInv, PowerIsSeen, InActivityFeed, InOversightFeed,
              GateWasPassed, Reading, MayKnow, MayViewPending
<1> QED
  BY <1>7, <1>8, <1>9 DEF ViewsInv

\* The first query of a read: the page's is gated.
LEMMA FirstQuerySound ==
    ASSUME ViewsInv, NEW r \in Reader, NEW v \in Viewer \cup {Anonymous}, Get(r, v) \/ Activity(r, v)
    PROVE  ViewsInv'
<1>1. UNCHANGED <<standing, entry, seen>>
  BY DEF Get, Activity
<1>2. PICK h : /\ To(r, h)
               /\ \/ h = [pc |-> "page", by |-> v, as |-> standing] /\ MayGet(v)
                  \/ h = [pc |-> "titles", by |-> v]
  BY DEF Get, Activity
<1>3. MayGet(v) => standing \in Statuses /\ MayKnow(v, standing)
  BY GateTells
<1>4. reader' = [reader EXCEPT ![r] = h]
  BY <1>2 DEF To
<1>5. ViewsTypeOK'
  BY <1>1, <1>2, <1>3, <1>4 DEF ViewsInv, ViewsTypeOK
<1>6. GateWasPassed'
  <2> SUFFICES ASSUME NEW x \in Reader, Reading(x, "page")'
               PROVE  MayKnow(reader'[x].by, reader'[x].as)
    BY DEF GateWasPassed, MayKnow, MayViewPending
  <2>1. reader \in [Reader -> {Away}
            \cup [pc : {"page"}, by : Viewer \cup {Anonymous}, as : Statuses]
            \cup [pc : {"titles"}, by : Viewer \cup {Anonymous}]]
    BY DEF ViewsInv, ViewsTypeOK
  <2>2. CASE x = r
    BY <1>2, <1>3, <1>4, <2>1, <2>2 DEF Reading
  <2>3. CASE x # r
    BY <1>4, <2>1, <2>3 DEF ViewsInv, GateWasPassed, Reading
  <2> QED
    BY <2>2, <2>3
<1>7. NothingPendingShown' /\ PowerIsSeen'
  BY <1>1 DEF ViewsInv, NothingPendingShown, PowerIsSeen, InActivityFeed, InOversightFeed
<1> QED
  BY <1>5, <1>6, <1>7 DEF ViewsInv

\* The last query of a read, after whatever was decided or erased since the first.
LEMMA LastQuerySound ==
    ASSUME ViewsInv, NEW r \in Reader, Page(r) \/ Titles(r)
    PROVE  ViewsInv'
<1>1. /\ UNCHANGED <<standing, entry>>
      /\ reader' = [reader EXCEPT ![r] = Away]
  BY DEF Page, Titles, To
<1>2. /\ reader[r].pc = "page" => reader[r].by \in Viewer \cup {Anonymous} /\ reader[r].as \in Statuses
      /\ reader[r].pc = "titles" => reader[r].by \in Viewer \cup {Anonymous}
  BY DEF ViewsInv, ViewsTypeOK, Away
<1>3. CASE seen' = seen
  <2>1. ViewsTypeOK'
    BY <1>1, <1>3 DEF ViewsInv, ViewsTypeOK
  <2> QED
    BY <1>1, <1>3, <2>1 DEF ViewsInv, ViewsTypeOK, NothingPendingShown, PowerIsSeen, InActivityFeed,
            InOversightFeed, GateWasPassed, Reading, Away, MayKnow, MayViewPending
<1>4. CASE seen' # seen
  <2>1. PICK v \in Viewer \cup {Anonymous}, s \in Statuses :
            seen' = <<v, s>> /\ MayKnow(v, s)
    <3>1. CASE Page(r)
      BY <1>2, <3>1 DEF Page, Reading, ViewsInv, GateWasPassed
    <3>2. CASE Titles(r)
      BY <1>2, <1>4, <3>2 DEF Titles, Reading, Shows, PublicStatuses, MayKnow
    <3> QED
      BY <3>1, <3>2
  <2>2. NothingPendingShown'
    BY <2>1, KnownMayBeShown
  <2>3. ViewsTypeOK'
    BY <1>1, <2>1 DEF ViewsInv, ViewsTypeOK
  <2>4. PowerIsSeen'
    BY <1>1 DEF ViewsInv, PowerIsSeen, InActivityFeed, InOversightFeed
  <2>5. GateWasPassed'
    BY <1>1 DEF ViewsInv, ViewsTypeOK, GateWasPassed, Reading, Away, MayKnow, MayViewPending
  <2> QED
    BY <2>2, <2>3, <2>4, <2>5 DEF ViewsInv
<1> QED
  BY <1>3, <1>4

LEMMA ViewsStepSound == ViewsInv /\ [ViewsNext]_views => ViewsInv'
<1> SUFFICES ASSUME ViewsInv, [ViewsNext]_views PROVE ViewsInv'
  OBVIOUS
<1>1. CASE UNCHANGED views
  BY <1>1 DEF views, ViewsInv, ViewsTypeOK, NothingPendingShown, PowerIsSeen, InActivityFeed,
              InOversightFeed, GateWasPassed, Reading, MayKnow, MayViewPending
<1>2. CASE ViewsNext
  BY <1>2, DecisionsSound, OthersSound, ReadListsSound, FirstQuerySound, LastQuerySound DEF ViewsNext
<1> QED
  BY <1>1, <1>2

-----------------------------------------------------------------------------

\* get_problem.go:44, status.go:58, list_activity.go:16: whatever is decided or erased
\* between the queries of any number of reads, a pending report is shown to its reporter and
\* its union's admin alone, a list shows nothing that cannot be opened, and no decision on a
\* report is missing from the public feed.
THEOREM Visibility == ViewsSpec => []ShownToItsOwn
<1>1. ViewsSpec => []ViewsInv
  BY ViewsInitSound, ViewsStepSound, PTL DEF ViewsSpec
<1>2. ViewsInv => ShownToItsOwn
  BY ListsAgree DEF ViewsInv, ShownToItsOwn
<1> QED
  BY <1>1, <1>2, PTL
=============================================================================
