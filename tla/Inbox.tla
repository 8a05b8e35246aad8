--------------------------------- MODULE Inbox ---------------------------------
(***************************************************************************)
(* The caller's own messages (internal/shared/notification): appending, the list,  *)
(* the badge, marking one and marking all.  A message is addressed to an account or  *)
(* to a directory office; a caller answers to their account and to the office their  *)
(* token carries, which is the one bound when they logged in.  Each use case is one   *)
(* SQL statement.                                                             *)
(***************************************************************************)
EXTENDS Naturals, FiniteSets

CONSTANTS
    Account, Office,
    MaxMessages,    \* messages ever sent
    MaxMoment,      \* moments told apart: bounds now()
    Limit           \* maxLimit of the list

Blank == ""         \* an empty id: no office, or nobody to tell

\* Ids are drawn at random: no office has the empty one, or the mark of a caller who never
\* logged in.
ASSUME InboxAssumption ==
    /\ Blank \notin Office /\ "none" \notin Office
    /\ MaxMessages \in Nat /\ MaxMoment \in Nat \ {0} /\ Limit \in Nat

Addressee == ({"account"} \X Account) \cup ({"official"} \X Office)

VARIABLES
    messages,   \* notifications by order of (created_at, id): to, read_at or 0
    sent,       \* how many were stored
    bound,      \* accounts.official_id
    token,      \* the office a caller's token carries; "none" before login
    opened,     \* who was shown or marked which message, for the properties
    moment      \* now()

inbox == <<messages, sent, bound, token, opened, moment>>

InboxInit ==
    /\ messages = <<>>
    /\ sent = 0
    /\ bound = [a \in Account |-> Blank]
    /\ token = [a \in Account |-> "none"]
    /\ opened = {}
    /\ moment = 1

-----------------------------------------------------------------------------
(* The queries.  Bug... operators stand for no code: each is a plausible slip in the  *)
(* definition after it.                                                         *)

LoggedIn(a) == token[a] # "none"

\* recipientPredicate, the list's: the pair, and no empty half.
Mine(a, to) == to = <<"account", a>> \/ (token[a] # Blank /\ to = <<"official", token[a]>>)
Own(a) == {n \in DOMAIN messages : Mine(a, messages[n].to)}

\* ListForRecipient: the newest, up to the limit.
Shown(a) == {n \in Own(a) : Cardinality({k \in Own(a) : k > n}) < Limit}

\* CountUnread.
BugCountsTheAccountOnly(a) ==
    Cardinality({n \in DOMAIN messages : messages[n].to = <<"account", a>> /\ messages[n].read = 0})
CountUnread(a) == Cardinality({n \in Own(a) : messages[n].read = 0})

\* MarkRead's own copy of the predicate.
BugMarksAnyId(a, n) == n \in DOMAIN messages
MayMark(a, n) ==
    /\ n \in DOMAIN messages
    /\ \/ messages[n].to = <<"account", a>>
       \/ token[a] # Blank /\ messages[n].to = <<"official", token[a]>>

BugStampsAgain(n) == moment
\* COALESCE(read_at, now()).
FirstRead(n) == IF messages[n].read = 0 THEN moment ELSE messages[n].read

-----------------------------------------------------------------------------
(* The operations. *)

BugTellsNobody(id) == TRUE
HasRecipient(id) == id # Blank

\* Append: ForResident and ForOfficial name the id space, and an empty id is refused.
AppendMessage(kind, id) ==
    /\ sent < MaxMessages
    /\ HasRecipient(id)
    /\ sent' = sent + 1
    /\ messages' = [n \in DOMAIN messages \cup {sent + 1} |->
            IF n = sent + 1 THEN [to |-> <<kind, id>>, read |-> 0] ELSE messages[n]]
    /\ UNCHANGED <<bound, token, opened, moment>>

\* A hard deleted report takes the messages about it along.
Cascade(n) ==
    /\ messages' = [k \in DOMAIN messages \ {n} |-> messages[k]]
    /\ UNCHANGED <<sent, bound, token, opened, moment>>

\* An approved claim binds the office for good (Office); the token learns of it at login.
Bind(a, o) ==
    /\ bound[a] = Blank /\ \A b \in Account : bound[b] # o
    /\ bound' = [bound EXCEPT ![a] = o]
    /\ UNCHANGED <<messages, sent, token, opened, moment>>

Login(a) ==
    /\ token' = [token EXCEPT ![a] = bound[a]]
    /\ UNCHANGED <<messages, sent, bound, opened, moment>>

List(a) ==
    /\ LoggedIn(a)
    /\ opened' = opened \cup ({a} \X {<<n, messages[n].to>> : n \in Shown(a)})
    /\ UNCHANGED <<messages, sent, bound, token, moment>>

\* Any id may be asked for; somebody else's matches no row.
MarkRead(a, n) ==
    /\ LoggedIn(a) /\ MayMark(a, n)
    /\ messages' = [messages EXCEPT ![n].read = FirstRead(n)]
    /\ opened' = opened \cup {<<a, <<n, messages[n].to>>>>}
    /\ UNCHANGED <<sent, bound, token, moment>>

\* MarkAllRead: only the unread, those never listed too.
MarkAllRead(a) ==
    /\ LoggedIn(a)
    /\ messages' = [n \in DOMAIN messages |->
            IF n \in Own(a) /\ messages[n].read = 0
            THEN [messages[n] EXCEPT !.read = moment] ELSE messages[n]]
    /\ opened' = opened \cup ({a} \X {<<n, messages[n].to>> : n \in Own(a)})
    /\ UNCHANGED <<sent, bound, token, moment>>

Pass ==
    /\ moment < MaxMoment /\ moment' = moment + 1
    /\ UNCHANGED <<messages, sent, bound, token, opened>>

InboxNext ==
    \/ Pass
    \/ \E a \in Account \cup {Blank} : AppendMessage("account", a)
    \/ \E o \in Office \cup {Blank} : AppendMessage("official", o)
    \/ \E n \in DOMAIN messages : Cascade(n)
    \/ \E a \in Account :
        \/ Login(a) \/ List(a) \/ MarkAllRead(a)
        \/ \E o \in Office : Bind(a, o)
        \/ \E n \in 1..MaxMessages : MarkRead(a, n)

InboxSpec == InboxInit /\ [][InboxNext]_inbox

-----------------------------------------------------------------------------
(* Properties. *)

\* Every message is addressed to somebody: the blank row, which every caller without an
\* office would match, is never stored.
InboxTypeOK ==
    /\ sent \in 0..MaxMessages /\ moment \in 1..MaxMoment
    /\ DOMAIN messages \subseteq 1..sent
    /\ \A n \in DOMAIN messages : messages[n] \in [to : Addressee, read : 0..moment]
    /\ bound \in [Account -> Office \cup {Blank}]
    /\ token \in [Account -> Office \cup {Blank, "none"}]

\* notification_repo.go:26-38, mark_read.go: nobody is shown a message, or marks one,
\* that is not addressed to their account or to an office that is theirs, however old
\* their token and whatever id they ask for.
PrivateToAddressee ==
    \A e \in opened : e[2][2] = <<"account", e[1]>> \/ e[2][2] = <<"official", bound[e[1]]>>

\* notification.go: read_at says when a message was first read; no second tap, and no
\* "mark all", moves it or takes it back.
ReadStaysRead ==
    [][\A n \in (DOMAIN messages) \cap (DOMAIN messages)' :
        messages[n].read # 0 => messages'[n].read = messages[n].read]_inbox

\* unread_count.go: the badge and the list are two queries over one set: they agree
\* until the list is full, and what the list shows can be marked.
BadgeAgrees ==
    \A a \in Account : LoggedIn(a) =>
        LET unread == {n \in Shown(a) : messages[n].read = 0} IN
        /\ CountUnread(a) >= Cardinality(unread)
        /\ Cardinality(Shown(a)) < Limit => CountUnread(a) = Cardinality(unread)
        /\ \A n \in Shown(a) : MayMark(a, n)

\* Everybody's messages are theirs alone, and are counted once (notification_repo.go:26).
InboxIsPrivate == InboxTypeOK /\ PrivateToAddressee /\ BadgeAgrees
=============================================================================
