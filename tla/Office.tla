--------------------------------- MODULE Office ---------------------------------
(***************************************************************************)
(* How an account comes to act as an official or a verified resident:         *)
(* registration, the claim on a directory office, its review, the union       *)
(* admin's verification of residents, and the tokens that carry the result.   *)
(*                                                                           *)
(* Every statement is an action of its own, so requests interleave between    *)
(* any two and may end at any one (an error, a lost connection, a stopped     *)
(* process): the use cases run in no transaction.  An account is named by its *)
(* phone, which accounts.phone keeps unique, and a claim by the account that  *)
(* filed it.  Admins and the super admin are seeded and never change, so they *)
(* are constants; what they may reach is theirs to use at any moment.         *)
(***************************************************************************)
EXTENDS FiniteSets

CONSTANTS
    Phone, Seeded,          \* phones; those whose official a migration seeded
    Office, SeedOffice,     \* directory offices; the seeded officials' own
    UnionOffice, UnionOf,   \* those of union tier, and the union of each
    Union,
    Admin, AdminUnion,      \* union admins, and the union AdminUnion resolves
    SuperAdmin,
    Request,                \* requests that may be under way at once
    None

ASSUME OfficeAssumption ==
    /\ Seeded \subseteq Phone /\ SeedOffice \in [Seeded -> Office]
    /\ \A p, q \in Seeded : SeedOffice[p] = SeedOffice[q] => p = q
    /\ UnionOffice \subseteq Office /\ UnionOf \in [UnionOffice -> Union]
    /\ AdminUnion \in [Admin -> Union \cup {None}]      \* None: not resolved
    /\ Admin \cap SuperAdmin = {}
    /\ None \notin Office /\ None \notin Union

Idle == [pc |-> "idle"]

VARIABLES
    account,    \* accounts, by phone
    claim,      \* official_claims, by account
    token,      \* tokens handed out; they outlive what they were issued from
    trail,      \* audit_entries about people
    request     \* requests under way

vars == <<account, claim, token, trail, request>>

NoAccount == [role |-> "none", union |-> None, office |-> None, verified |-> FALSE]
NoClaim == [office |-> None, status |-> "none", by |-> None]
Reviewer == Admin \cup SuperAdmin

\* Migrations 000005 and 000014: a seeded official holds an approved claim.
Init ==
    /\ account = [p \in Phone |-> IF p \in Seeded
                    THEN [role |-> "official", union |-> None,
                          office |-> SeedOffice[p], verified |-> TRUE]
                    ELSE NoAccount]
    /\ claim = [p \in Phone |-> IF p \in Seeded
                    THEN [office |-> SeedOffice[p], status |-> "Approved", by |-> None]
                    ELSE NoClaim]
    /\ token = {}
    /\ trail = {}
    /\ request = [r \in Request |-> Idle]

At(r, pc) == request[r].pc = pc
Goto(r, h) == request' = [request EXCEPT ![r] = h]

\* Operators named Bug... stand for no code: each is a plausible slip in the
\* definition after it, kept to confirm that the stated properties notice it.

-----------------------------------------------------------------------------
(* Registration. *)

\* Both Executes up to GetByPhone; an official names an office of the directory.
CheckPhone(r, p, h) ==
    /\ At(r, "idle")
    /\ account[p].role = "none"
    /\ Goto(r, h)
    /\ UNCHANGED <<account, claim, token, trail>>

Register(r, p) ==
    \/ \E u \in Union : CheckPhone(r, p, [pc |-> "create", who |-> p,
            row |-> [NoAccount EXCEPT !.role = "resident", !.union = u], seeks |-> None])
    \/ \E o \in Office : CheckPhone(r, p, [pc |-> "create", who |-> p,
            row |-> [NoAccount EXCEPT !.role = "official"], seeks |-> o])

\* AccountRepository.Create: the UNIQUE phone refuses the second of two registrations.
BugUpsertsAccount(p) == TRUE
PhoneFree(p) == account[p].role = "none"

Create(r) ==
    LET h == request[r] IN
    /\ At(r, "create")
    /\ \/ /\ PhoneFree(h.who)
          /\ account' = [account EXCEPT ![h.who] = h.row]
          /\ Goto(r, IF h.row.role = "official"
                     THEN [pc |-> "file", who |-> h.who, seeks |-> h.seeks]
                     ELSE [pc |-> "greet", who |-> h.who, entry |-> "registered"])
       \/ ~ PhoneFree(h.who) /\ Goto(r, Idle) /\ UNCHANGED account
    /\ UNCHANGED <<claim, token, trail>>

\* ClaimRepository.Create; UNIQUE (account_id) is met by an account just made.
File(r) ==
    LET h == request[r] IN
    /\ At(r, "file")
    /\ claim' = [claim EXCEPT ![h.who] =
                    [office |-> h.seeks, status |-> "Pending", by |-> None]]
    /\ Goto(r, [pc |-> "greet", who |-> h.who, entry |-> "claim_filed"])
    /\ UNCHANGED <<account, token, trail>>

\* Issue, from the row as it was made, and the entry, whose error is discarded.
Token(p, row) == [who |-> p, role |-> row.role, office |-> row.office]

Greet(r) ==
    LET h == request[r]
        role == IF h.entry = "claim_filed" THEN "official" ELSE "resident" IN
    /\ At(r, "greet")
    /\ token' = token \cup {[who |-> h.who, role |-> role, office |-> None]}
    /\ trail' \in {trail, trail \cup {<<h.entry, h.who>>}}
    /\ Goto(r, Idle)
    /\ UNCHANGED <<account, claim>>

\* One SELECT; Authenticate and Issue compute on the row it returned.
BugLogsInAnyone(p) == TRUE
Known(p) == account[p].role # "none"

Login(p) ==
    /\ Known(p)
    /\ token' = token \cup {Token(p, account[p])}
    /\ UNCHANGED <<account, claim, trail, request>>

-----------------------------------------------------------------------------
(* Review. *)

\* RouteClaim and mayDecide: by the office's tier, never by the caller's rank.
MayDecide(v, o) ==
    IF o \in UnionOffice THEN v \in Admin /\ AdminUnion[v] = UnionOf[o]
                         ELSE v \in SuperAdmin

\* load and DecideClaim, on the claim as read; a refusal carries its reason.
LoadClaim(r, v, p, to) ==
    /\ At(r, "idle")
    /\ claim[p].status = "Pending"
    /\ MayDecide(v, claim[p].office)
    /\ Goto(r, [pc |-> "decide", who |-> p, seeks |-> claim[p].office, by |-> v, to |-> to])
    /\ UNCHANGED <<account, claim, token, trail>>

\* uq_official_claims_approved, checked by the statement that would break it.
BugNoIndex(o) == FALSE
Taken(o) == \E q \in Phone : claim[q].office = o /\ claim[q].status = "Approved"

\* Decide's WHERE status = 'Pending'.
BugDecidesAgain(p) == claim[p].office # None
StillPending(p) == claim[p].status = "Pending"

\* After an approval the office is put on the account, then the flag.
BugVouchesFirst(h) == [pc |-> "verify", who |-> h.who, entry |-> "claim_approved"]
AfterApproval(h) == [pc |-> "bind", who |-> h.who, seeks |-> h.seeks]

Decide(r) ==
    LET h == request[r] IN
    /\ At(r, "decide")
    /\ \/ /\ StillPending(h.who)
          /\ h.to = "Approved" => ~ Taken(h.seeks)
          /\ claim' = [claim EXCEPT ![h.who].status = h.to, ![h.who].by = h.by]
          /\ Goto(r, IF h.to = "Approved" THEN AfterApproval(h)
                     ELSE [pc |-> "note", who |-> h.who, entry |-> "claim_rejected"])
       \/ /\ ~ StillPending(h.who) \/ (h.to = "Approved" /\ Taken(h.seeks))
          /\ Goto(r, Idle)
          /\ UNCHANGED claim
    /\ UNCHANGED <<account, token, trail>>

Bind(r) ==
    LET h == request[r] IN
    /\ At(r, "bind")
    /\ account' = [account EXCEPT ![h.who].office = h.seeks]
    /\ Goto(r, [pc |-> "verify", who |-> h.who, entry |-> "claim_approved"])
    /\ UNCHANGED <<claim, token, trail>>

\* VerifyResident.Execute up to its write: a resident of the admin's own union.
BugVerifiesAnyone(v, p) == account[p].role # "none" /\ AdminUnion[v] # None
OwnResident(v, p) ==
    /\ account[p].role = "resident"
    /\ AdminUnion[v] # None
    /\ account[p].union = AdminUnion[v]

LoadResident(r, v, p) ==
    /\ At(r, "idle")
    /\ OwnResident(v, p)
    /\ ~ account[p].verified
    /\ Goto(r, [pc |-> "verify", who |-> p, entry |-> "verified"])
    /\ UNCHANGED <<account, claim, token, trail>>

\* AccountRepository.SetVerified, for a resident or for an approved claimant.
Verify(r) ==
    LET h == request[r] IN
    /\ At(r, "verify")
    /\ account' = [account EXCEPT ![h.who].verified = TRUE]
    /\ Goto(r, [pc |-> "note", who |-> h.who, entry |-> h.entry])
    /\ UNCHANGED <<claim, token, trail>>

\* The entry of a decision or of a verification, last and best effort.
Note(r) ==
    LET h == request[r] IN
    /\ At(r, "note")
    /\ trail' \in {trail, trail \cup {<<h.entry, h.who>>}}
    /\ Goto(r, Idle)
    /\ UNCHANGED <<account, claim, token>>

\* The request ends between two statements and nothing takes it up again.
Fail(r) ==
    /\ ~ At(r, "idle")
    /\ Goto(r, Idle)
    /\ UNCHANGED <<account, claim, token, trail>>

Next ==
    \/ \E p \in Phone : Login(p)
    \/ \E r \in Request :
        \/ \E p \in Phone : Register(r, p)
        \/ Create(r) \/ File(r) \/ Greet(r)
        \/ \E v \in Reviewer, p \in Phone, to \in {"Approved", "Rejected"} : LoadClaim(r, v, p, to)
        \/ Decide(r) \/ Bind(r)
        \/ \E v \in Admin, p \in Phone : LoadResident(r, v, p)
        \/ Verify(r) \/ Note(r) \/ Fail(r)

Spec == Init /\ [][Next]_vars

-----------------------------------------------------------------------------
(* Properties. *)

Account == [role : {"none", "resident", "official"}, union : Union \cup {None},
            office : Office \cup {None}, verified : BOOLEAN]
Claim == [office : Office \cup {None}, status : {"none", "Pending", "Approved", "Rejected"},
          by : Reviewer \cup {None}]
Entry == {"registered", "claim_filed", "claim_approved", "claim_rejected", "verified"}
Job ==
    {Idle}
    \cup [pc : {"create"}, who : Phone, row : Account, seeks : Office \cup {None}]
    \cup [pc : {"file", "bind"}, who : Phone, seeks : Office]
    \cup [pc : {"greet"}, who : Phone, entry : {"registered", "claim_filed"}]
    \cup [pc : {"decide"}, who : Phone, seeks : Office, by : Reviewer,
          to : {"Approved", "Rejected"}]
    \cup [pc : {"verify", "note"}, who : Phone,
          entry : {"claim_approved", "claim_rejected", "verified"}]

\* Every row, token, entry and request has the shape its table and handler give it.
TypeOK ==
    /\ account \in [Phone -> Account]
    /\ claim \in [Phone -> Claim]
    /\ token \subseteq [who : Phone, role : {"resident", "official"}, office : Office \cup {None}]
    /\ trail \subseteq Entry \X Phone
    /\ request \in [Request -> Job]

\* review_claim.go:94: the three writes of an approval fail towards too little
\* authority: whoever may act for an office, on the account or in a token handed
\* out at any time, has an approved claim on that office on record.
PowerHasRecord ==
    /\ \A p \in Phone : account[p].office # None =>
            claim[p].office = account[p].office /\ claim[p].status = "Approved"
    /\ \A t \in token : t.office # None =>
            claim[t.who].office = t.office /\ claim[t.who].status = "Approved"

\* Migration 000014: two people can never both be the ward member, whoever reviews
\* whose claim and in whichever order the reviews' statements fall.
OneHolder ==
    \A p, q \in Phone : account[p].office # None /\ account[p].office = account[q].office => p = q

\* An official's verified flag comes from an approved claim alone: no union admin's
\* verification, begun at any moment, reaches an official's account.
OfficialsAreClaimed ==
    \A p \in Phone : account[p].role = "official" /\ account[p].verified => account[p].office # None

\* What makes the above inductive: what an entry, written or about to be, has behind it,
\* and what a request may rely on at its next statement, however old its load.
Behind(e, p) ==
    /\ e = "claim_approved" => account[p].office # None /\ account[p].verified
    /\ e = "claim_rejected" => claim[p].status = "Rejected"
    /\ e = "verified" => account[p].role = "resident" /\ account[p].verified

Relies(h) ==
    /\ h.pc = "create" => /\ h.row.office = None /\ ~ h.row.verified
                          /\ h.row.role = IF h.seeks = None THEN "resident" ELSE "official"
    /\ h.pc = "file" => account[h.who].role = "official" /\ claim[h.who].status = "none"
    /\ h.pc = "decide" => claim[h.who].status # "none" /\ claim[h.who].office = h.seeks
    /\ h.pc = "bind" => claim[h.who].status = "Approved" /\ claim[h.who].office = h.seeks
    /\ h.pc = "verify" => \/ h.entry = "claim_approved" /\ account[h.who].office # None
                          \/ h.entry = "verified" /\ account[h.who].role = "resident"
    /\ h.pc = "note" => Behind(h.entry, h.who)

RecordsAgree ==
    /\ \A p \in Phone : /\ claim[p].status = "none" <=> claim[p].office = None
                        /\ account[p].role # "official" => claim[p].status = "none"
    /\ \A p, q \in Phone :
          claim[p].status = "Approved" /\ claim[q].status = "Approved"
              /\ claim[q].office = claim[p].office => p = q
    /\ \A e \in Entry, p \in Phone : <<e, p>> \in trail => Behind(e, p)

InFlight ==
    /\ \A r \in Request : Relies(request[r])
    /\ \A r, s \in Request : At(r, "file") /\ At(s, "file") /\ request[r].who = request[s].who => r = s

\* The inductive invariant.  Whatever the statements of reviews and registrations
\* interleave with: an office has one holder, and an official's flag an approved claim.
Inv ==
    /\ TypeOK
    /\ OneHolder /\ OfficialsAreClaimed /\ PowerHasRecord
    /\ RecordsAgree /\ InFlight

\* The public trail of decisions runs behind the rows: an approval it shows has put
\* its official in office, a refusal it shows has left its claimant without one.
TrailIsEarned ==
    \A p \in Phone :
        /\ <<"claim_approved", p>> \in trail => account[p].office # None /\ account[p].verified
        /\ <<"claim_rejected", p>> \in trail => account[p].office = None
        /\ <<"verified", p>> \in trail => account[p].role = "resident" /\ account[p].verified

\* Office implements what the claim promises: one question, one answer, one holder,
\* and power only after the award (DecideClaim: decided exactly once).
Promise == INSTANCE Seat WITH
    Person <- Phone,
    sought <- [p \in Phone |-> claim[p].office],
    answer <- [p \in Phone |-> IF claim[p].status = "Approved" THEN "awarded"
                               ELSE IF claim[p].status = "Rejected" THEN "refused" ELSE "open"],
    power <- [p \in Phone |-> account[p].office]
SeatIsKept == Promise!Spec
=============================================================================
