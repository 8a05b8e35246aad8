------------------------------ MODULE Office_proofs ------------------------------
(***************************************************************************)
(* Proofs about Office, for any number of people, offices, unions, reviewers   *)
(* and requests: its types, its inductive invariant, that power never runs     *)
(* ahead of the record, that the trail is earned, and that it implements Seat. *)
(***************************************************************************)
EXTENDS Office, TLAPS

USE OfficeAssumption

\* What no statement takes back: a role, an office, a flag, and an answered claim.
Stays(p) ==
    /\ account[p].role # "none" => account'[p].role = account[p].role
    /\ account[p].office # None => account'[p].office = account[p].office
    /\ (account[p].role # "none" \/ account[p].office # None) /\ account[p].verified
          => account'[p].verified
    /\ claim[p].status # "none" =>
          claim'[p].status # "none" /\ claim'[p].office = claim[p].office
    /\ claim[p].status \in {"Approved", "Rejected"} => claim'[p].status = claim[p].status
Grows == \A p \in Phone : Stays(p)

-----------------------------------------------------------------------------
(* Types. *)

\* What a request holds at each statement.
LEMMA JobHolds ==
    ASSUME NEW h \in Job
    PROVE  /\ h.pc = "create" => h.who \in Phone /\ h.row \in Account /\ h.seeks \in Office \cup {None}
           /\ h.pc \in {"file", "bind"} => h.who \in Phone /\ h.seeks \in Office
           /\ h.pc = "greet" => h.who \in Phone /\ h.entry \in {"registered", "claim_filed"}
           /\ h.pc = "decide" => /\ h.who \in Phone /\ h.seeks \in Office /\ h.by \in Reviewer
                                 /\ h.to \in {"Approved", "Rejected"}
           /\ h.pc \in {"verify", "note"} =>
                 h.who \in Phone /\ h.entry \in {"claim_approved", "claim_rejected", "verified"}
           /\ h.pc \in {"idle", "create", "file", "bind", "greet", "decide", "verify", "note"}
  BY DEF Job, Idle

LEMMA Moves ==
    ASSUME TypeOK, NEW r \in Request, NEW h \in Job, Goto(r, h)
    PROVE  /\ request' \in [Request -> Job]
           /\ request'[r] = h
           /\ \A s \in Request \ {r} : request'[s] = request[s]
  BY DEF Goto, TypeOK

LEMMA Rests == Idle \in Job
  BY DEF Job

\* Every action of a request leads to a statement it is fit for.
LEMMA RegisterGoes ==
    ASSUME TypeOK, NEW r \in Request, NEW p \in Phone, Register(r, p)
    PROVE  \E h \in Job : /\ Goto(r, h) /\ h.pc = "create" /\ Relies(h)
                          /\ UNCHANGED <<account, claim, token, trail>>
<1>1. CASE \E u \in Union : CheckPhone(r, p, [pc |-> "create", who |-> p,
            row |-> [NoAccount EXCEPT !.role = "resident", !.union = u], seeks |-> None])
  <2>1. PICK u \in Union : CheckPhone(r, p, [pc |-> "create", who |-> p,
            row |-> [NoAccount EXCEPT !.role = "resident", !.union = u], seeks |-> None])
    BY <1>1
  <2> DEFINE row == [NoAccount EXCEPT !.role = "resident", !.union = u]
             h == [pc |-> "create", who |-> p, row |-> row, seeks |-> None]
  <2>2. /\ row \in Account /\ row.role = "resident" /\ row.office = None /\ ~ row.verified
    BY DEF Account, NoAccount
  <2> HIDE DEF row
  <2>3. h \in Job
    BY <2>2 DEF Job
  <2>4. Relies(h)
    BY <2>2 DEF Relies
  <2> QED
    BY <2>1, <2>3, <2>4 DEF CheckPhone, row
<1>2. CASE \E o \in Office : CheckPhone(r, p, [pc |-> "create", who |-> p,
            row |-> [NoAccount EXCEPT !.role = "official"], seeks |-> o])
  <2>1. PICK o \in Office : CheckPhone(r, p, [pc |-> "create", who |-> p,
            row |-> [NoAccount EXCEPT !.role = "official"], seeks |-> o])
    BY <1>2
  <2> DEFINE row == [NoAccount EXCEPT !.role = "official"]
             h == [pc |-> "create", who |-> p, row |-> row, seeks |-> o]
  <2>2. /\ row \in Account /\ row.role = "official" /\ row.office = None /\ ~ row.verified
    BY DEF Account, NoAccount
  <2> HIDE DEF row
  <2>3. h \in Job
    BY <2>2 DEF Job
  <2>4. Relies(h)
    BY <2>2 DEF Relies
  <2> QED
    BY <2>1, <2>3, <2>4 DEF CheckPhone, row
<1> QED
  BY <1>1, <1>2 DEF Register

\* A row that grows keeps what requests and entries rely on.
LEMMA StaysBehind ==
    ASSUME Grows, NEW p \in Phone, NEW e, Behind(e, p)
    PROVE  Behind(e, p)'
  BY DEF Grows, Stays, Behind

LEMMA StaysRelies ==
    ASSUME TypeOK, Grows, NEW h \in Job, Relies(h),
           h.pc = "file" => claim'[h.who].status = "none"
    PROVE  Relies(h)'
<1>1. CASE h.pc = "note"
  BY <1>1, JobHolds, StaysBehind DEF Relies
<1>2. CASE h.pc = "verify"
  BY <1>2, JobHolds, None \notin Office DEF Relies, Grows, Stays
<1>3. CASE h.pc \in {"decide", "bind", "file"}
  BY <1>3, JobHolds DEF Relies, Grows, Stays
<1>4. CASE h.pc \in {"create", "greet", "idle"}
  BY <1>4 DEF Relies
<1> QED
  BY <1>1, <1>2, <1>3, <1>4, JobHolds

\* A request that goes where it may leaves the others able to go on.
LEMMA Advance ==
    ASSUME TypeOK, InFlight, Grows, NEW r \in Request, NEW h \in Job, Goto(r, h), Relies(h)',
           \A s \in Request \ {r} : At(s, "file") =>
               /\ h.pc = "file" => request[s].who # h.who
               /\ claim'[request[s].who].status = "none"
    PROVE  request' \in [Request -> Job] /\ InFlight'
<1>1. /\ request' \in [Request -> Job]
      /\ request'[r] = h
      /\ \A s \in Request \ {r} : request'[s] = request[s]
  BY Moves
<1>2. ASSUME NEW s \in Request PROVE Relies(request[s])'
  <2>1. CASE s = r
    BY <1>1, <2>1 DEF Relies, Behind
  <2>2. CASE s # r
    <3>1. PICK g \in Job : g = request[s]
      BY DEF TypeOK
    <3>2. Relies(g) /\ (g.pc = "file" => claim'[g.who].status = "none")
      BY <2>2, <3>1 DEF InFlight, At
    <3>3. Relies(g)'
      BY <3>1, <3>2, StaysRelies
    <3>4. request'[s] = g
      BY <1>1, <2>2, <3>1
    <3> QED
      BY <3>3, <3>4 DEF Relies, Behind
  <2> QED
    BY <2>1, <2>2
<1>3. ASSUME NEW s \in Request, NEW u \in Request, At(s, "file")', At(u, "file")',
             request'[s].who = request'[u].who
      PROVE  s = u
  BY <1>1, <1>3 DEF InFlight, At
<1> QED
  BY <1>1, <1>2, <1>3 DEF InFlight

\* With the rows as they were, a step may only add tokens and entries that have their cause.
LEMMA RowsStay ==
    ASSUME Inv, UNCHANGED <<account, claim>>,
           \A t \in token' \ token : t.office # None =>
               claim[t.who].office = t.office /\ claim[t.who].status = "Approved",
           \A e \in Entry, p \in Phone : <<e, p>> \in trail' \ trail => Behind(e, p)
    PROVE  Grows /\ OneHolder' /\ OfficialsAreClaimed' /\ PowerHasRecord' /\ RecordsAgree'
<1>1. Grows
  BY DEF Grows, Stays
<1>2. OneHolder' /\ OfficialsAreClaimed'
  BY DEF Inv, OneHolder, OfficialsAreClaimed
<1>3. PowerHasRecord'
  BY DEF Inv, PowerHasRecord
<1>4. RecordsAgree'
  BY DEF Inv, RecordsAgree, Behind
<1> QED
  BY <1>1, <1>2, <1>3, <1>4

\* Power with a record, and one award to an office, leave an office one holder.
LEMMA OneAwardOneHolder == PowerHasRecord /\ RecordsAgree => OneHolder
  BY DEF PowerHasRecord, RecordsAgree, OneHolder

-----------------------------------------------------------------------------
(* One lemma per action. *)

LEMMA LoginSound ==
    ASSUME Inv, NEW p \in Phone, Login(p)
    PROVE  Inv'
<1>1. \A t \in token' \ token : t.office # None =>
               claim[t.who].office = t.office /\ claim[t.who].status = "Approved"
  BY DEF Login, Token, Inv, PowerHasRecord
<1>2. OneHolder' /\ OfficialsAreClaimed' /\ PowerHasRecord' /\ RecordsAgree'
  BY <1>1, RowsStay DEF Login
<1>3. TypeOK'
  BY DEF Login, Token, Account, Known, Inv, TypeOK
<1>4. InFlight'
  BY DEF Login, Inv, InFlight, At, Relies, Behind
<1> QED
  BY <1>2, <1>3, <1>4 DEF Inv

\* A request that writes no row and goes on to a statement it is fit for.
LEMMA QuietSound ==
    ASSUME Inv, NEW r \in Request, NEW h \in Job, Goto(r, h), Relies(h), h.pc # "file",
           UNCHANGED <<account, claim>>,
           token' \subseteq token \cup [who : Phone, role : {"resident", "official"}, office : {None}],
           trail' \subseteq Entry \X Phone,
           \A e \in Entry, p \in Phone : <<e, p>> \in trail' \ trail => Behind(e, p)
    PROVE  Inv'
<1>1. \A t \in token' \ token : t.office = None
  OBVIOUS
<1>2. Grows /\ OneHolder' /\ OfficialsAreClaimed' /\ PowerHasRecord' /\ RecordsAgree'
  BY <1>1, RowsStay
<1>3. Relies(h)'
  BY DEF Relies, Behind
<1>4. \A s \in Request : At(s, "file") => claim'[request[s].who].status = "none"
  BY DEF Inv, InFlight, Relies, At
<1>5. request' \in [Request -> Job] /\ InFlight'
  BY <1>2, <1>3, <1>4, Advance DEF Inv
<1>6. TypeOK'
  BY <1>5 DEF Inv, TypeOK
<1> QED
  BY <1>2, <1>5, <1>6 DEF Inv

\* Going nowhere is always open.
LEMMA RestRelies == Idle \in Job /\ Relies(Idle) /\ Idle.pc = "idle"
  BY Rests DEF Idle, Relies

LEMMA RegisterSound ==
    ASSUME Inv, NEW r \in Request, NEW p \in Phone, Register(r, p)
    PROVE  Inv'
<1>1. PICK h \in Job : /\ Goto(r, h) /\ h.pc = "create" /\ Relies(h)
                       /\ UNCHANGED <<account, claim, token, trail>>
  BY RegisterGoes DEF Inv
<1>2. trail' \subseteq Entry \X Phone
  BY <1>1 DEF Inv, TypeOK
<1> QED
  BY <1>1, <1>2, QuietSound

LEMMA GreetSound ==
    ASSUME Inv, NEW r \in Request, Greet(r)
    PROVE  Inv'
<1>1. PICK h \in Job : h = request[r]
  BY DEF Inv, TypeOK
<1>2. h.who \in Phone /\ h.entry \in {"registered", "claim_filed"}
  BY <1>1, JobHolds DEF Greet, At
<1>3. \A t \in token' \ token : t \in [who : Phone, role : {"resident", "official"}, office : {None}]
  BY <1>1, <1>2 DEF Greet
<1>4. trail' \subseteq Entry \X Phone
  BY <1>1, <1>2 DEF Greet, Entry, Inv, TypeOK
<1>5. \A e \in Entry, p \in Phone : <<e, p>> \in trail' \ trail => Behind(e, p)
  BY <1>1, <1>2 DEF Greet, Behind
<1>6. UNCHANGED <<account, claim>> /\ Goto(r, Idle)
  BY DEF Greet
<1> QED
  BY <1>3, <1>4, <1>5, <1>6, RestRelies, QuietSound

LEMMA LoadClaimSound ==
    ASSUME Inv, NEW r \in Request, NEW v \in Reviewer, NEW p \in Phone,
           NEW to \in {"Approved", "Rejected"}, LoadClaim(r, v, p, to)
    PROVE  Inv'
<1> DEFINE h == [pc |-> "decide", who |-> p, seeks |-> claim[p].office, by |-> v, to |-> to]
<1>1. claim[p].office \in Office
  BY DEF LoadClaim, Inv, TypeOK, Claim, RecordsAgree
<1>2. h \in Job
  BY <1>1 DEF Job
<1>3. Relies(h)
  BY DEF Relies, LoadClaim
<1>4. /\ Goto(r, h) /\ UNCHANGED <<account, claim, token, trail>>
      /\ trail' \subseteq Entry \X Phone
  BY DEF LoadClaim, Inv, TypeOK
<1>5. PICK g \in Job : g = h
  BY <1>2
<1>6. g.pc # "file" /\ Relies(g) /\ Goto(r, g)
  BY <1>3, <1>4, <1>5
<1> QED
  BY <1>4, <1>6, QuietSound

LEMMA LoadResidentSound ==
    ASSUME Inv, NEW r \in Request, NEW v \in Admin, NEW p \in Phone, LoadResident(r, v, p)
    PROVE  Inv'
<1> DEFINE h == [pc |-> "verify", who |-> p, entry |-> "verified"]
<1>1. h \in Job
  BY DEF Job
<1>2. Relies(h)
  BY DEF Relies, LoadResident, OwnResident
<1>3. /\ Goto(r, h) /\ UNCHANGED <<account, claim, token, trail>>
      /\ trail' \subseteq Entry \X Phone
  BY DEF LoadResident, Inv, TypeOK
<1> QED
  BY <1>1, <1>2, <1>3, QuietSound

LEMMA NoteSound ==
    ASSUME Inv, NEW r \in Request, Note(r)
    PROVE  Inv'
<1>1. PICK h \in Job : h = request[r]
  BY DEF Inv, TypeOK
<1>2. h.who \in Phone /\ h.entry \in {"claim_approved", "claim_rejected", "verified"}
  BY <1>1, JobHolds DEF Note, At
<1>3. Behind(h.entry, h.who)
  BY <1>1 DEF Note, At, Inv, InFlight, Relies
<1>4. trail' \subseteq Entry \X Phone
  BY <1>1, <1>2 DEF Note, Entry, Inv, TypeOK
<1>5. \A e \in Entry, p \in Phone : <<e, p>> \in trail' \ trail => Behind(e, p)
  BY <1>1, <1>3 DEF Note
<1>6. UNCHANGED <<account, claim, token>> /\ Goto(r, Idle)
  BY DEF Note
<1> QED
  BY <1>4, <1>5, <1>6, RestRelies, QuietSound

LEMMA FailSound ==
    ASSUME Inv, NEW r \in Request, Fail(r)
    PROVE  Inv'
<1>1. /\ Goto(r, Idle) /\ UNCHANGED <<account, claim, token, trail>>
      /\ trail' \subseteq Entry \X Phone
  BY DEF Fail, Inv, TypeOK
<1> QED
  BY <1>1, RestRelies, QuietSound

\* A step on the rows of one person, of which the request relies on what it finds there.
LEMMA RowsGrow ==
    ASSUME Inv, NEW w \in Phone, Stays(w),
           account' \in [Phone -> Account], claim' \in [Phone -> Claim],
           \A p \in Phone \ {w} : account'[p] = account[p] /\ claim'[p] = claim[p],
           claim'[w].status = "none" <=> claim'[w].office = None,
           account'[w].role # "official" => claim'[w].status = "none",
           claim'[w].status = "Approved" =>
               \A q \in Phone \ {w} : claim[q].status = "Approved" => claim[q].office # claim'[w].office,
           account'[w].role = "official" /\ account'[w].verified => account'[w].office # None,
           account'[w].office # None =>
               claim'[w].office = account'[w].office /\ claim'[w].status = "Approved",
           UNCHANGED <<token, trail>>
    PROVE  Grows /\ OneHolder' /\ OfficialsAreClaimed' /\ PowerHasRecord' /\ RecordsAgree'
<1>1. Grows
  BY DEF Grows, Stays
<1>2. OfficialsAreClaimed'
  BY DEF Inv, OfficialsAreClaimed
<1>3. PowerHasRecord'
  <2>1. ASSUME NEW p \in Phone, account'[p].office # None
        PROVE  claim'[p].office = account'[p].office /\ claim'[p].status = "Approved"
    BY <2>1 DEF Inv, PowerHasRecord
  <2>2. ASSUME NEW t \in token, t.office # None
        PROVE  claim'[t.who].office = t.office /\ claim'[t.who].status = "Approved"
    BY <1>1, <2>2 DEF Inv, PowerHasRecord, TypeOK, Grows, Stays
  <2> QED
    BY <2>1, <2>2 DEF PowerHasRecord
<1>4. RecordsAgree'
  <2>1. ASSUME NEW p \in Phone
        PROVE  /\ claim'[p].status = "none" <=> claim'[p].office = None
               /\ account'[p].role # "official" => claim'[p].status = "none"
    BY DEF Inv, RecordsAgree
  <2>2. ASSUME NEW p \in Phone, NEW q \in Phone, claim'[p].status = "Approved",
               claim'[q].status = "Approved", claim'[q].office = claim'[p].office
        PROVE  p = q
    BY <2>2 DEF Inv, RecordsAgree
  <2>3. ASSUME NEW e \in Entry, NEW p \in Phone, <<e, p>> \in trail PROVE Behind(e, p)'
    BY <1>1, <2>3, StaysBehind DEF Inv, RecordsAgree
  <2> QED
    BY <2>1, <2>2, <2>3 DEF RecordsAgree
<1> QED
  BY <1>1, <1>2, <1>3, <1>4, OneAwardOneHolder, PTL

\* RowsGrow and Advance together, for a request that writes one person's rows.
LEMMA WriteSound ==
    ASSUME Inv, NEW r \in Request, NEW h \in Job, Goto(r, h), Relies(h)',
           Grows /\ OneHolder' /\ OfficialsAreClaimed' /\ PowerHasRecord' /\ RecordsAgree',
           account' \in [Phone -> Account], claim' \in [Phone -> Claim],
           UNCHANGED <<token, trail>>,
           \A s \in Request \ {r} : At(s, "file") =>
               /\ h.pc = "file" => request[s].who # h.who
               /\ claim'[request[s].who].status = "none"
    PROVE  Inv'
<1>1. request' \in [Request -> Job] /\ InFlight'
  BY Advance DEF Inv
<1>2. TypeOK'
  BY <1>1 DEF Inv, TypeOK
<1> QED
  BY <1>1, <1>2 DEF Inv

LEMMA CreateSound ==
    ASSUME Inv, NEW r \in Request, Create(r)
    PROVE  Inv'
<1>1. PICK g \in Job : g = request[r]
  BY DEF Inv, TypeOK
<1>2. /\ g.who \in Phone /\ g.row \in Account /\ g.seeks \in Office \cup {None}
      /\ g.row.office = None /\ ~ g.row.verified
      /\ g.row.role = IF g.seeks = None THEN "resident" ELSE "official"
  BY <1>1, JobHolds DEF Create, At, Inv, InFlight, Relies
<1>3. CASE ~ PhoneFree(g.who)
  <2>1. /\ Goto(r, Idle) /\ UNCHANGED <<account, claim, token, trail>>
        /\ trail' \subseteq Entry \X Phone
    BY <1>1, <1>3 DEF Create, Inv, TypeOK
  <2> QED
    BY <2>1, RestRelies, QuietSound
<1>4. CASE PhoneFree(g.who)
  <2>1. /\ account' = [account EXCEPT ![g.who] = g.row] /\ UNCHANGED <<claim, token, trail>>
        /\ account[g.who].role = "none" /\ claim[g.who].status = "none"
        /\ account[g.who].office = None
    BY <1>1, <1>2, <1>4 DEF Create, PhoneFree, Inv, RecordsAgree, PowerHasRecord
  <2>2. /\ account' \in [Phone -> Account] /\ claim' \in [Phone -> Claim]
        /\ account'[g.who] = g.row
        /\ \A p \in Phone \ {g.who} : account'[p] = account[p]
        /\ claim' = claim
    BY <1>2, <2>1 DEF Inv, TypeOK
  <2>3. Grows /\ OneHolder' /\ OfficialsAreClaimed' /\ PowerHasRecord' /\ RecordsAgree'
    <3>1. Stays(g.who)
      BY <2>1, <2>2 DEF Stays
    <3>2. claim'[g.who].status = "none" <=> claim'[g.who].office = None
      BY <1>2, <2>1 DEF Inv, RecordsAgree
    <3> QED
      BY <1>2, <2>1, <2>2, <3>1, <3>2, RowsGrow
  <2>4. \A s \in Request : At(s, "file") =>
            request[s].who # g.who /\ claim'[request[s].who].status = "none"
    BY <2>1 DEF Inv, InFlight, Relies, At
  <2>5. CASE g.seeks # None
    <3> DEFINE h == [pc |-> "file", who |-> g.who, seeks |-> g.seeks]
    <3>1. h \in Job
      BY <1>2, <2>5 DEF Job
    <3>2. Goto(r, h)
      BY <1>1, <1>2, <1>4, <2>5 DEF Create
    <3>3. Relies(h)'
      BY <1>2, <2>1, <2>2, <2>5 DEF Relies
    <3> QED
      BY <2>1, <2>2, <2>3, <2>4, <3>1, <3>2, <3>3, WriteSound
  <2>6. CASE g.seeks = None
    <3> DEFINE h == [pc |-> "greet", who |-> g.who, entry |-> "registered"]
    <3>1. h \in Job
      BY <1>2 DEF Job
    <3>2. Goto(r, h)
      BY <1>1, <1>2, <1>4, <2>6 DEF Create
    <3>3. Relies(h)'
      BY DEF Relies
    <3> QED
      BY <2>1, <2>2, <2>3, <2>4, <3>1, <3>2, <3>3, WriteSound
  <2> QED
    BY <2>5, <2>6
<1> QED
  BY <1>3, <1>4

LEMMA FileSound ==
    ASSUME Inv, NEW r \in Request, File(r)
    PROVE  Inv'
<1>1. PICK g \in Job : g = request[r]
  BY DEF Inv, TypeOK
<1>2. /\ g.who \in Phone /\ g.seeks \in Office
      /\ account[g.who].role = "official" /\ claim[g.who].status = "none"
      /\ claim[g.who].office = None /\ account[g.who].office = None
  <2>1. /\ g.who \in Phone /\ g.seeks \in Office
        /\ account[g.who].role = "official" /\ claim[g.who].status = "none"
    BY <1>1, JobHolds DEF File, At, Inv, InFlight, Relies
  <2> QED
    BY <2>1 DEF Inv, RecordsAgree, PowerHasRecord
<1>3. /\ account' = account /\ UNCHANGED <<token, trail>>
      /\ claim' \in [Phone -> Claim]
      /\ claim'[g.who] = [office |-> g.seeks, status |-> "Pending", by |-> None]
      /\ \A p \in Phone \ {g.who} : claim'[p] = claim[p]
      /\ account' \in [Phone -> Account]
  BY <1>1, <1>2 DEF File, Inv, TypeOK, Claim
<1>4. Grows /\ OneHolder' /\ OfficialsAreClaimed' /\ PowerHasRecord' /\ RecordsAgree'
  <2>1. Stays(g.who)
    BY <1>2, <1>3 DEF Stays
  <2>2. account'[g.who].role = "official" /\ account'[g.who].verified => account'[g.who].office # None
    BY <1>2, <1>3 DEF Inv, OfficialsAreClaimed
  <2> QED
    BY <1>2, <1>3, <2>1, <2>2, RowsGrow
<1> DEFINE h == [pc |-> "greet", who |-> g.who, entry |-> "claim_filed"]
<1>5. h \in Job /\ Goto(r, h)
  BY <1>1, <1>2 DEF Job, File
<1>6. Relies(h)'
  BY DEF Relies
<1>7. \A s \in Request \ {r} : At(s, "file") => claim'[request[s].who].status = "none"
  <2> SUFFICES ASSUME NEW s \in Request \ {r}, At(s, "file") PROVE claim'[request[s].who].status = "none"
    OBVIOUS
  <2>1. request[s].who # g.who
    BY <1>1 DEF Inv, InFlight, At, File
  <2>2. request[s].who \in Phone /\ claim[request[s].who].status = "none"
    BY JobHolds DEF Inv, TypeOK, InFlight, Relies, At
  <2> QED
    BY <1>3, <2>1, <2>2
<1> QED
  BY <1>3, <1>4, <1>5, <1>6, <1>7, WriteSound

LEMMA DecideSound ==
    ASSUME Inv, NEW r \in Request, Decide(r)
    PROVE  Inv'
<1>1. PICK g \in Job : g = request[r]
  BY DEF Inv, TypeOK
<1>2. /\ g.who \in Phone /\ g.seeks \in Office /\ g.by \in Reviewer
      /\ g.to \in {"Approved", "Rejected"}
      /\ claim[g.who].status # "none" /\ claim[g.who].office = g.seeks
  BY <1>1, JobHolds DEF Decide, At, Inv, InFlight, Relies
<1>3. CASE ~ StillPending(g.who) \/ (g.to = "Approved" /\ Taken(g.seeks))
  <2>1. /\ Goto(r, Idle) /\ UNCHANGED <<account, claim, token, trail>>
        /\ trail' \subseteq Entry \X Phone
    BY <1>1, <1>3 DEF Decide, Inv, TypeOK
  <2> QED
    BY <2>1, RestRelies, QuietSound
<1>4. CASE StillPending(g.who) /\ ~ (g.to = "Approved" /\ Taken(g.seeks))
  <2>1. /\ claim[g.who].status = "Pending" /\ account[g.who].office = None
        /\ account[g.who].role = "official"
    BY <1>2, <1>4 DEF StillPending, Inv, PowerHasRecord, RecordsAgree
  <2>2. claim' = [claim EXCEPT ![g.who].status = g.to, ![g.who].by = g.by]
    BY <1>1, <1>2, <1>4 DEF Decide
  <2>3. /\ account' = account /\ UNCHANGED <<token, trail>>
        /\ claim' \in [Phone -> Claim]
        /\ claim'[g.who].office = g.seeks /\ claim'[g.who].status = g.to
        /\ \A p \in Phone \ {g.who} : claim'[p] = claim[p]
        /\ account' \in [Phone -> Account]
    BY <1>1, <1>2, <2>2 DEF Decide, Inv, TypeOK, Claim
  <2>4. Grows /\ OneHolder' /\ OfficialsAreClaimed' /\ PowerHasRecord' /\ RecordsAgree'
    <3>1. Stays(g.who)
      BY <1>2, <2>1, <2>3 DEF Stays
    <3>2. account'[g.who].role = "official" /\ account'[g.who].verified => account'[g.who].office # None
      BY <1>2, <2>3 DEF Inv, OfficialsAreClaimed
    <3>3. claim'[g.who].status = "Approved" =>
              \A q \in Phone \ {g.who} : claim[q].status = "Approved" => claim[q].office # claim'[g.who].office
      BY <1>4, <2>3 DEF Taken
    <3> QED
      BY <1>2, <2>1, <2>3, <3>1, <3>2, <3>3, RowsGrow
  <2>5. \A s \in Request \ {r} : At(s, "file") => claim'[request[s].who].status = "none"
    <3> SUFFICES ASSUME NEW s \in Request \ {r}, At(s, "file") PROVE claim'[request[s].who].status = "none"
      OBVIOUS
    <3>1. request[s].who \in Phone /\ claim[request[s].who].status = "none"
      BY JobHolds DEF Inv, TypeOK, InFlight, Relies, At
    <3> QED
      BY <2>1, <2>3, <3>1
  <2>6. CASE g.to = "Approved"
    <3> DEFINE h == [pc |-> "bind", who |-> g.who, seeks |-> g.seeks]
    <3>1. h \in Job
      BY <1>2 DEF Job
    <3>2. Goto(r, h)
      BY <1>1, <1>4, <2>6 DEF Decide, AfterApproval
    <3>3. Relies(h)'
      BY <2>3, <2>6 DEF Relies
    <3> QED
      BY <2>3, <2>4, <2>5, <3>1, <3>2, <3>3, WriteSound
  <2>7. CASE g.to = "Rejected"
    <3> DEFINE h == [pc |-> "note", who |-> g.who, entry |-> "claim_rejected"]
    <3>1. h \in Job
      BY <1>2 DEF Job
    <3>2. Goto(r, h)
      BY <1>1, <1>4, <2>7 DEF Decide
    <3>3. Relies(h)'
      BY <2>3, <2>7 DEF Relies, Behind
    <3> QED
      BY <2>3, <2>4, <2>5, <3>1, <3>2, <3>3, WriteSound
  <2> QED
    BY <1>2, <2>6, <2>7
<1> QED
  BY <1>3, <1>4

LEMMA BindSound ==
    ASSUME Inv, NEW r \in Request, Bind(r)
    PROVE  Inv'
<1>1. PICK g \in Job : g = request[r]
  BY DEF Inv, TypeOK
<1>2. /\ g.who \in Phone /\ g.seeks \in Office
      /\ claim[g.who].status = "Approved" /\ claim[g.who].office = g.seeks
  BY <1>1, JobHolds DEF Bind, At, Inv, InFlight, Relies
<1>3. /\ claim' = claim /\ UNCHANGED <<token, trail>>
      /\ account' \in [Phone -> Account] /\ claim' \in [Phone -> Claim]
      /\ account'[g.who] = [account[g.who] EXCEPT !.office = g.seeks]
      /\ \A p \in Phone \ {g.who} : account'[p] = account[p]
  <2>1. account \in [Phone -> Account] /\ claim \in [Phone -> Claim]
    BY DEF Inv, TypeOK
  <2>2. /\ claim' = claim /\ UNCHANGED <<token, trail>>
        /\ account' = [account EXCEPT ![g.who].office = g.seeks]
    BY <1>1 DEF Bind
  <2>3. [account[g.who] EXCEPT !.office = g.seeks] \in Account
    BY <1>2, <2>1 DEF Account
  <2> QED
    BY <1>2, <2>1, <2>2, <2>3
<1>4. /\ account'[g.who].role = account[g.who].role
      /\ account'[g.who].verified = account[g.who].verified
      /\ account'[g.who].office = g.seeks /\ g.seeks # None
      /\ account[g.who].office # None => account[g.who].office = g.seeks
      /\ account[g.who].role = "official"
  BY <1>2, <1>3 DEF Inv, TypeOK, Account, PowerHasRecord, RecordsAgree
<1>5. Grows /\ OneHolder' /\ OfficialsAreClaimed' /\ PowerHasRecord' /\ RecordsAgree'
  <2>1. Stays(g.who)
    BY <1>2, <1>3, <1>4 DEF Stays
  <2>2. \A q \in Phone \ {g.who} : claim[q].status = "Approved" => claim[q].office # claim'[g.who].office
    BY <1>2, <1>3 DEF Inv, RecordsAgree
  <2> QED
    BY <1>2, <1>3, <1>4, <2>1, <2>2, RowsGrow
<1> DEFINE h == [pc |-> "verify", who |-> g.who, entry |-> "claim_approved"]
<1>6. h \in Job /\ Goto(r, h)
  BY <1>1, <1>2 DEF Job, Bind
<1>7. Relies(h)'
  BY <1>4 DEF Relies
<1>8. \A s \in Request : At(s, "file") => claim'[request[s].who].status = "none"
  BY <1>3 DEF Inv, InFlight, Relies, At
<1> QED
  BY <1>3, <1>5, <1>6, <1>7, <1>8, WriteSound

LEMMA VerifySound ==
    ASSUME Inv, NEW r \in Request, Verify(r)
    PROVE  Inv'
<1>1. PICK g \in Job : g = request[r]
  BY DEF Inv, TypeOK
<1>2. /\ g.who \in Phone
      /\ \/ g.entry = "claim_approved" /\ account[g.who].office # None
         \/ g.entry = "verified" /\ account[g.who].role = "resident"
  BY <1>1, JobHolds DEF Verify, At, Inv, InFlight, Relies
<1>3. /\ claim' = claim /\ UNCHANGED <<token, trail>>
      /\ account' \in [Phone -> Account] /\ claim' \in [Phone -> Claim]
      /\ account'[g.who] = [account[g.who] EXCEPT !.verified = TRUE]
      /\ \A p \in Phone \ {g.who} : account'[p] = account[p]
  <2>1. account \in [Phone -> Account] /\ claim \in [Phone -> Claim]
    BY DEF Inv, TypeOK
  <2>2. /\ claim' = claim /\ UNCHANGED <<token, trail>>
        /\ account' = [account EXCEPT ![g.who].verified = TRUE]
    BY <1>1 DEF Verify
  <2>3. [account[g.who] EXCEPT !.verified = TRUE] \in Account
    <3>1. account[g.who] \in Account
      BY <1>2, <2>1
    <3>2. \A a \in Account : [a EXCEPT !.verified = TRUE] \in Account
      BY DEF Account
    <3> QED
      BY <3>1, <3>2
  <2> QED
    BY <1>2, <2>1, <2>2, <2>3
<1>4. /\ account'[g.who].role = account[g.who].role
      /\ account'[g.who].verified
      /\ account'[g.who].office = account[g.who].office
  BY <1>2, <1>3 DEF Inv, TypeOK, Account
<1>5. Grows /\ OneHolder' /\ OfficialsAreClaimed' /\ PowerHasRecord' /\ RecordsAgree'
  <2>1. Stays(g.who)
    BY <1>2, <1>3, <1>4 DEF Stays
  <2>2. /\ \A q \in Phone \ {g.who} : claim'[g.who].status = "Approved" /\ claim[q].status = "Approved"
               => claim[q].office # claim'[g.who].office
        /\ claim'[g.who].status = "none" <=> claim'[g.who].office = None
        /\ account'[g.who].role # "official" => claim'[g.who].status = "none"
    BY <1>2, <1>3, <1>4 DEF Inv, RecordsAgree
  <2>3. /\ account'[g.who].office # None =>
               claim'[g.who].office = account'[g.who].office /\ claim'[g.who].status = "Approved"
        /\ account'[g.who].role = "official" /\ account'[g.who].verified => account'[g.who].office # None
    BY <1>2, <1>3, <1>4 DEF Inv, PowerHasRecord
  <2> QED
    BY <1>2, <1>3, <2>1, <2>2, <2>3, RowsGrow
<1> DEFINE h == [pc |-> "note", who |-> g.who, entry |-> g.entry]
<1>6. h \in Job /\ Goto(r, h)
  BY <1>1, <1>2 DEF Job, Verify
<1>7. Relies(h)'
  BY <1>2, <1>4 DEF Relies, Behind
<1>8. \A s \in Request : At(s, "file") => claim'[request[s].who].status = "none"
  BY <1>3 DEF Inv, InFlight, Relies, At
<1> QED
  BY <1>3, <1>5, <1>6, <1>7, <1>8, WriteSound

-----------------------------------------------------------------------------
(* The theorems. *)

LEMMA InitSound == Init => Inv
<1> SUFFICES ASSUME Init PROVE Inv
  OBVIOUS
<1>1. ASSUME NEW p \in Seeded
      PROVE  /\ p \in Phone /\ SeedOffice[p] \in Office
             /\ account[p] = [role |-> "official", union |-> None, office |-> SeedOffice[p],
                              verified |-> TRUE]
             /\ claim[p] = [office |-> SeedOffice[p], status |-> "Approved", by |-> None]
  BY DEF Init
<1>2. ASSUME NEW p \in Phone, p \notin Seeded
      PROVE  account[p] = NoAccount /\ claim[p] = NoClaim
  BY <1>2 DEF Init
<1>3. ASSUME NEW p \in Phone
      PROVE  /\ account[p] \in Account /\ claim[p] \in Claim
             /\ account[p].office = claim[p].office
             /\ claim[p].office # None => p \in Seeded /\ claim[p].office = SeedOffice[p]
             /\ claim[p].status = IF claim[p].office = None THEN "none" ELSE "Approved"
             /\ account[p].role = IF claim[p].office = None THEN "none" ELSE "official"
  <2>1. CASE p \in Seeded
    <3>1. [role |-> "official", union |-> None, office |-> SeedOffice[p], verified |-> TRUE] \in Account
      BY <1>1, <2>1 DEF Account
    <3>2. [office |-> SeedOffice[p], status |-> "Approved", by |-> None] \in Claim
      BY <1>1, <2>1 DEF Claim
    <3> QED
      BY <1>1, <2>1, <3>1, <3>2
  <2>2. CASE p \notin Seeded
    <3>1. NoAccount \in Account /\ NoAccount.office = None /\ NoAccount.role = "none"
      BY DEF NoAccount, Account
    <3>2. NoClaim \in Claim /\ NoClaim.office = None /\ NoClaim.status = "none"
      BY DEF NoClaim, Claim
    <3> QED
      BY <1>2, <2>2, <3>1, <3>2
  <2> QED
    BY <2>1, <2>2
<1>4. /\ account \in [Phone -> Account] /\ claim \in [Phone -> Claim]
      /\ request \in [Request -> Job] /\ token = {} /\ trail = {}
      /\ \A r \in Request : request[r] = Idle
  <2>1. account \in [Phone -> Account]
    BY <1>3 DEF Init
  <2>2. claim \in [Phone -> Claim]
    BY <1>3 DEF Init
  <2> QED
    BY <2>1, <2>2, Rests DEF Init
<1>6. TypeOK
  BY <1>4 DEF TypeOK
<1>7. OneHolder /\ OfficialsAreClaimed /\ PowerHasRecord
  BY <1>3, <1>4 DEF OneHolder, OfficialsAreClaimed, PowerHasRecord
<1>8. RecordsAgree
  BY <1>3, <1>4 DEF RecordsAgree
<1>5. InFlight
  BY <1>4, RestRelies DEF InFlight, At, Idle
<1> QED
  BY <1>5, <1>6, <1>7, <1>8 DEF Inv

LEMMA NextSound == Inv /\ [Next]_vars => Inv'
<1> SUFFICES ASSUME Inv, [Next]_vars PROVE Inv'
  OBVIOUS
<1>1. CASE UNCHANGED vars
  BY <1>1 DEF vars, Inv, TypeOK, OneHolder, OfficialsAreClaimed, PowerHasRecord, RecordsAgree,
              InFlight, Behind, Relies, At
<1>2. CASE Next
  BY <1>2, LoginSound, RegisterSound, CreateSound, FileSound, GreetSound, LoadClaimSound,
     DecideSound, BindSound, LoadResidentSound, VerifySound, NoteSound, FailSound DEF Next
<1> QED
  BY <1>1, <1>2

\* The inductive invariant: what each office, account, claim and request in flight agree on
\* (uq_official_claims_approved, verify_resident.go), for any number of people and offices.
THEOREM Invariance == Spec => []Inv
  BY InitSound, NextSound, PTL DEF Spec

\* Whoever may act for an office, on the account or in any token ever handed out, has an
\* approved claim on it on record (review_claim.go:94).
THEOREM PowerIsRecorded == Spec => []PowerHasRecord
<1>1. Inv => PowerHasRecord
  BY DEF Inv
<1> QED
  BY <1>1, Invariance, PTL

\* The trail of decisions on people never runs ahead of the rows (review_claim.go:117).
THEOREM TrailIsTrue == Spec => []TrailIsEarned
<1>1. Inv => TrailIsEarned
  BY DEF Inv, RecordsAgree, PowerHasRecord, TrailIsEarned, Behind, Entry
<1> QED
  BY <1>1, Invariance, PTL

-----------------------------------------------------------------------------
(* Office implements Seat. *)

\* The three columns of the mapping, named.
Sought == [p \in Phone |-> claim[p].office]
Answer == [p \in Phone |-> IF claim[p].status = "Approved" THEN "awarded"
                           ELSE IF claim[p].status = "Rejected" THEN "refused" ELSE "open"]
Power == [p \in Phone |-> account[p].office]

LEMMA SeatInit == Init => Promise!Init
<1> SUFFICES ASSUME Init PROVE Promise!Init
  OBVIOUS
<1>1. \A p \in Phone : p \in Seeded =>
          /\ account[p].office = SeedOffice[p] /\ claim[p].office = SeedOffice[p]
          /\ SeedOffice[p] \in Office /\ claim[p].status = "Approved"
  BY DEF Init
<1>2. \A p \in Phone : p \notin Seeded =>
          account[p].office = None /\ claim[p].office = None /\ claim[p].status = "none"
  BY DEF Init, NoAccount, NoClaim
<1> QED
  BY <1>1, <1>2 DEF Promise!Init

\* A step that leaves the three columns alone is a stutter of Seat.
LEMMA SeatStutter ==
    ASSUME \A p \in Phone : /\ claim'[p].office = claim[p].office
                            /\ claim'[p].status = claim[p].status
                            /\ account'[p].office = account[p].office
    PROVE  UNCHANGED <<Sought, Answer, Power>>
  BY DEF Sought, Answer, Power

LEMMA SeatStep == Inv /\ [Next]_vars => [Promise!Next]_<<Sought, Answer, Power>>
<1> SUFFICES ASSUME Inv, [Next]_vars PROVE Promise!Next \/ UNCHANGED <<Sought, Answer, Power>>
  OBVIOUS
<1>1. CASE UNCHANGED <<account, claim>>
  BY <1>1, SeatStutter
<1>2. ASSUME NEW r \in Request, Create(r) PROVE UNCHANGED <<Sought, Answer, Power>>
  <2>1. request[r].who \in Phone /\ request[r].row.office = None
    BY <1>2, JobHolds DEF Create, At, Inv, TypeOK, InFlight, Relies
  <2>2. PhoneFree(request[r].who) => account[request[r].who].office = None
    BY <2>1 DEF PhoneFree, Inv, RecordsAgree, PowerHasRecord
  <2>3. claim' = claim /\ \A p \in Phone : account'[p].office = account[p].office
    BY <1>2, <2>1, <2>2 DEF Create, Inv, TypeOK
  <2> QED
    BY <2>3, SeatStutter
<1>3. ASSUME NEW r \in Request, Verify(r) PROVE UNCHANGED <<Sought, Answer, Power>>
  <2>1. claim' = claim /\ \A p \in Phone : account'[p].office = account[p].office
    BY <1>3 DEF Verify, Inv, TypeOK, Account
  <2> QED
    BY <2>1, SeatStutter
<1>4. ASSUME NEW r \in Request, File(r) PROVE Promise!Next
  <2>1. PICK g \in Job : g = request[r]
    BY DEF Inv, TypeOK
  <2>2. g.who \in Phone /\ g.seeks \in Office /\ claim[g.who].status = "none" /\ claim[g.who].office = None
    BY <1>4, <2>1, JobHolds DEF File, At, Inv, InFlight, Relies, RecordsAgree
  <2>3. /\ account' = account
        /\ claim'[g.who].office = g.seeks /\ claim'[g.who].status = "Pending"
        /\ \A p \in Phone \ {g.who} : claim'[p] = claim[p]
    BY <1>4, <2>1, <2>2 DEF File, Inv, TypeOK
  <2>4. Sought[g.who] = None /\ Sought' = [Sought EXCEPT ![g.who] = g.seeks]
    BY <2>2, <2>3 DEF Sought
  <2>5. Answer' = Answer /\ Power' = Power
    BY <2>2, <2>3 DEF Answer, Power
  <2>6. Promise!Ask(g.who, g.seeks)
    BY <2>4, <2>5 DEF Promise!Ask, Sought, Answer, Power
  <2> QED
    BY <2>2, <2>6 DEF Promise!Next
<1>5. ASSUME NEW r \in Request, Bind(r) PROVE Promise!Next
  <2>1. PICK g \in Job : g = request[r]
    BY DEF Inv, TypeOK
  <2>2. g.who \in Phone /\ claim[g.who].status = "Approved" /\ claim[g.who].office = g.seeks
    BY <1>5, <2>1, JobHolds DEF Bind, At, Inv, InFlight, Relies
  <2>3. /\ claim' = claim
        /\ account'[g.who].office = g.seeks
        /\ \A p \in Phone \ {g.who} : account'[p] = account[p]
    BY <1>5, <2>1, <2>2 DEF Bind, Inv, TypeOK, Account
  <2>4. Sought' = Sought /\ Answer' = Answer /\ Answer[g.who] = "awarded"
    BY <2>2, <2>3 DEF Sought, Answer
  <2>5. Power' = [Power EXCEPT ![g.who] = Sought[g.who]]
    BY <2>2, <2>3 DEF Power, Sought
  <2>6. Promise!Empower(g.who)
    BY <2>4, <2>5 DEF Promise!Empower, Sought, Answer, Power
  <2> QED
    BY <2>2, <2>6 DEF Promise!Next
<1>6. ASSUME NEW r \in Request, Decide(r), ~ UNCHANGED <<account, claim>> PROVE Promise!Next
  <2>1. PICK g \in Job : g = request[r]
    BY DEF Inv, TypeOK
  <2>2. /\ g.who \in Phone /\ g.to \in {"Approved", "Rejected"} /\ g.seeks \in Office
        /\ claim[g.who].status # "none" /\ claim[g.who].office = g.seeks
    BY <1>6, <2>1, JobHolds DEF Decide, At, Inv, InFlight, Relies
  <2>3. /\ StillPending(g.who) /\ (g.to = "Approved" => ~ Taken(g.seeks))
        /\ account' = account
        /\ claim' = [claim EXCEPT ![g.who].status = g.to, ![g.who].by = g.by]
    BY <1>6, <2>1 DEF Decide
  <2>4. /\ claim'[g.who].office = g.seeks /\ claim'[g.who].status = g.to
        /\ \A p \in Phone \ {g.who} : claim'[p] = claim[p]
    BY <2>2, <2>3 DEF Inv, TypeOK, Claim
  <2>5. Sought' = Sought /\ Power' = Power /\ Sought[g.who] = g.seeks /\ g.seeks # None
    <3>1. \A p \in Phone : claim'[p].office = claim[p].office
      BY <2>2, <2>4
    <3>2. Sought' = Sought /\ Sought[g.who] = g.seeks
      BY <2>2, <3>1 DEF Sought
    <3> QED
      BY <2>2, <2>3, <3>2 DEF Power
  <2>6. Answer[g.who] = "open"
    BY <2>2, <2>3 DEF Answer, StillPending
  <2>7. CASE g.to = "Approved"
    <3>1. Answer' = [Answer EXCEPT ![g.who] = "awarded"]
      BY <2>2, <2>4, <2>7 DEF Answer
    <3>2. \A p \in Phone : ~ (Sought[p] = g.seeks /\ Answer[p] = "awarded")
      BY <2>3, <2>7 DEF Sought, Answer, Taken
    <3>3. Promise!Awarded(Sought[g.who]) = {}
      BY <2>5, <3>2 DEF Promise!Awarded, Sought, Answer
    <3>4. Promise!Award(g.who)
      BY <2>5, <2>6, <3>1, <3>3 DEF Promise!Award, Sought, Answer, Power
    <3> QED
      BY <2>2, <3>4 DEF Promise!Next
  <2>8. CASE g.to = "Rejected"
    <3>1. Answer' = [Answer EXCEPT ![g.who] = "refused"]
      BY <2>2, <2>4, <2>8 DEF Answer
    <3>2. Promise!Refuse(g.who)
      BY <2>5, <2>6, <3>1 DEF Promise!Refuse, Sought, Answer, Power
    <3> QED
      BY <2>2, <3>2 DEF Promise!Next
  <2> QED
    BY <2>2, <2>7, <2>8
<1>7. CASE Next
  <2>1. ASSUME NEW r \in Request, NEW p \in Phone, Register(r, p) PROVE UNCHANGED <<account, claim>>
    BY <2>1 DEF Register, CheckPhone
  <2> QED
    BY <1>1, <1>2, <1>3, <1>4, <1>5, <1>6, <1>7, <2>1
       DEF Next, Login, Greet, LoadClaim, LoadResident, Note, Fail
<1> QED
  BY <1>1, <1>7 DEF vars

\* The statements of registration and review, with every race between them and every
\* request that ends midway, implement the promise that a claim is decided exactly once,
\* an office awarded once, and power given only after the award (DecideClaim).
THEOREM ImplementsSeat == Spec => SeatIsKept
<1>1. Inv /\ [Next]_vars => [Promise!Next]_(Promise!vars)
  BY SeatStep DEF Promise!vars, Sought, Answer, Power
<1> QED
  BY <1>1, SeatInit, Invariance, PTL DEF Spec, SeatIsKept, Promise!Spec
=============================================================================
