--------------------------------- MODULE Voices ---------------------------------
(***************************************************************************)
(* The community's suggestions on one report (internal/suggestion): proposing, the *)
(* upvote that is a toggle, the ranking, and the official's plan, which answers  *)
(* the suggestion that leads and keeps a snapshot of it.                        *)
(*                                                                           *)
(* A suggestion is known by its created_at, which orders the tied ones; it is     *)
(* stamped before it is inserted, so a later one may be stored first.  Each SQL   *)
(* statement is an action.                                                    *)
(***************************************************************************)
EXTENDS Naturals, FiniteSets, FiniteSetsExt, SequencesExt

CONSTANTS
    Suggestion,     \* the moments at which one may be proposed
    Voter,          \* verified residents of the report's union (ensureAreaResident)
    Asking,         \* requests that may be under way at once
    NoTop,         \* no suggestion leads
    NoPlan          \* no plan yet

ASSUME VoicesAssumption ==
    /\ Suggestion \subseteq Nat /\ {NoTop, NoPlan} \cap Suggestion = {}
    /\ IsFiniteSet(Voter)

Free == [pc |-> "free"]

VARIABLES
    posted,     \* suggestions
    upvotes,    \* suggestion_votes, UNIQUE (suggestion_id, voter_id)
    erased,     \* the report was hard deleted; both tables cascade
    answered,   \* plans.answered_suggestion_id, or none
    button,     \* what each voter was last told of each upvote of theirs
    led,        \* suggestions that have been the top, for the properties
    asking

voices == <<posted, upvotes, erased, answered, button, led, asking>>

\* What a voter knows of an upvote; Unsure: no answer covers all they asked for.
Known(held) == IF held THEN "held" ELSE "not held"
Unsure == "unsure"

VoicesInit ==
    /\ posted = {} /\ upvotes = {} /\ led = {}
    /\ erased = FALSE
    /\ answered = NoPlan
    /\ button = [b \in Voter \X Suggestion |-> Known(FALSE)]
    /\ asking = [q \in Asking |-> Free]

-----------------------------------------------------------------------------
(* The ranking.  Bug... operators stand for no code: each is a plausible slip in the *)
(* definition after it.                                                         *)

\* selectColumns: the live count.
UpvoteCount(s) == Cardinality({v \in Voter : <<v, s>> \in upvotes})

\* Rank's comparison, which ListByProblem's ORDER BY makes too.
BugNewestFirst(s, t) ==
    UpvoteCount(s) > UpvoteCount(t) \/ (UpvoteCount(s) = UpvoteCount(t) /\ s > t)
Ahead(s, t) ==
    UpvoteCount(s) > UpvoteCount(t) \/ (UpvoteCount(s) = UpvoteCount(t) /\ s < t)

Ranked ==
    CHOOSE r \in SetToSeqs(posted) : \A i, j \in DOMAIN r : i < j => Ahead(r[i], r[j])

\* IsTop: every suggestion with the greatest count, were it not zero.
BugTopAtZero(s) == \A t \in posted : UpvoteCount(t) <= UpvoteCount(s)
IsTop(s) == UpvoteCount(s) > 0 /\ \A t \in posted : UpvoteCount(t) <= UpvoteCount(s)

\* Service.Top: the first of the ranking, if it is a top.
TopOfRanking == IF Ranked = <<>> \/ ~ IsTop(Head(Ranked)) THEN NoTop ELSE Head(Ranked)

-----------------------------------------------------------------------------
(* The requests. *)

Step(q, pc) == asking[q].pc = pc
Then(q, h) == asking' = [asking EXCEPT ![q] = h]
Ends(q) == Then(q, Free)

\* ProposeSuggestion; it was stamped when it was made.
Propose(s) ==
    /\ s \notin posted /\ ~ erased
    /\ posted' = posted \cup {s}
    /\ UNCHANGED <<upvotes, erased, answered, button, led, asking>>

\* UpvoteSuggestion loads the suggestion and finds the voter eligible.  A second press
\* before the first is answered disturbs them both.
Concerns(q, v, s) == asking[q].pc \in {"check", "write", "relist"} /\ asking[q].by = v /\ asking[q].on = s
Press(q, v, s) ==
    /\ Step(q, "free") /\ s \in posted
    /\ LET others == {p \in Asking : Concerns(p, v, s)} IN
       asking' = [p \in Asking |->
            IF p = q THEN [pc |-> "check", by |-> v, on |-> s, alone |-> others = {}]
            ELSE IF p \in others THEN [asking[p] EXCEPT !.alone = FALSE] ELSE asking[p]]
    /\ button' = [button EXCEPT ![<<v, s>>] = Unsure]
    /\ UNCHANGED <<posted, upvotes, erased, answered, led>>

\* HasUpvoted.
Check(q) ==
    LET h == asking[q] IN
    /\ Step(q, "check")
    /\ Then(q, [pc |-> "write", by |-> h.by, on |-> h.on, alone |-> h.alone,
                has |-> <<h.by, h.on>> \in upvotes])
    /\ UNCHANGED <<posted, upvotes, erased, answered, button, led>>

BugRemovesThemAll(v, s) == {b \in upvotes : b[2] # s}
Without(v, s) == upvotes \ {<<v, s>>}

BugNoForeignKey(s) == TRUE
\* suggestion_votes references suggestions.
Referenced(s) == s \in posted

\* RemoveUpvote or AddUpvote; both are idempotent, and a vote on what was erased meanwhile
\* breaks the foreign key.
Toggle(q) ==
    LET h == asking[q] IN
    /\ Step(q, "write")
    /\ \/ /\ h.has
          /\ upvotes' = Without(h.by, h.on)
          /\ Then(q, [h EXCEPT !.pc = "relist"])
       \/ /\ ~ h.has /\ Referenced(h.on)
          /\ upvotes' = upvotes \cup {<<h.by, h.on>>}
          /\ Then(q, [h EXCEPT !.pc = "relist"])
       \/ ~ h.has /\ ~ Referenced(h.on) /\ Ends(q) /\ UNCHANGED upvotes
    /\ UNCHANGED <<posted, erased, answered, button>>
    /\ led' = led \cup ({TopOfRanking'} \ {NoTop})

\* The list is read again to answer; the voter is told which way the toggle went.
BugTellsTheOldWay(q) == asking[q].has
Upvoted(q) == ~ asking[q].has

Relist(q) ==
    LET h == asking[q] IN
    /\ Step(q, "relist")
    /\ button' = [button EXCEPT ![<<h.by, h.on>>] =
            IF h.on \in posted /\ h.alone THEN Known(Upvoted(q)) ELSE Unsure]
    /\ Ends(q)
    /\ UNCHANGED <<posted, upvotes, erased, answered, led>>

\* ListMyUpvotes decorates a list read while no press of the reader's is open.
Look(v) ==
    /\ \A q \in Asking, s \in Suggestion : ~ Concerns(q, v, s)
    /\ button' = [b \in Voter \X Suggestion |->
            IF b[1] = v THEN Known(b \in upvotes) ELSE button[b]]
    /\ UNCHANGED <<posted, upvotes, erased, answered, led, asking>>

\* SubmitPlan, RevisePlan: the top is read as the plan is made, and stored with it if the
\* case still exists.
ReadTop(q) ==
    /\ Step(q, "free") /\ ~ erased
    /\ Then(q, [pc |-> "plan", top |-> TopOfRanking])
    /\ UNCHANGED <<posted, upvotes, erased, answered, button, led>>

StorePlan(q) ==
    /\ Step(q, "plan")
    /\ answered' = IF erased THEN answered ELSE asking[q].top
    /\ Ends(q)
    /\ UNCHANGED <<posted, upvotes, erased, button, led>>

\* The reporter erases the report, at any moment; suggestions, votes and the case's plan
\* cascade (DeleteProblem).
Erase ==
    /\ ~ erased /\ erased' = TRUE
    /\ posted' = {} /\ upvotes' = {}
    /\ answered' = NoPlan
    /\ button' = [b \in Voter \X Suggestion |-> Unsure]
    /\ UNCHANGED <<led, asking>>

\* The request ends between two statements, unanswered.
Drop(q) ==
    /\ ~ Step(q, "free")
    /\ Ends(q)
    /\ UNCHANGED <<posted, upvotes, erased, answered, button, led>>

VoicesNext ==
    \/ \E s \in Suggestion : Propose(s)
    \/ \E v \in Voter : Look(v)
    \/ Erase
    \/ \E q \in Asking :
        \/ \E v \in Voter, s \in Suggestion : Press(q, v, s)
        \/ Check(q) \/ Toggle(q) \/ Relist(q) \/ ReadTop(q) \/ StorePlan(q) \/ Drop(q)

VoicesSpec == VoicesInit /\ [][VoicesNext]_voices

-----------------------------------------------------------------------------
(* Properties. *)

Question ==
    {Free}
    \cup [pc : {"check"}, by : Voter, on : Suggestion, alone : BOOLEAN]
    \cup [pc : {"write", "relist"}, by : Voter, on : Suggestion, alone : BOOLEAN, has : BOOLEAN]
    \cup [pc : {"plan"}, top : Suggestion \cup {NoTop}]

\* Votes are on suggestions that exist, and nothing outlives an erased report.
VoicesTypeOK ==
    /\ posted \subseteq Suggestion
    /\ upvotes \subseteq Voter \X posted
    /\ answered \in Suggestion \cup {NoTop, NoPlan}
    /\ button \in [Voter \X Suggestion -> {Known(TRUE), Known(FALSE), Unsure}]
    /\ asking \in [Asking -> Question]
    /\ erased => posted = {}

\* upvote_suggestion.go:31-37: whoever else presses, proposes or reads meanwhile, what a
\* voter was last told of their own upvote is so, unless presses of theirs overlapped.
ToggleTold ==
    \A b \in Voter \X Suggestion : button[b] \in {Unsure, Known(b \in upvotes)}

\* An upvote comes and goes only by its voter's own request, or with the report.
OwnVoteOnly ==
    [][\A v \in Voter, s \in Suggestion :
        (<<v, s>> \in upvotes) # (<<v, s>> \in upvotes') =>
            erased' \/ \E q \in Asking : Concerns(q, v, s)]_voices

\* service.go:40: the one suggestion a plan must answer is the oldest of those no other
\* outdoes, and there is none until one is upvoted; it is the first the page shows.
OneQuestion ==
    LET Best == {s \in posted : \A t \in posted : UpvoteCount(t) <= UpvoteCount(s)} IN
    IF upvotes = {} THEN TopOfRanking = NoTop
    ELSE TopOfRanking = Min(Best) /\ Head(Ranked) = Min(Best)

\* plan.go:13-16: the question a plan is shown to answer was, at some moment, the one
\* that led, however the votes moved before or after.
AnsweredHasLed == answered \in led \cup {NoTop, NoPlan}

\* Votes, what their voters were told of them, the ranking and the plans that answer it
\* say one thing in every state.
VoicesAreCounted == VoicesTypeOK /\ ToggleTold /\ OneQuestion /\ AnsweredHasLed
=============================================================================
