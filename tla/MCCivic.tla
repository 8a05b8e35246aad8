--------------------------------- MODULE MCCivic ---------------------------------
(* The components around the two lifecycles, in one instance for TLC: forwarding    *)
(* (its own module gives the place and the people), the suggestions, the public       *)
(* judgment of obstacles, the messages and the views.  They share no rows that both      *)
(* write, so a behaviour takes one of them and leaves the others as they began: the       *)
(* product of their states would show nothing that each alone does not.                *)
EXTENDS MCForwarding, Voices, Judgment, Inbox, Views

CONSTANTS rep, v1, v2, p1, c1

\* Requests are alike in every component, and so are the two who upvote.
Alike ==
    {p @@ q : p \in Permutations(Voter), q \in Requests}

MCUnionOf == [v \in {rep} \cup Admin |-> IF v \in Admin THEN AdminUnion(Directory, v) ELSE None]
MCUnion == UnionOfArea(Where)

VARIABLE part

civic == <<part, vars, voices, judgment, inbox, views>>

CivicInit ==
    /\ part \in {"forwarding", "voices", "judgment", "inbox", "views"}
    /\ Init /\ (part # "forwarding" => pointed = mp)
    /\ VoicesInit
    /\ JudgmentInit /\ (part # "judgment" => work = "Planned")
    /\ InboxInit
    /\ ViewsInit

CivicNext ==
    /\ UNCHANGED part
    /\ \/ /\ part = "forwarding" /\ Next
          /\ UNCHANGED <<voices, judgment, inbox, views>>
       \/ /\ part = "voices" /\ VoicesNext
          /\ UNCHANGED <<vars, judgment, inbox, views>>
       \/ /\ part = "judgment" /\ JudgmentNext
          /\ UNCHANGED <<vars, voices, inbox, views>>
       \/ /\ part = "inbox" /\ InboxNext
          /\ UNCHANGED <<vars, voices, judgment, views>>
       \/ /\ part = "views" /\ ViewsNext
          /\ UNCHANGED <<vars, voices, judgment, inbox>>

CivicSpec == CivicInit /\ [][CivicNext]_civic
=============================================================================
