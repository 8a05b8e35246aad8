--------------------------------- MODULE Ladder ---------------------------------
(***************************************************************************)
(* The seat's geography and the officials' directory, and the three questions *)
(* every context asks of them: which union an area or an admin belongs to,    *)
(* who decides or advises on a report, and who watches whom.  Both tables are *)
(* read-only, so they are parameters; the directory is passed to an operator  *)
(* where a model wants to ask about many.                                     *)
(***************************************************************************)
EXTENDS Naturals, Sequences, SequencesExt

CONSTANTS
    Area, Level, Parent,    \* areas: areas, their level and parent_id
    Admin, AdminOffice,     \* admin accounts and their official_id, None if empty
    None

ASSUME LadderAssumption ==
    /\ Level \in [Area -> {"seat", "upazila", "union", "ward"}]
    /\ Parent \in [Area -> Area \cup {None}]
    /\ None \notin Area

\* Operators named Bug... stand for no code: each is a plausible slip in the
\* definition after it, kept to confirm that the stated properties notice it.

\* valueobject.Tier; "unknown" stands for any string IsUnionLevel has not heard of.
UnionTier == {"ward_member", "women_member", "union_chairman",
              "pourashava_councillor", "pourashava_mayor"}
UpazilaTier == {"upazila_chairman", "upazila_vice_chairman"}
Tier == UnionTier \cup UpazilaTier \cup {"mp", "minister"}

\* UnionOfArea: levels above the union are returned unchanged.
UnionOfArea(a) == IF Level[a] = "ward" THEN Parent[a] ELSE a

\* UpazilaOfArea and its twin in the adapters; None is the empty string.
UpazilaOfArea(a) ==
    CASE Level[a] = "upazila" -> a
      [] Level[a] = "union" -> Parent[a]
      [] Level[a] = "ward" -> IF Parent[a] = None THEN None ELSE Parent[Parent[a]]
      [] Level[a] = "seat" -> None

\* AdminUnion: by way of the admin's own office; fails closed to None.
AdminUnion(dir, v) ==
    IF AdminOffice[v] \in DOMAIN dir THEN UnionOfArea(dir[AdminOffice[v]].area) ELSE None

\* Service.Route: who decides, and from how far around advice is heard.
Route(tier) == IF tier \in UnionTier THEN "union"
               ELSE IF tier \in UpazilaTier THEN "upazila" ELSE "seat"
AboveUnion(tier) == Route(tier) # "union"

\* EligibleAdvisers: of the whole seat, or of the upazila the report lies in; an
\* admin whose upazila is not resolved advises on nothing of an upazila.
EligibleAdvisers(dir, scope, a) ==
    IF scope = "seat" THEN Admin
    ELSE {v \in Admin :
            /\ AdminOffice[v] \in DOMAIN dir
            /\ UpazilaOfArea(dir[AdminOffice[v]].area) # None
            /\ UpazilaOfArea(dir[AdminOffice[v]].area) = UpazilaOfArea(a)}

\* byTier, byTierArea: the first of the directory's order, which is fixed.
Seated(dir, tier, areas) == {o \in DOMAIN dir : dir[o].tier = tier /\ dir[o].area \in areas}
First(S) == IF S = {} THEN None ELSE CHOOSE o \in S : TRUE

\* The rung above an official: a chairman of the enclosing upazila, or an MP.  A
\* vacant office is None; nobody is promoted into it.
RungAbove(dir, o) ==
    CASE Level[dir[o].area] \in {"ward", "union"} ->
            First(Seated(dir, "upazila_chairman", {UpazilaOfArea(dir[o].area)}))
      [] Level[dir[o].area] = "upazila" -> First(Seated(dir, "mp", Area))
      [] Level[dir[o].area] = "seat" -> None

\* MonitorChain's loop: it ends at a vacant rung and at one already on the chain.
EndOfChain(o, c, next) == next = None \/ next \in {o} \cup Range(c)

MonitorChain(dir, o, rungs) ==
    LET chain[k \in 0..rungs] ==
            IF k = 0 THEN << >>
            ELSE LET c == chain[k - 1]
                     from == IF c = << >> THEN o ELSE c[Len(c)]
                     next == RungAbove(dir, from) IN
                 IF Len(c) < k - 1 \/ EndOfChain(o, c, next) THEN c ELSE Append(c, next)
    IN chain[rungs]

\* MonitorFor: the chain asked for its first rung.
MonitorFor(dir, o) ==
    LET c == MonitorChain(dir, o, 1) IN IF c = << >> THEN None ELSE c[1]
=============================================================================
