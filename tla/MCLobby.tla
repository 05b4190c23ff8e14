------------------------------ MODULE MCLobby ------------------------------
(***************************************************************************)
(* The lobby's room, one question at a time: a theme says who comes, what  *)
(* the worker does and what the pages ask meanwhile.  Everything that is   *)
(* begun is carried through by the lobby's own actions.  Outside the theme *)
(* of two handlers, one is in flight at a time beside follow_seats.        *)
(***************************************************************************)
EXTENDS Lobby

CONSTANTS ann, bob, cal     \* pages: two of the room, one of another room

\* Whom and what the themes name is there.
ASSUME ThemesAssumption ==
    {ann, bob} \subseteq Here /\ {1, 2} \subseteq Chairs /\ <<ann, 1>> \in Sessions

MCLogin == [g \in Guests |-> g]
MCAway == {cal}

\* What the lobby does of itself for what was begun.
Carries == serves \/ \E t \in Tasks : broadcast(t) \/ tell_owner(t) \/ synchronise(t)

Comes(g) == connect(g) /\ (g = bob => visits[ann] # 0)
Departs == \E s \in Sessions : disconnect(s)
EverybodyCame == \A g \in Here : visits[g] # 0
Attributes(P) == \E g \in Here, p \in P : worker_gives(g, p)
Detaches(P) == \E p \in P : pad_ends(p)
Follows == follow_seats \/ follow_reads
Announces == (\E g \in Here : seat(g)) \/ \E t \in Tasks : seat_reads(t)

\* What a behaviour of a theme stays within.
OneHandler == task'[2].pc = "idle"
OneVisit(G) == \A g \in G : visits'[g] <= 1
GivesAtMost(n) == Len(takers') <= n

\* Names under the seats: pages come and go, seats are given, the first is let go
\* and given to another, and all of it is read by the loop while they say who they
\* are.
NamesTheme ==
    /\ \/ Carries \/ Follows \/ Naming \/ Departs \/ Attributes({1}) \/ Detaches({1})
       \/ \E g \in Here : Comes(g)
    /\ OneHandler /\ OneVisit(Guests) /\ GivesAtMost(2)

\* Two handlers in flight on one seat, one page loaded again.
HandlersTheme ==
    /\ \/ Carries \/ disconnect(<<ann, 1>>) \/ Attributes({1}) \/ Detaches({1}) \/ Announces
       \/ \E g \in Here : Comes(g)
    /\ OneVisit({bob}) /\ GivesAtMost(2)

\* The worker starts again, or answers too late, and the loop goes on.
RestartsTheme ==
    /\ \/ Carries \/ Follows \/ Attributes({1}) \/ Detaches({1}) \/ worker_ends \/ Announces
       \/ connect(ann)
       \/ \E t \in Tasks : times_out(t)
    /\ OneHandler /\ OneVisit(Guests) /\ GivesAtMost(2)

\* A game is prepared and launched, or closed, while the second seat is let go and
\* taken again.
LaunchTheme ==
    /\ \/ Carries
       \/ ~EverybodyCame /\ \E g \in Here : Comes(g)
       \/ EverybodyCame /\ \/ Announces \/ Launching \/ Detaches({2}) \/ worker_drops
                           \/ takers = <<>> /\ worker_gives(ann, 1)
                           \/ worker_gives(bob, 2)
    /\ OneHandler /\ OneVisit(Guests)

\* The role of owner changes hands, in two rooms.
OwnerTheme ==
    /\ \/ Carries \/ Recoveries \/ read_room \/ speaks_elsewhere \/ Departs
       \/ \E g \in Guests : Comes(g)
    /\ OneHandler /\ OneVisit(Guests)

\* A page asks for the seat of another, while the first seat is let go.
RecoveryTheme ==
    /\ \/ Carries
       \/ ~EverybodyCame /\ \E g \in Here : Comes(g)
       \/ EverybodyCame /\ (Announces \/ Attributes(Chairs) \/ Detaches({1}) \/ Recoveries)
    /\ OneHandler /\ OneVisit(Guests) /\ GivesAtMost(2)
=============================================================================
