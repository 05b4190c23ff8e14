---------------------------- MODULE LobbyProofs -----------------------------
(***************************************************************************)
(* What the lobby's room keeps true, for any pages, logins, seats and      *)
(* numbers of handlers in flight, of visits and of ends of the worker.     *)
(*                                                                         *)
(* The invariant has a part for each thing the two sides must agree on:    *)
(* what stands in the line is what its handler waits for; the name under a *)
(* seat is of who was given its receipt; what the worker obeys is what the *)
(* last order said, or it started again and no table read since shows a    *)
(* seat; what is not shown is about to be told; a launch on its way was    *)
(* said ready by everybody it is for.                                      *)
(***************************************************************************)
EXTENDS Lobby, FiniteSetTheorems, SequenceTheorems, WellFoundedInduction, TLAPS

-----------------------------------------------------------------------------
(* Types *)

Logins == {LoginOf[g] : g \in Guests} \union {NoLogin}
Named == Sessions \union {NoSession}

\* The receipts that were given, and the tables made of them.
Given == [Chairs -> 0..Len(takers)]
Dealt == Given \union {Mute}

ReadyOnes == [Chairs -> [claim : 0..MaxGiven, ready : BOOLEAN]]
Preparations == [id : Nat, starter : 0..MaxGiven, players : ReadyOnes]
Demands == [id : Nat, asker : Named, targets : SUBSET Sessions, port : 0..PADS,
            expected : Logins \union 0..MaxGiven, age : 0..2, accepted : BOOLEAN]
Salons == [claims : [Chairs -> Named], receipts : [Sessions -> 0..MaxGiven],
           known : Tables \union {Mute}, told : -1..PADS, prep : Preparations,
           recovery : Demands, refused : [0..PADS -> Logins \union 0..MaxGiven], begun : Nat]
Folks == [present : Seq(Sessions), owner : Logins]
Views == [names : [Chairs -> Named], prep : Nat, seat : 0..PADS]

Asked == {"seats", "owner", "decides", "launch", "stop"}
Ways == Asked \union {"idle", "enter", "sync", "describe", "library", "broadcast"}
Works == {"none", "tell", "seat", "follow", "prepare", "close", "recover"}
Spoken == [act : {"none", "seat", "begin", "ready", "unready", "cancel", "launch", "yes", "no", "finish"},
             port : 0..PADS, claim : 0..MaxGiven, id : Nat]
Handlers == [op : Works, sid : Named, pc : Ways, message : Spoken,
             answer : Tables \union {Mute, "ok", "no"}, view : Tables \union {Mute} \union Views]
Entries == [by : Tasks \union {-1}, what : Asked, about : Tables \union 0..PADS, done : BOOLEAN]

WorkerTypes ==
    /\ table \in Given /\ takers \in Seq(Guests \X Chairs) /\ Len(takers) <= MaxGiven
    /\ obeyed \in 0..PADS /\ accepted \in {"nothing", "launch", "stop"} /\ process \in 1..MaxProcesses
RoomTypes ==
    /\ people \in Folks /\ visits \in [Guests -> 0..MaxVisits] /\ salon \in Salons
    /\ painted \in Views /\ said \in [1..MaxGiven -> [id : Nat, by : Guests \union {NoLogin}]]
    /\ late \in 0..MaxLate /\ unsaid \in BOOLEAN
TaskTypes == task \in [Tasks -> Handlers] /\ line \in Seq(Entries)

\* What a handler on its way holds: what it read of the worker is made of receipts
\* that were given, and the seat it says a page has is one the page was given.
Proper(h) ==
    /\ h.pc = "seats" => h.answer \in Dealt
    /\ h.pc = "owner" => h.answer \in {Mute, "ok"} /\ h.view \in Views
    /\ h.pc \in {"decides", "library"} => h.view \in Given
    /\ h.pc = "sync" => h.op \in {"seat", "follow", "prepare"}
    /\ h.pc \in {"describe", "decides", "launch"} => h.op = "prepare"
    /\ h.op = "seat" /\ h.pc \in {"sync", "seats"} =>
        /\ h.sid \in Sessions /\ h.message.port \in Chairs
        /\ h.message.claim \in 1..Len(takers)
        /\ takers[h.message.claim] = <<h.sid[1], h.message.port>>
    /\ h.op = "prepare" /\ h.pc \in {"enter", "sync", "seats", "describe"} => h.sid \in Sessions
    /\ h.op = "recover" /\ h.pc \in {"enter", "seats"} =>
        /\ h.sid \in Sessions
        /\ h.pc = "seats" /\ h.message.act = "begin" => h.message.port \in Chairs

HandlerTypes == \A t \in Tasks : Proper(task[t])
OrderTypes ==
    \A i \in DOMAIN line :
        /\ line[i].what = "owner" => line[i].about \in 0..PADS
        /\ line[i].what \in {"launch", "stop"} => line[i].about \in Given
ReadTypes ==
    salon.known \in Dealt /\ \A p \in Chairs : salon.prep.players[p].claim <= Len(takers)

LobbyTypes == WorkerTypes /\ RoomTypes /\ ReadTypes /\ TaskTypes /\ HandlerTypes /\ OrderTypes

-----------------------------------------------------------------------------
(* The line: an order that is awaited is at its handler's place, answered ones come *)
(* first, and an answer is there until it is taken.                                 *)

Awaited(order, h) ==
    /\ h.pc = order.what
    /\ ~order.done => h.answer = Mute
    /\ order.what = "owner" => /\ h.view.seat = order.about
                               /\ order.done => h.answer = "ok"

LineInv ==
    /\ \A i, j \in DOMAIN line : i < j /\ line[j].done => line[i].done
    /\ \A i, j \in DOMAIN line : line[i].by = line[j].by /\ line[i].by \in Tasks => i = j
    /\ \A i \in DOMAIN line : line[i].done => line[i].by \in Tasks
    /\ \A i \in DOMAIN line : late = 0 => line[i].by \in Tasks
    /\ \A i \in DOMAIN line : line[i].by \in Tasks => Awaited(line[i], task[line[i].by])
    /\ \A t \in Tasks : task[t].answer # Mute =>
        \E i \in DOMAIN line : line[i].by = t /\ line[i].done

-----------------------------------------------------------------------------
(* The names: NamesAgree, of any room, with receipts that were given.             *)

WellNamed(room) ==
    \A p \in Chairs : LET s == room.claims[p] IN s # NoSession =>
        /\ room.known # Mute => room.receipts[s] = room.known[p]
        /\ room.receipts[s] \in 1..Len(takers) /\ takers[room.receipts[s]] = <<s[1], p>>
        /\ \A q \in Chairs \ {p} : room.claims[q] # s

NamesInv == WellNamed(salon)

-----------------------------------------------------------------------------
(* What the worker obeys: what the last order it served says, or nothing since it *)
(* started again, as long as no table that was read shows a seat it has.          *)

\* A table that shows no seat as it is now.
Past(seen) == seen = Mute \/ \A p \in Chairs : seen[p] = 0 \/ seen[p] # table[p]

Said(i) == line[i].done /\ line[i].what = "owner"
ObeysLast ==
    \/ salon.told \in {-1, obeyed} /\ \A i \in DOMAIN line : ~Said(i)
    \/ \E i \in DOMAIN line : Said(i) /\ line[i].about = obeyed
                              /\ \A j \in DOMAIN line : Said(j) => j <= i
StartedAgain ==
    /\ obeyed = 0 /\ Past(salon.known)
    /\ \A i, j \in DOMAIN line : Said(i) /\ j < i /\ line[j].done /\ line[j].what = "seats"
        => Past(task[line[j].by].answer)

TellInv == late = 0 => ObeysLast \/ StartedAgain

-----------------------------------------------------------------------------
(* What the pages show, or are about to be told. *)

Telling(t) == task[t].pc \in {"broadcast", "owner"}
ToldInv == unsaid \/ painted = describe(salon, people) \/ \E t \in Tasks : Telling(t)

-----------------------------------------------------------------------------
(* A launch: one handler at a time works at the preparation, and whoever is ready *)
(* said so.                                                                       *)

LockPlaces == {"sync", "seats", "describe", "decides", "library", "launch", "stop", "broadcast", "owner"}
Locks(h) == h.op \in {"prepare", "close"} /\ h.pc \in LockPlaces

SaidBy(r, id) == said[r] = [id |-> id, by |-> takers[r][1]]

Confirmed(prep) ==
    \A p \in Chairs : prep.players[p].claim # 0 /\ prep.players[p].ready
        => SaidBy(prep.players[p].claim, prep.id)

OneLock == \A t, u \in Tasks : Locks(task[t]) /\ Locks(task[u]) => t = u

SpokenFor(seats, id) == \A p \in Chairs : seats[p] # 0 => SaidBy(seats[p], id)
Launches ==
    \A i \in DOMAIN line : line[i].by \in Tasks /\ line[i].what = "launch"
        => SpokenFor(line[i].about, task[line[i].by].message.id)

LaunchInv == OneLock /\ Confirmed(salon.prep) /\ Launches

LobbyInv == LobbyTypes /\ LineInv /\ NamesInv /\ TellInv /\ ToldInv /\ LaunchInv
-----------------------------------------------------------------------------
(* What the operators of the lobby return *)

\* The constants, as the proofs use them.
LEMMA LobbyConstants ==
    /\ PADS \in Nat /\ MaxTasks \in Nat /\ MaxVisits \in Nat /\ MaxGiven \in Nat
    /\ MaxProcesses \in Nat /\ MaxProcesses # 0 /\ MaxLate \in Nat
    /\ Mute \notin Tables /\ Mute # "ok" /\ Mute # "no"
    /\ NoSession \notin Sessions /\ NoTable \in Tables
    /\ \A s \in Sessions : s[1] \in Guests /\ Login(s) \in Logins /\ Login(s) # NoLogin
<1>1. NoSession \notin Sessions
  <2> SUFFICES ASSUME NoSession \in Sessions PROVE FALSE
    OBVIOUS
  <2>1. 0 \in 1..MaxVisits
    BY DEF NoSession, Sessions
  <2> QED BY <2>1, LobbyAssumption
<1>2. NoTable \in Tables
  BY LobbyAssumption DEF NoTable, Tables, Chairs
<1> QED BY <1>1, <1>2, LobbyAssumption DEF Sessions, Login, Logins

\* A room is the record of its parts.
LEMMA SalonParts ==
    ASSUME NEW room \in Salons
    PROVE  /\ room.claims \in [Chairs -> Named] /\ room.receipts \in [Sessions -> 0..MaxGiven]
           /\ room.known \in Tables \union {Mute} /\ room.told \in -1..PADS
           /\ room.prep \in Preparations /\ room.recovery \in Demands /\ room.begun \in Nat
           /\ SeatsOf(room) \in Tables
           /\ room = [claims |-> room.claims, receipts |-> room.receipts, known |-> room.known,
                      told |-> room.told, prep |-> room.prep, recovery |-> room.recovery,
                      refused |-> room.refused, begun |-> room.begun]
BY LobbyConstants DEF Salons, SeatsOf

\* A room where nothing is begun.
LEMMA NothingPrepared ==
    /\ NoPreparation \in Preparations /\ NoPreparation.id = 0
    /\ \A p \in Chairs : NoPreparation.players[p].claim = 0 /\ ~NoPreparation.players[p].ready
    /\ NoRecovery \in Demands /\ NoRecovery.id = 0
<1>1. NoPreparation.players \in ReadyOnes
  BY LobbyConstants DEF NoPreparation, ReadyOnes
<1> QED BY <1>1, LobbyConstants DEF NoPreparation, Preparations, NoRecovery, Demands, Named, ReadyOnes

\* The seat of a session is one that bears its name, or none does.
LEMMA SeatOfType ==
    ASSUME NEW room, NEW s
    PROVE  /\ seat_of(room, s) \in 0..PADS
           /\ seat_of(room, s) # 0 => seat_of(room, s) \in Chairs /\ room.claims[seat_of(room, s)] = s
           /\ seat_of(room, s) = 0 => \A p \in Chairs : room.claims[p] # s
BY LobbyConstants DEF seat_of, Chairs

\* release takes the names, and the receipts, of those it is given.
LEMMA ReleaseType ==
    ASSUME NEW room \in Salons, NEW S
    PROVE  /\ release(room, S) \in Salons
           /\ release(room, S).known = room.known /\ release(room, S).told = room.told
           /\ release(room, S).prep = room.prep /\ release(room, S).recovery = room.recovery
           /\ release(room, S).refused = room.refused /\ release(room, S).begun = room.begun
           /\ \A p \in Chairs : release(room, S).claims[p] =
                IF room.claims[p] \in S THEN NoSession ELSE room.claims[p]
           /\ \A s \in Sessions : release(room, S).receipts[s] = IF s \in S THEN 0 ELSE room.receipts[s]
<1>1. room.claims \in [Chairs -> Named] /\ room.receipts \in [Sessions -> 0..MaxGiven]
  BY SalonParts
<1> DEFINE C == [p \in Chairs |-> IF room.claims[p] \in S THEN NoSession ELSE room.claims[p]]
           R == [s \in Sessions |-> IF s \in S THEN 0 ELSE room.receipts[s]]
<1>2. C \in [Chairs -> Named] /\ R \in [Sessions -> 0..MaxGiven]
  BY <1>1, LobbyConstants DEF Named
<1>3. release(room, S) = [room EXCEPT !.claims = C, !.receipts = R]
  BY SalonParts DEF release
<1> HIDE DEF C, R
<1>4. /\ release(room, S) \in Salons /\ release(room, S).claims = C /\ release(room, S).receipts = R
      /\ release(room, S).known = room.known /\ release(room, S).told = room.told
      /\ release(room, S).prep = room.prep /\ release(room, S).recovery = room.recovery
      /\ release(room, S).refused = room.refused /\ release(room, S).begun = room.begun
  BY <1>2, <1>3 DEF Salons
<1> QED BY <1>3, <1>4 DEF C, R

\* observe_seats keeps a room a room, and what it leaves alone.
LEMMA ObserveType ==
    ASSUME NEW room \in Salons, NEW seen \in Tables \union {Mute}
    PROVE  LET after == observe_seats(room, seen) IN
           /\ after \in Salons
           /\ after.prep = room.prep /\ after.recovery = room.recovery /\ after.begun = room.begun
           /\ after.refused = room.refused
           /\ after.known = IF seen = Mute THEN room.known ELSE seen
           /\ after.told = IF seen # Mute /\ Changes(room, seen) THEN -1 ELSE room.told
           /\ seen = Mute \/ ~Changes(room, seen) => after.claims = room.claims
<1>1. CASE seen = Mute
  BY <1>1 DEF observe_seats
<1>2. CASE seen # Mute
  <2> DEFINE S == Stale(room, seen)
             kept == release(room, S)
             told == IF Changes(room, seen) THEN -1 ELSE room.told
  <2>1. /\ kept \in Salons /\ kept.prep = room.prep /\ kept.recovery = room.recovery
        /\ kept.begun = room.begun /\ kept.refused = room.refused /\ kept.told = room.told
        /\ S = {} => kept.claims = room.claims
    <3>1. \A p \in Chairs : kept.claims[p] = IF room.claims[p] \in S THEN NoSession ELSE room.claims[p]
      BY ReleaseType
    <3>2. kept \in Salons
      BY ReleaseType
    <3>3. kept.claims \in [Chairs -> Named] /\ room.claims \in [Chairs -> Named]
      BY <3>2, SalonParts
    <3>4. S = {} => kept.claims = room.claims
      BY <3>1, <3>3
    <3> QED BY <3>2, <3>4, ReleaseType
  <2>2. observe_seats(room, seen) = [kept EXCEPT !.known = seen, !.told = told]
    BY <1>2, <2>1 DEF observe_seats
  <2>3. ~Changes(room, seen) => S = {}
    BY DEF Changes
  <2> HIDE DEF S, kept
  <2>4. told \in -1..PADS
    BY SalonParts, LobbyConstants
  <2> HIDE DEF told
  <2>5. /\ observe_seats(room, seen) \in Salons
        /\ observe_seats(room, seen).told = told /\ observe_seats(room, seen).known = seen
        /\ observe_seats(room, seen).claims = kept.claims
        /\ observe_seats(room, seen).prep = kept.prep
        /\ observe_seats(room, seen).recovery = kept.recovery
        /\ observe_seats(room, seen).begun = kept.begun
        /\ observe_seats(room, seen).refused = kept.refused
    BY <1>2, <2>1, <2>2, <2>4 DEF Salons
  <2> QED BY <1>2, <2>1, <2>3, <2>5 DEF told
<1> QED BY <1>1, <1>2

\* claim keeps a room a room.
LEMMA ClaimedType ==
    ASSUME NEW room \in Salons, NEW s \in Sessions, NEW port \in Chairs, NEW claim \in 0..MaxGiven
    PROVE  LET after == Claimed(room, s, port, claim) IN
           /\ after \in Salons
           /\ after.prep = room.prep /\ after.known = room.known /\ after.told = room.told
<1> DEFINE C == [p \in Chairs |-> IF p = port THEN s ELSE IF room.claims[p] = s THEN NoSession
                                                           ELSE room.claims[p]]
           R == [room.receipts EXCEPT ![s] = claim]
<1>1. C \in [Chairs -> Named] /\ R \in [Sessions -> 0..MaxGiven]
  BY SalonParts DEF Named
<1>2. \/ Claimed(room, s, port, claim) = room
      \/ Claimed(room, s, port, claim) = [room EXCEPT !.claims = C, !.receipts = R]
  BY SalonParts DEF Claimed
<1> HIDE DEF C, R
<1> QED BY <1>1, <1>2 DEF Salons

\* forget_absent only releases.
LEMMA ForgetType ==
    ASSUME NEW room \in Salons
    PROVE  LET after == forget_absent(room) IN
           /\ after \in Salons
           /\ after.prep = room.prep /\ after.known = room.known /\ after.told = room.told
<1> DEFINE S == {room.claims[p] : p \in Chairs} \ (Present \union {NoSession})
<1>1. forget_absent(room) = release(room, S)
  BY DEF forget_absent
<1> HIDE DEF S
<1> QED BY <1>1, ReleaseType

\* A set of numbers has a first one.
LEMMA FirstOf ==
    ASSUME NEW S, S \subseteq Nat, S # {}
    PROVE  Min(S) \in S
<1> DEFINE R == OpToRel(<, Nat)
<1>1. IsWellFoundedOn(R, Nat)
  BY NatLessThanWellFounded
<1>2. \A x, y \in Nat : x < y => <<x, y>> \in R
  BY DEF OpToRel
<1> HIDE DEF R
<1>3. PICK x \in S : \A y \in S : ~ (<<y, x>> \in R)
  BY <1>1, WFMin
<1>4. ASSUME NEW y \in S PROVE x <= y
  <2>1. x \in Nat /\ y \in Nat /\ ~(y < x)
    BY <1>2, <1>3
  <2> QED BY <2>1
<1> QED BY <1>4 DEF Min

\* Asking for the owner writes down a login and moves nobody.
LEMMA OwnerType ==
    ASSUME NEW folk \in Folks, NEW pages
    PROVE  /\ owner(folk, pages) \in Logins
           /\ Designated(folk, pages) \in Folks
           /\ Designated(folk, pages).present = folk.present
           /\ Designated(folk, pages).owner = owner(folk, pages)
<1>1. /\ folk.present \in Seq(Sessions) /\ folk.owner \in Logins /\ NoLogin \in Logins
      /\ folk = [present |-> folk.present, owner |-> folk.owner]
  BY DEF Folks, Logins
<1>2. Among(folk, pages) \subseteq Nat /\ Among(folk, pages) \subseteq DOMAIN folk.present
  BY <1>1, LenProperties DEF Among
<1>3. \A i \in Among(folk, pages) : LoginAt(folk, i) \in Logins
  BY <1>1, <1>2, ElementOfSeq, LenProperties, LobbyConstants DEF LoginAt
<1>4. owner(folk, pages) \in Logins
  BY <1>1, <1>2, <1>3, FirstOf DEF owner
<1> QED BY <1>1, <1>4 DEF Designated, Folks

\* What is described of a room can be shown.
LEMMA DescribeType ==
    ASSUME NEW room \in Salons, NEW folk \in Folks
    PROVE  describe(room, folk) \in Views
<1>1. room.claims \in [Chairs -> Named] /\ room.prep.id \in Nat
  BY SalonParts DEF Preparations
<1>2. describe(room, folk).seat \in 0..PADS
  BY SeatOfType, LobbyConstants DEF describe
<1> QED BY <1>1, <1>2 DEF describe, Views

\* The choices after a reading are those of the table that was read.
LEMMA ReconfirmedType ==
    ASSUME NEW prep \in Preparations, NEW known \in Tables
    PROVE  /\ Reconfirmed(prep, known) \in ReadyOnes
           /\ \A p \in Chairs :
                /\ Reconfirmed(prep, known)[p].claim = known[p]
                /\ Reconfirmed(prep, known)[p].ready =>
                     known[p] # 0 /\ \E q \in Chairs : prep.players[q].claim = known[p] /\ prep.players[q].ready
BY DEF Reconfirmed, ReadyOnes, Tables, Chairs

\* synchronise of a preparation touches nothing else of the room.
LEMMA PreparedType ==
    ASSUME NEW room \in Salons
    PROVE  LET after == Prepared(room) IN
           /\ after \in Salons
           /\ after.claims = room.claims /\ after.receipts = room.receipts
           /\ after.known = room.known /\ after.told = room.told
           /\ after.recovery = room.recovery /\ after.begun = room.begun /\ after.refused = room.refused
           /\ \/ after.prep = NoPreparation
              \/ /\ after.prep.id = room.prep.id /\ after.prep.id # 0
                 /\ after.prep.starter = room.prep.starter
                 /\ after.prep.players = Reconfirmed(room.prep, SeatsOf(room))
<1> DEFINE R == Reconfirmed(room.prep, SeatsOf(room))
<1>1. R \in ReadyOnes /\ room.prep \in Preparations
  BY SalonParts, ReconfirmedType
<1> HIDE DEF R
<1>2. \/ Prepared(room) = [room EXCEPT !.prep.players = R] /\ room.prep.id # 0
      \/ Prepared(room) = [room EXCEPT !.prep = NoPreparation]
  BY DEF Prepared, R
<1> DEFINE P == [room.prep EXCEPT !.players = R]
<1>3. P \in Preparations /\ P.id = room.prep.id /\ P.starter = room.prep.starter /\ P.players = R
  BY <1>1 DEF Preparations
<1>4. [room EXCEPT !.prep.players = R] = [room EXCEPT !.prep = P]
  BY <1>1, SalonParts
<1> HIDE DEF P
<1>5. ASSUME NEW Q \in Preparations
      PROVE  LET after == [room EXCEPT !.prep = Q] IN
             /\ after \in Salons
             /\ after.claims = room.claims /\ after.receipts = room.receipts
             /\ after.known = room.known /\ after.told = room.told
             /\ after.recovery = room.recovery /\ after.begun = room.begun /\ after.refused = room.refused
             /\ after.prep = Q
  BY DEF Salons
<1>6. PICK Q \in Preparations :
        /\ Prepared(room) = [room EXCEPT !.prep = Q]
        /\ Q = NoPreparation \/ (Q = P /\ room.prep.id # 0)
  <2>1. CASE Prepared(room) = [room EXCEPT !.prep = NoPreparation]
    <3>1. NoPreparation \in Preparations
      BY NothingPrepared
    <3> WITNESS NoPreparation \in Preparations
    <3> QED BY <2>1
  <2>2. CASE Prepared(room) = [room EXCEPT !.prep.players = R] /\ room.prep.id # 0
    <3>1. Prepared(room) = [room EXCEPT !.prep = P]
      BY <2>2, <1>4
    <3> QED BY <2>2, <3>1, <1>3
  <2> QED BY <1>2, <2>1, <2>2
<1>7. Q = NoPreparation \/ /\ Q.id = room.prep.id /\ Q.id # 0
                           /\ Q.starter = room.prep.starter /\ Q.players = R
  BY <1>3, <1>6
<1> HIDE DEF R
<1> QED BY <1>5, <1>6, <1>7 DEF R

\* A request that is over leaves the rest of the room.
LEMMA ClearedType ==
    ASSUME salon \in Salons
    PROVE  /\ Cleared \in Salons
           /\ Cleared.claims = salon.claims /\ Cleared.receipts = salon.receipts
           /\ Cleared.known = salon.known /\ Cleared.told = salon.told
           /\ Cleared.prep = salon.prep /\ Cleared.begun = salon.begun
           /\ Cleared.refused = salon.refused
           /\ Cleared.recovery = salon.recovery \/ Cleared.recovery = NoRecovery
BY NothingPrepared, SalonParts DEF Cleared, Salons

\* A request that begins leaves the rest of the room.
LEMMA RequestedType ==
    ASSUME NEW room \in Salons, NEW s \in Sessions, NEW targets \in SUBSET Sessions,
           NEW port \in 0..PADS, NEW expected \in Logins \union 0..MaxGiven
    PROVE  LET after == Requested(room, s, targets, port, expected) IN
           /\ after \in Salons
           /\ after.claims = room.claims /\ after.receipts = room.receipts
           /\ after.known = room.known /\ after.told = room.told /\ after.prep = room.prep
<1> DEFINE D == [NoRecovery EXCEPT !.id = room.begun + 1, !.asker = s, !.targets = targets,
                                   !.port = port, !.expected = expected]
           next == room.begun + 1
<1>1. D \in Demands /\ next \in Nat
  <2>1. next \in Nat
    BY SalonParts
  <2>2. D = [NoRecovery EXCEPT !.id = next, !.asker = s, !.targets = targets,
                               !.port = port, !.expected = expected]
    OBVIOUS
  <2> HIDE DEF next, D
  <2> QED BY <2>1, <2>2, NothingPrepared DEF Demands, Named
<1>2. Requested(room, s, targets, port, expected) = [room EXCEPT !.begun = next, !.recovery = D]
  BY SalonParts DEF Requested
<1> HIDE DEF D, next
<1>3. [room EXCEPT !.begun = next] \in Salons
  BY <1>1 DEF Salons
<1> QED BY <1>1, <1>2, <1>3 DEF Salons

\* Those who are left, before the owner is asked for.
LEMMA LeftFolk ==
    ASSUME people \in Folks, NEW s \in Present
    PROVE  LET place == CHOOSE i \in DOMAIN people.present : people.present[i] = s
               folk == [people EXCEPT !.present = RemoveAt(people.present, place)]
           IN  folk \in Folks /\ folk.owner = people.owner /\ left(s) = Designated(folk, Guests)
<1> DEFINE place == CHOOSE i \in DOMAIN people.present : people.present[i] = s
           kept == RemoveAt(people.present, place)
<1>1. /\ people.present \in Seq(Sessions) /\ people.owner \in Logins
      /\ people = [present |-> people.present, owner |-> people.owner]
  BY DEF Folks
<1>2. place \in 1..Len(people.present)
  BY <1>1, LenProperties DEF Present, ToSet
<1> HIDE DEF place
<1>3. kept \in Seq(Sessions)
  <2>1. \A i \in 1..(place - 1) : people.present[i] \in Sessions
    BY <1>1, <1>2, ElementOfSeq, LenProperties
  <2>2. \A i \in (place + 1)..Len(people.present) : people.present[i] \in Sessions
    BY <1>1, <1>2, ElementOfSeq, LenProperties
  <2>3. place \in Int /\ Len(people.present) \in Int
    BY <1>1, <1>2, LenProperties
  <2>4. SubSeq(people.present, 1, place - 1) \in Seq(Sessions)
    BY <2>1, <2>3, SubSeqProperties
  <2>5. SubSeq(people.present, place + 1, Len(people.present)) \in Seq(Sessions)
    BY <2>2, <2>3, SubSeqProperties
  <2> QED BY <2>4, <2>5, ConcatProperties DEF RemoveAt
<1> HIDE DEF kept
<1>4. [people EXCEPT !.present = kept] \in Folks /\ [people EXCEPT !.present = kept].owner = people.owner
  BY <1>1, <1>3 DEF Folks
<1>5. left(s) = Designated([people EXCEPT !.present = kept], Guests)
  BY <1>1 DEF left, kept, place
<1> QED BY <1>4, <1>5 DEF kept, place

\* Those who are left are people.
LEMMA LeftType ==
    ASSUME people \in Folks, NEW s \in Present
    PROVE  left(s) \in Folks
<1>1. \E folk \in Folks : left(s) = Designated(folk, Guests)
  BY LeftFolk
<1> QED BY <1>1, OwnerType

-----------------------------------------------------------------------------
(* The line and the handlers: a step of the lobby moves one handler between two *)
(* places where nothing is awaited, sends an order, or takes an answer.         *)

Moves(t, h) ==
    /\ task[t].pc \notin Asked /\ h.pc \notin Asked /\ h.answer = Mute
    /\ task' = [task EXCEPT ![t] = h] /\ line' = line

Sends(t, h, about) ==
    /\ task[t].pc \notin Asked /\ h.pc \in Asked /\ h.answer = Mute
    /\ h.pc = "owner" => about \in 0..PADS /\ h.view.seat = about
    /\ h.pc \in {"launch", "stop"} => about \in Given
    /\ about \in Tables \union 0..PADS
    /\ task' = [task EXCEPT ![t] = h]
    /\ line' = Append(line, [by |-> t, what |-> h.pc, about |-> about, done |-> FALSE])

TakesAnswer(t, h) ==
    /\ task[t].pc \in Asked /\ h.pc \notin Asked /\ h.answer = Mute
    /\ \A i \in DOMAIN line : line[i].by = t => i = 1 /\ line[i].done
    /\ task' = [task EXCEPT ![t] = h] /\ Taken(t)

LineTypes == TaskTypes /\ HandlerTypes /\ OrderTypes

\* The line is a sequence of orders, each handler a record.
LEMMA LineParts ==
    ASSUME TaskTypes
    PROVE  /\ Len(line) \in Nat /\ DOMAIN line = 1..Len(line)
           /\ \A i \in DOMAIN line : line[i] \in Entries
           /\ \A t \in Tasks : task[t] \in Handlers
BY LenProperties, ElementOfSeq DEF TaskTypes

\* A handler that awaits nothing has no answer, and no order of its own.
LEMMA NothingAwaited ==
    ASSUME TaskTypes, LineInv, NEW t \in Tasks, task[t].pc \notin Asked
    PROVE  task[t].answer = Mute /\ \A i \in DOMAIN line : line[i].by # t
BY LineParts DEF LineInv, Awaited, Entries, Asked

\* A handler that moves leaves the line as it is.
LEMMA MovesKeeps ==
    ASSUME LineTypes, LineInv, NEW t \in Tasks, NEW h \in Handlers, Proper(h), Moves(t, h),
           takers' = takers, late' = late
    PROVE  LineTypes' /\ LineInv'
<1>1. task' \in [Tasks -> Handlers] /\ \A u \in Tasks : task'[u] = IF u = t THEN h ELSE task[u]
  BY DEF LineTypes, TaskTypes, Moves
<1>2. LineTypes'
  BY <1>1 DEF Moves, LineTypes, TaskTypes, HandlerTypes, OrderTypes, Proper, Dealt, Given
<1>3. \A i \in DOMAIN line : line[i].by # t
  BY NothingAwaited DEF LineTypes, Moves
<1>4. h.answer = Mute /\ line' = line
  BY DEF Moves
<1>5. LineInv'
  <2>1. \A i \in DOMAIN line : line[i].by \in Tasks => Awaited(line[i], task'[line[i].by])
    BY <1>1, <1>3 DEF LineInv
  <2>2. \A u \in Tasks : task'[u].answer # Mute => \E i \in DOMAIN line : line[i].by = u /\ line[i].done
    BY <1>1, <1>4 DEF LineInv
  <2> QED BY <2>1, <2>2, <1>4 DEF LineInv, Awaited
<1> QED BY <1>2, <1>5

\* An order is sent to the end of the line, by a handler that has none there.
LEMMA SendsKeeps ==
    ASSUME LineTypes, LineInv, NEW t \in Tasks, NEW h \in Handlers, NEW about, Proper(h),
           Sends(t, h, about), takers' = takers, late' = late
    PROVE  LineTypes' /\ LineInv'
<1> DEFINE e == [by |-> t, what |-> h.pc, about |-> about, done |-> FALSE]
<1>1. task' \in [Tasks -> Handlers] /\ \A u \in Tasks : task'[u] = IF u = t THEN h ELSE task[u]
  BY DEF LineTypes, TaskTypes, Sends
<1>2. e \in Entries /\ e.by = t /\ e.what = h.pc /\ e.about = about /\ ~e.done
  BY DEF Sends, Entries
<1>3. line' = Append(line, e)
  BY DEF Sends
<1> HIDE DEF e
<1>4. /\ line' \in Seq(Entries) /\ Len(line') = Len(line) + 1 /\ Len(line) \in Nat
      /\ DOMAIN line = 1..Len(line) /\ DOMAIN line' = 1..(Len(line) + 1)
      /\ \A i \in DOMAIN line : line'[i] = line[i]
      /\ line'[Len(line) + 1] = e
  BY <1>2, <1>3, AppendProperties, LenProperties DEF LineTypes, TaskTypes
<1>5. LineTypes'
  <2>1. OrderTypes'
    BY <1>2, <1>4 DEF LineTypes, OrderTypes, Sends, Given
  <2> QED BY <1>1, <1>4, <2>1 DEF Sends, LineTypes, TaskTypes, HandlerTypes, Proper, Dealt, Given
<1>6. \A i \in DOMAIN line : line[i].by # t
  BY NothingAwaited DEF LineTypes, Sends
<1>7. LineInv'
  <2>1. \A i \in DOMAIN line' : line'[i].by \in Tasks => Awaited(line'[i], task'[line'[i].by])
    <3>1. Awaited(e, h)
      BY <1>2 DEF Awaited, Sends
    <3>2. \A i \in DOMAIN line : line[i].by \in Tasks => Awaited(line[i], task[line[i].by])
      BY DEF LineInv
    <3> QED BY <1>1, <1>2, <1>4, <1>6, <3>1, <3>2
  <2>2. \A u \in Tasks : task'[u].answer # Mute => \E i \in DOMAIN line' : line'[i].by = u /\ line'[i].done
    BY <1>1, <1>4 DEF LineInv, Sends
  <2>3. \A i, j \in DOMAIN line' : i < j /\ line'[j].done => line'[i].done
    BY <1>2, <1>4 DEF LineInv
  <2>4. \A i, j \in DOMAIN line' : line'[i].by = line'[j].by /\ line'[i].by \in Tasks => i = j
    BY <1>2, <1>4, <1>6 DEF LineInv
  <2>5. \A i \in DOMAIN line' : (line'[i].done => line'[i].by \in Tasks) /\ (late' = 0 => line'[i].by \in Tasks)
    BY <1>2, <1>4 DEF LineInv
  <2> QED BY <2>1, <2>2, <2>3, <2>4, <2>5 DEF LineInv, Awaited
<1> QED BY <1>5, <1>7

\* What taking an answer leaves of the line: the first order goes if it was one's own.
LEMMA TakesLine ==
    ASSUME LineTypes, LineInv, NEW t \in Tasks, NEW h, TakesAnswer(t, h)
    PROVE  \/ /\ line' = line /\ task[t].answer = Mute
              /\ \A i \in DOMAIN line : line[i].by # t
           \/ /\ 1 \in DOMAIN line /\ line[1].by = t /\ line[1].done /\ line[1].what = task[t].pc
              /\ line' \in Seq(Entries) /\ DOMAIN line' = 1..(Len(line) - 1)
              /\ \A i \in DOMAIN line' : i + 1 \in DOMAIN line /\ line'[i] = line[i + 1]
              /\ \A i \in DOMAIN line' : line'[i].by # t
<1>1. line \in Seq(Entries) /\ Len(line) \in Nat /\ DOMAIN line = 1..Len(line)
  BY LineParts DEF LineTypes, TaskTypes
<1>2. \A i \in DOMAIN line : line[i].by = t => i = 1 /\ line[i].done
  BY DEF TakesAnswer
<1>3. CASE 1 \in DOMAIN line /\ line[1].by = t
  <2>1. line # <<>> /\ Head(line) = line[1]
    BY <1>1, <1>3
  <2>2. line' = Tail(line)
    BY <1>3, <2>1 DEF TakesAnswer, Taken
  <2>3. /\ line' \in Seq(Entries) /\ Len(line') = Len(line) - 1
        /\ \A i \in 1..Len(line') : line'[i] = line[i + 1]
    BY <1>1, <2>1, <2>2, HeadTailProperties
  <2>4. DOMAIN line' = 1..(Len(line) - 1)
    BY <2>3, LenProperties
  <2>5. \A i \in DOMAIN line' : i + 1 \in DOMAIN line /\ line'[i] = line[i + 1] /\ i + 1 # 1
    BY <1>1, <2>3, <2>4
  <2>6. line[1].what = task[t].pc
    BY <1>3 DEF LineInv, Awaited
  <2>7. \A i \in DOMAIN line' : line'[i].by # t
    BY <1>2, <2>5
  <2> QED BY <1>2, <1>3, <2>3, <2>4, <2>5, <2>6, <2>7
<1>4. CASE ~(1 \in DOMAIN line /\ line[1].by = t)
  <2>1. \A i \in DOMAIN line : line[i].by # t
    BY <1>2, <1>4
  <2>2. task[t].answer = Mute
    BY <2>1 DEF LineInv
  <2>3. line # <<>> => Head(line).by # t
    BY <1>1, <2>1
  <2>4. line' = line
    BY <2>3 DEF TakesAnswer, Taken
  <2> QED BY <2>1, <2>2, <2>4
<1> QED BY <1>3, <1>4

\* The answer that is taken is the first of the line.
LEMMA TakesKeeps ==
    ASSUME LineTypes, LineInv, NEW t \in Tasks, NEW h \in Handlers, Proper(h), TakesAnswer(t, h),
           takers' = takers, late' = late
    PROVE  LineTypes' /\ LineInv'
<1>1. task' \in [Tasks -> Handlers] /\ \A u \in Tasks : task'[u] = IF u = t THEN h ELSE task[u]
  BY DEF LineTypes, TaskTypes, TakesAnswer
<1>2. h.answer = Mute
  BY DEF TakesAnswer
<1>3. CASE line' = line /\ \A i \in DOMAIN line : line[i].by # t
  <2>1. LineTypes'
    BY <1>1, <1>3 DEF LineTypes, TaskTypes, HandlerTypes, OrderTypes, Proper, Dealt, Given
  <2>2. \A i \in DOMAIN line : line[i].by \in Tasks => Awaited(line[i], task'[line[i].by])
    BY <1>1, <1>3 DEF LineInv
  <2>3. \A u \in Tasks : task'[u].answer # Mute => \E i \in DOMAIN line : line[i].by = u /\ line[i].done
    BY <1>1, <1>2 DEF LineInv
  <2> QED BY <2>1, <2>2, <2>3, <1>3 DEF LineInv, Awaited
<1>4. CASE /\ 1 \in DOMAIN line /\ line[1].by = t
           /\ line' \in Seq(Entries) /\ DOMAIN line' = 1..(Len(line) - 1)
           /\ \A i \in DOMAIN line' : i + 1 \in DOMAIN line /\ line'[i] = line[i + 1]
           /\ \A i \in DOMAIN line' : line'[i].by # t
  <2>0. Len(line) \in Nat /\ DOMAIN line = 1..Len(line)
    BY LineParts DEF LineTypes
  <2>1. LineTypes'
    <3>1. OrderTypes'
      BY <1>4 DEF LineTypes, OrderTypes, Given
    <3> QED BY <1>1, <1>4, <3>1 DEF LineTypes, TaskTypes, HandlerTypes, Proper, Dealt, Given
  <2>2. \A i \in DOMAIN line' : line'[i].by \in Tasks => Awaited(line'[i], task'[line'[i].by])
    BY <1>1, <1>4 DEF LineInv
  <2>3. ASSUME NEW u \in Tasks, task'[u].answer # Mute
        PROVE  \E i \in DOMAIN line' : line'[i].by = u /\ line'[i].done
    <3>1. u # t /\ task[u].answer # Mute
      BY <1>1, <1>2, <2>3
    <3>2. PICK i \in DOMAIN line : line[i].by = u /\ line[i].done
      BY <3>1 DEF LineInv
    <3>3. i # 1
      BY <1>4, <3>1, <3>2
    <3>4. i - 1 \in DOMAIN line' /\ (i - 1) + 1 = i
      BY <1>4, <2>0, <3>2, <3>3
    <3>5. line'[i - 1] = line[i]
      BY <1>4, <3>4
    <3> QED BY <3>2, <3>4, <3>5
  <2>4. \A i, j \in DOMAIN line' : i < j => i + 1 < j + 1
    BY <1>4
  <2>5. \A i, j \in DOMAIN line' : i < j /\ line'[j].done => line'[i].done
    BY <1>4, <2>4 DEF LineInv
  <2>6. \A i, j \in DOMAIN line' : line'[i].by = line'[j].by /\ line'[i].by \in Tasks => i = j
    <3>1. \A i, j \in DOMAIN line' : line'[i].by = line'[j].by /\ line'[i].by \in Tasks => i + 1 = j + 1
      BY <1>4 DEF LineInv
    <3> QED BY <1>4, <3>1
  <2>7. \A i \in DOMAIN line' : (line'[i].done => line'[i].by \in Tasks) /\ (late' = 0 => line'[i].by \in Tasks)
    BY <1>4 DEF LineInv
  <2> QED BY <2>1, <2>2, <2>3, <2>5, <2>6, <2>7 DEF LineInv, Awaited
<1> QED BY <1>3, <1>4, TakesLine

\* What removing an order leaves.
LEMMA RemovesOne ==
    ASSUME NEW S, NEW s \in Seq(S), NEW i \in 1..Len(s)
    PROVE  /\ RemoveAt(s, i) \in Seq(S) /\ DOMAIN RemoveAt(s, i) = 1..(Len(s) - 1)
           /\ \A j \in DOMAIN RemoveAt(s, i) :
                RemoveAt(s, i)[j] = IF j < i THEN s[j] ELSE s[j + 1]
<1> DEFINE a == SubSeq(s, 1, i - 1)
           b == SubSeq(s, i + 1, Len(s))
<1>1. Len(s) \in Nat /\ i \in 1..Len(s)
  BY LenProperties
<1>2. \A j \in 1..(i - 1) : s[j] \in S
  BY <1>1, ElementOfSeq
<1>3. \A j \in (i + 1)..Len(s) : s[j] \in S
  BY <1>1, ElementOfSeq
<1>4. a \in Seq(S) /\ Len(a) = i - 1 /\ \A j \in 1..(i - 1) : a[j] = s[j]
  <2>1. /\ a \in Seq(S) /\ Len(a) = IF 1 <= i - 1 THEN (i - 1) - 1 + 1 ELSE 0
        /\ \A j \in 1..((i - 1) - 1 + 1) : a[j] = s[1 + j - 1]
    BY <1>1, <1>2, SubSeqProperties
  <2> QED BY <1>1, <2>1
<1>5. b \in Seq(S) /\ Len(b) = Len(s) - i /\ \A j \in 1..(Len(s) - i) : b[j] = s[i + j]
  <2>1. /\ b \in Seq(S) /\ Len(b) = IF i + 1 <= Len(s) THEN Len(s) - (i + 1) + 1 ELSE 0
        /\ \A j \in 1..(Len(s) - (i + 1) + 1) : b[j] = s[(i + 1) + j - 1]
    BY <1>1, <1>3, SubSeqProperties
  <2> QED BY <1>1, <2>1
<1> HIDE DEF a, b
<1>6. /\ a \o b \in Seq(S) /\ Len(a \o b) = Len(a) + Len(b)
      /\ \A j \in 1..(Len(a) + Len(b)) : (a \o b)[j] = IF j <= Len(a) THEN a[j] ELSE b[j - Len(a)]
  BY <1>4, <1>5, ConcatProperties
<1>7. DOMAIN (a \o b) = 1..(Len(s) - 1)
  BY <1>1, <1>4, <1>5, <1>6, LenProperties
<1>8. ASSUME NEW j \in 1..(Len(s) - 1)
      PROVE  (a \o b)[j] = IF j < i THEN s[j] ELSE s[j + 1]
  <2>1. CASE j < i
    BY <1>1, <1>4, <1>5, <1>6, <2>1
  <2>2. CASE ~(j < i)
    <3>1. j - Len(a) \in 1..(Len(s) - i) /\ i + (j - Len(a)) = j + 1
      BY <1>1, <1>4, <2>2
    <3>2. (a \o b)[j] = b[j - Len(a)]
      BY <1>1, <1>4, <1>5, <1>6, <2>2
    <3>3. b[j - Len(a)] = s[i + (j - Len(a))]
      BY <1>5, <3>1
    <3> QED BY <2>2, <3>1, <3>2, <3>3
  <2> QED BY <2>1, <2>2
<1> QED BY <1>6, <1>7, <1>8 DEF RemoveAt, a, b

\* The worker serves an order: it is answered at its place, or goes if nobody waits.
LEMMA ServesLine ==
    ASSUME LineTypes, LineInv, table \in Given, serves
    PROVE  \E i \in DOMAIN line : \E answer \in Answers(line[i]) :
             /\ Next_served(i)
             /\ obeyed' = IF line[i].what = "owner" THEN line[i].about ELSE obeyed
             /\ accepted' = IF line[i].what \in {"launch", "stop"} /\ answer = "ok" THEN line[i].what
                            ELSE accepted
             /\ UNCHANGED <<table, takers, process, visits, late, roomVars>>
             /\ line' \in Seq(Entries)
             /\ \/ /\ line[i].by \in Tasks /\ DOMAIN line' = DOMAIN line
                   /\ \A j \in DOMAIN line \ {i} : line'[j] = line[j]
                   /\ line'[i].by = line[i].by /\ line'[i].what = line[i].what
                   /\ line'[i].about = line[i].about /\ line'[i].done
                   /\ task[line[i].by].pc = line[i].what
                   /\ task' = [task EXCEPT ![line[i].by].answer = answer]
                \/ /\ line[i].by \notin Tasks /\ task' = task
                   /\ DOMAIN line' = 1..(Len(line) - 1)
                   /\ \A j \in DOMAIN line' : line'[j] = IF j < i THEN line[j] ELSE line[j + 1]
<1>1. PICK i \in DOMAIN line : \E answer \in Answers(line[i]) :
             /\ Next_served(i)
             /\ obeyed' = IF line[i].what = "owner" THEN line[i].about ELSE obeyed
             /\ accepted' = IF line[i].what \in {"launch", "stop"} /\ answer = "ok" THEN line[i].what
                            ELSE accepted
             /\ UNCHANGED <<table, takers, process, visits, late, roomVars>>
             /\ IF line[i].by \in Tasks
                THEN /\ task' = [task EXCEPT ![line[i].by].answer = answer]
                     /\ line' = [line EXCEPT ![i].done = TRUE]
                ELSE line' = RemoveAt(line, i) /\ UNCHANGED task
  BY DEF serves
<1>2. line \in Seq(Entries) /\ Len(line) \in Nat /\ DOMAIN line = 1..Len(line) /\ line[i] \in Entries
  BY LineParts DEF LineTypes, TaskTypes
<1>3. CASE line[i].by \in Tasks
  <2> DEFINE e == [line[i] EXCEPT !.done = TRUE]
  <2>1. e \in Entries /\ e.by = line[i].by /\ e.what = line[i].what /\ e.about = line[i].about /\ e.done
    BY <1>2 DEF Entries
  <2>2. line' = [line EXCEPT ![i] = e]
    BY <1>1, <1>2, <1>3
  <2> HIDE DEF e
  <2>3. /\ line' \in Seq(Entries) /\ Len(line') = Len(line)
        /\ \A j \in 1..Len(line) : line'[j] = IF j = i THEN e ELSE line[j]
    BY <1>2, <2>1, <2>2, ExceptSeq
  <2>4. DOMAIN line' = DOMAIN line
    BY <1>2, <2>3, LenProperties
  <2>5. task[line[i].by].pc = line[i].what
    BY <1>3 DEF LineInv, Awaited
  <2>6. line'[i] = e /\ \A j \in DOMAIN line \ {i} : line'[j] = line[j]
    BY <1>2, <2>3
  <2> QED BY <1>1, <1>3, <2>1, <2>3, <2>4, <2>5, <2>6
<1>4. CASE line[i].by \notin Tasks
  <2>1. line' = RemoveAt(line, i) /\ task' = task
    BY <1>1, <1>4
  <2>2. /\ line' \in Seq(Entries) /\ DOMAIN line' = 1..(Len(line) - 1)
        /\ \A j \in DOMAIN line' : line'[j] = IF j < i THEN line[j] ELSE line[j + 1]
    BY <1>2, <2>1, RemovesOne
  <2> QED BY <1>1, <1>4, <2>1, <2>2
<1> QED BY <1>3, <1>4

\* What a seat, or an order, may be answered.
LEMMA AnswersType ==
    ASSUME table \in Given, Len(takers) <= MaxGiven, Len(takers) \in Nat,
           NEW order \in Entries, NEW answer \in Answers(order)
    PROVE  /\ answer \in Tables \union {"ok", "no"} /\ answer # Mute
           /\ order.what = "seats" => answer = table
           /\ order.what = "owner" => answer = "ok"
           /\ order.what = "launch" /\ answer = "ok" => order.about = table /\ accepted = "nothing"
<1>1. table \in Tables
  BY LobbyConstants DEF Given, Tables, Chairs
<1>2. order.what \in Asked
  BY DEF Entries
<1>3. CASE order.what = "seats"
  BY <1>1, <1>3, LobbyConstants DEF Answers
<1>4. CASE order.what = "owner"
  BY <1>4, LobbyConstants DEF Answers
<1>5. CASE order.what = "decides"
  BY <1>5, LobbyConstants DEF Answers
<1>6. CASE order.what = "launch"
  BY <1>6, LobbyConstants DEF Answers
<1>7. CASE order.what = "stop"
  BY <1>7, LobbyConstants DEF Answers
<1> QED BY <1>2, <1>3, <1>4, <1>5, <1>6, <1>7 DEF Asked

\* The order that is served stays until its answer is taken, or goes if nobody waits.
LEMMA ServesKeeps ==
    ASSUME LineTypes, LineInv, WorkerTypes, serves
    PROVE  LineTypes' /\ LineInv'
<1>0. /\ Len(takers) \in Nat /\ Len(takers) <= MaxGiven /\ table \in Given
      /\ Len(line) \in Nat /\ DOMAIN line = 1..Len(line)
  BY LenProperties, LineParts DEF WorkerTypes, LineTypes
<1>a. PICK i \in DOMAIN line : \E answer \in Answers(line[i]) :
         /\ Next_served(i)
         /\ UNCHANGED <<takers, late>>
         /\ line' \in Seq(Entries)
         /\ \/ /\ line[i].by \in Tasks /\ DOMAIN line' = DOMAIN line
               /\ \A j \in DOMAIN line \ {i} : line'[j] = line[j]
               /\ line'[i].by = line[i].by /\ line'[i].what = line[i].what
               /\ line'[i].about = line[i].about /\ line'[i].done
               /\ task[line[i].by].pc = line[i].what
               /\ task' = [task EXCEPT ![line[i].by].answer = answer]
            \/ /\ line[i].by \notin Tasks /\ task' = task
               /\ DOMAIN line' = 1..(Len(line) - 1)
               /\ \A j \in DOMAIN line' : line'[j] = IF j < i THEN line[j] ELSE line[j + 1]
  BY <1>0, ServesLine
<1>1. PICK answer \in Answers(line[i]) :
         /\ Next_served(i)
         /\ UNCHANGED <<takers, late>>
         /\ line' \in Seq(Entries)
         /\ \/ /\ line[i].by \in Tasks /\ DOMAIN line' = DOMAIN line
               /\ \A j \in DOMAIN line \ {i} : line'[j] = line[j]
               /\ line'[i].by = line[i].by /\ line'[i].what = line[i].what
               /\ line'[i].about = line[i].about /\ line'[i].done
               /\ task[line[i].by].pc = line[i].what
               /\ task' = [task EXCEPT ![line[i].by].answer = answer]
            \/ /\ line[i].by \notin Tasks /\ task' = task
               /\ DOMAIN line' = 1..(Len(line) - 1)
               /\ \A j \in DOMAIN line' : line'[j] = IF j < i THEN line[j] ELSE line[j + 1]
  BY <1>a
<1>2. line[i] \in Entries
  BY LineParts DEF LineTypes
<1>3. /\ answer \in Tables \union {"ok", "no"} /\ answer # Mute
      /\ line[i].what = "seats" => answer = table
      /\ line[i].what = "owner" => answer = "ok"
  BY <1>0, <1>2, AnswersType
<1>4. /\ ~line[i].done /\ \A j \in DOMAIN line : j < i => line[j].done
      /\ \A j \in DOMAIN line : j > i => ~line[j].done
  BY <1>0, <1>1 DEF Next_served, LineInv
<1>5. CASE /\ line[i].by \in Tasks /\ DOMAIN line' = DOMAIN line
           /\ \A j \in DOMAIN line \ {i} : line'[j] = line[j]
           /\ line'[i].by = line[i].by /\ line'[i].what = line[i].what
           /\ line'[i].about = line[i].about /\ line'[i].done
           /\ task[line[i].by].pc = line[i].what
           /\ task' = [task EXCEPT ![line[i].by].answer = answer]
  <2> DEFINE t == line[i].by
             h == [task[t] EXCEPT !.answer = answer]
  <2>1. h \in Handlers /\ h.answer = answer /\ h.pc = task[t].pc /\ h.op = task[t].op
        /\ h.view = task[t].view /\ h.sid = task[t].sid /\ h.message = task[t].message
    BY <1>3, <1>5, LineParts DEF Handlers, LineTypes
  <2>2. task' = [task EXCEPT ![t] = h]
    BY <1>5
  <2>3. t \in Tasks /\ task[t].pc = line[i].what
    BY <1>5
  <2> HIDE DEF h, t
  <2>4. task' \in [Tasks -> Handlers] /\ \A u \in Tasks : task'[u] = IF u = t THEN h ELSE task[u]
    BY <2>1, <2>2 DEF LineTypes, TaskTypes
  <2>5. Proper(h)
    <3>1. Proper(task[t])
      BY <2>3 DEF LineTypes, HandlerTypes
    <3> QED BY <1>0, <1>3, <2>1, <2>3, <3>1 DEF Proper, Dealt
  <2>6. OrderTypes'
    BY <1>1, <1>5 DEF LineTypes, OrderTypes, Given
  <2>7. LineTypes'
    BY <1>1, <2>4, <2>5, <2>6 DEF LineTypes, TaskTypes, HandlerTypes, Proper, Dealt, Given
  <2>8. \A j \in DOMAIN line : line'[j].by = line[j].by /\ line'[j].what = line[j].what
                               /\ line'[j].about = line[j].about
    BY <1>5
  <2>9. \A j \in DOMAIN line : line'[j].done <=> line[j].done \/ j = i
    BY <1>5
  <2>10. \A j \in DOMAIN line : line[j].by = t => j = i
    BY <1>5, <2>3 DEF LineInv, t
  <2>11. ASSUME NEW j \in DOMAIN line, line[j].by \in Tasks
         PROVE  Awaited(line'[j], task'[line[j].by])
    <3>1. Awaited(line[j], task[line[j].by])
      BY <2>11 DEF LineInv
    <3>2. CASE j = i
      BY <1>3, <2>1, <2>3, <2>4, <2>8, <2>9, <3>1, <3>2 DEF Awaited, t
    <3>3. CASE j # i
      BY <1>5, <2>4, <2>10, <2>11, <3>1, <3>3
    <3> QED BY <3>2, <3>3
  <2>12. ASSUME NEW u \in Tasks, task'[u].answer # Mute
         PROVE  \E j \in DOMAIN line : line'[j].by = u /\ line'[j].done
    <3>1. CASE u = t
      BY <2>8, <2>9, <3>1 DEF t
    <3>2. CASE u # t
      BY <2>4, <2>8, <2>9, <2>12, <3>2 DEF LineInv
    <3> QED BY <3>1, <3>2
  <2>13. \A j, k \in DOMAIN line : j < k /\ line'[k].done => line'[j].done
    BY <1>0, <1>4, <2>9
  <2>14. \A j \in DOMAIN line : line'[j].done => line'[j].by \in Tasks
    BY <2>3, <2>8, <2>9 DEF LineInv, t
  <2>15. \A j, k \in DOMAIN line : line'[j].by = line'[k].by /\ line'[j].by \in Tasks => j = k
    BY <2>8 DEF LineInv
  <2>16. \A j \in DOMAIN line : late' = 0 => line'[j].by \in Tasks
    BY <1>1, <2>8 DEF LineInv
  <2>17. \A j \in DOMAIN line : line'[j].by \in Tasks => Awaited(line'[j], task'[line'[j].by])
    BY <2>8, <2>11
  <2> QED BY <1>5, <2>7, <2>12, <2>13, <2>14, <2>15, <2>16, <2>17 DEF LineInv, Awaited
<1>6. CASE /\ line[i].by \notin Tasks /\ task' = task
           /\ DOMAIN line' = 1..(Len(line) - 1)
           /\ \A j \in DOMAIN line' : line'[j] = IF j < i THEN line[j] ELSE line[j + 1]
  <2> DEFINE old(j) == IF j < i THEN j ELSE j + 1
  <2>1. \A j \in DOMAIN line' : old(j) \in DOMAIN line /\ line'[j] = line[old(j)]
    BY <1>0, <1>6
  <2>2. \A j, k \in DOMAIN line' : (j < k => old(j) < old(k)) /\ (old(j) = old(k) => j = k)
    BY <1>0, <1>6
  <2> HIDE DEF old
  <2>3. OrderTypes'
    BY <1>1, <1>6, <2>1 DEF LineTypes, OrderTypes, Given
  <2>4. LineTypes'
    BY <1>1, <1>6, <2>3 DEF LineTypes, TaskTypes, HandlerTypes, Proper, Dealt, Given
  <2>5. ASSUME NEW u \in Tasks, task'[u].answer # Mute
        PROVE  \E j \in DOMAIN line' : line'[j].by = u /\ line'[j].done
    <3>1. PICK k \in DOMAIN line : line[k].by = u /\ line[k].done
      BY <1>6, <2>5 DEF LineInv
    <3>2. k < i
      BY <1>0, <1>4, <3>1
    <3>3. k \in DOMAIN line' /\ line'[k] = line[k]
      BY <1>0, <1>6, <3>2
    <3> QED BY <3>1, <3>3
  <2>6. \A j \in DOMAIN line' : line'[j].by \in Tasks => Awaited(line'[j], task'[line'[j].by])
    BY <1>6, <2>1 DEF LineInv
  <2>7. \A j, k \in DOMAIN line' : j < k /\ line'[k].done => line'[j].done
    BY <2>1, <2>2 DEF LineInv
  <2>8. \A j, k \in DOMAIN line' : line'[j].by = line'[k].by /\ line'[j].by \in Tasks => j = k
    BY <2>1, <2>2 DEF LineInv
  <2>9. \A j \in DOMAIN line' : (line'[j].done => line'[j].by \in Tasks)
                                /\ (late' = 0 => line'[j].by \in Tasks)
    BY <1>1, <2>1 DEF LineInv
  <2> QED BY <2>4, <2>5, <2>6, <2>7, <2>8, <2>9 DEF LineInv, Awaited
<1> QED BY <1>1, <1>5, <1>6

\* An order that is given up on is nobody's.
LEMMA TimesOutKeeps ==
    ASSUME LineTypes, LineInv, WorkerTypes, NEW t \in Tasks, times_out(t), late \in Nat
    PROVE  LineTypes' /\ LineInv'
<1>0. Len(line) \in Nat /\ DOMAIN line = 1..Len(line) /\ line \in Seq(Entries)
  BY LineParts DEF LineTypes, TaskTypes
<1>1. PICK i \in DOMAIN line : line[i].by = t /\ ~line[i].done /\ line' = [line EXCEPT ![i].by = -1]
  BY DEF times_out
<1>2. takers' = takers /\ task' = task /\ late' # 0
  BY DEF times_out, workerVars
<1> DEFINE e == [line[i] EXCEPT !.by = -1]
<1>3. /\ e \in Entries /\ e.by = -1 /\ e.what = line[i].what /\ e.about = line[i].about
      /\ e.done = line[i].done
  <2>1. line[i] \in Entries
    BY <1>0, ElementOfSeq
  <2> QED BY <2>1 DEF Entries
<1>4. line' = [line EXCEPT ![i] = e]
  BY <1>0, <1>1
<1> HIDE DEF e
<1>5. /\ line' \in Seq(Entries) /\ Len(line') = Len(line)
      /\ \A j \in 1..Len(line) : line'[j] = IF j = i THEN e ELSE line[j]
  BY <1>0, <1>3, <1>4, ExceptSeq
<1>6. DOMAIN line' = DOMAIN line /\ line'[i] = e /\ \A j \in DOMAIN line \ {i} : line'[j] = line[j]
  BY <1>0, <1>5, LenProperties
<1>7. -1 \notin Tasks
  BY LobbyConstants DEF Tasks
<1>8. OrderTypes'
  BY <1>2, <1>3, <1>6 DEF LineTypes, OrderTypes, Given
<1>9. LineTypes'
  BY <1>2, <1>5, <1>8 DEF LineTypes, TaskTypes, HandlerTypes, Proper, Dealt, Given
<1>10. ASSUME NEW u \in Tasks, task'[u].answer # Mute
       PROVE  \E j \in DOMAIN line' : line'[j].by = u /\ line'[j].done
  <2>1. PICK k \in DOMAIN line : line[k].by = u /\ line[k].done
    BY <1>2, <1>10 DEF LineInv
  <2> QED BY <1>1, <1>6, <2>1
<1>11. \A j \in DOMAIN line' : line'[j].by \in Tasks => Awaited(line'[j], task'[line'[j].by])
  BY <1>2, <1>3, <1>6, <1>7 DEF LineInv
<1>12. \A j, k \in DOMAIN line' : j < k /\ line'[k].done => line'[j].done
  BY <1>1, <1>3, <1>6 DEF LineInv
<1>13. \A j, k \in DOMAIN line' : line'[j].by = line'[k].by /\ line'[j].by \in Tasks => j = k
  BY <1>3, <1>6, <1>7 DEF LineInv
<1>14. \A j \in DOMAIN line' : line'[j].done => line'[j].by \in Tasks
  BY <1>1, <1>3, <1>6 DEF LineInv
<1> QED BY <1>2, <1>9, <1>10, <1>11, <1>12, <1>13, <1>14 DEF LineInv, Awaited

\* What is left of the line once the worker ended is its beginning.
LEMMA EndsLine ==
    ASSUME LineTypes, LineInv, worker_ends
    PROVE  /\ line' \in Seq(Entries) /\ task' = task /\ takers' = takers /\ late' = late
           /\ DOMAIN line' \subseteq DOMAIN line
           /\ \A i \in DOMAIN line' : line'[i] = line[i]
           /\ \A i \in DOMAIN line : line[i].done <=> i \in DOMAIN line'
<1>0. Len(line) \in Nat /\ DOMAIN line = 1..Len(line) /\ line \in Seq(Entries)
  BY LineParts DEF LineTypes, TaskTypes
<1>1. PICK n \in 0..Len(line) :
        /\ \A i \in 1..n : line[i].done
        /\ n < Len(line) => ~line[n + 1].done
        /\ line' = SubSeq(line, 1, n)
  BY DEF worker_ends
<1>2. \A i \in 1..n : line[i] \in Entries
  BY <1>0, ElementOfSeq
<1>3. /\ line' \in Seq(Entries) /\ Len(line') = IF 1 <= n THEN n - 1 + 1 ELSE 0
      /\ \A i \in 1..(n - 1 + 1) : line'[i] = line[1 + i - 1]
  BY <1>0, <1>1, <1>2, SubSeqProperties
<1>4. DOMAIN line' = 1..n /\ \A i \in 1..n : line'[i] = line[i]
  BY <1>3, LenProperties
<1>5. ASSUME NEW i \in DOMAIN line, line[i].done PROVE i <= n
  <2> SUFFICES ASSUME n < i PROVE FALSE
    BY <1>0
  <2>1. n + 1 \in DOMAIN line /\ ~line[n + 1].done
    BY <1>0, <1>1
  <2>2. n + 1 < i
    BY <1>0, <1>5, <2>1
  <2> QED BY <1>5, <2>1, <2>2 DEF LineInv
<1> QED BY <1>0, <1>1, <1>3, <1>4, <1>5 DEF worker_ends, roomVars

\* The end of the worker leaves the answers that were given.
LEMMA EndsKeeps ==
    ASSUME LineTypes, LineInv, worker_ends
    PROVE  LineTypes' /\ LineInv'
<1>1. /\ line' \in Seq(Entries) /\ task' = task /\ takers' = takers /\ late' = late
      /\ DOMAIN line' \subseteq DOMAIN line
      /\ \A i \in DOMAIN line' : line'[i] = line[i]
      /\ \A i \in DOMAIN line : line[i].done <=> i \in DOMAIN line'
  BY EndsLine
<1>2. OrderTypes'
  BY <1>1 DEF LineTypes, OrderTypes, Given
<1>3. LineTypes'
  BY <1>1, <1>2 DEF LineTypes, TaskTypes, HandlerTypes, Proper, Dealt, Given
<1>4. ASSUME NEW u \in Tasks, task'[u].answer # Mute
      PROVE  \E i \in DOMAIN line' : line'[i].by = u /\ line'[i].done
  <2>1. PICK k \in DOMAIN line : line[k].by = u /\ line[k].done
    BY <1>1, <1>4 DEF LineInv
  <2> QED BY <1>1, <2>1
<1>5. \A i \in DOMAIN line' : line'[i].by \in Tasks => Awaited(line'[i], task'[line'[i].by])
  BY <1>1 DEF LineInv
<1> QED BY <1>1, <1>3, <1>4, <1>5 DEF LineInv, Awaited

\* New receipts change nothing of what was read before.
LEMMA GivenGrows ==
    ASSUME Len(takers) \in Nat, Len(takers') \in Nat, Len(takers) <= Len(takers'),
           \A i \in 1..Len(takers) : takers'[i] = takers[i]
    PROVE  /\ Given \subseteq Given' /\ Dealt \subseteq Dealt'
           /\ ReadTypes /\ salon \in Salons /\ salon' = salon => ReadTypes'
           /\ LineTypes /\ task' = task /\ line' = line => LineTypes'
<1>1. Given \subseteq Given' /\ Dealt \subseteq Dealt'
  BY DEF Given, Dealt
<1>2. ASSUME ReadTypes, salon \in Salons, salon' = salon PROVE ReadTypes'
  <2>1. \A p \in Chairs : salon.prep.players[p].claim \in Nat
    BY <1>2, SalonParts, LobbyConstants DEF Preparations, ReadyOnes
  <2> QED BY <1>1, <1>2, <2>1 DEF ReadTypes
<1>3. ASSUME LineTypes, task' = task, line' = line PROVE LineTypes'
  <2>1. OrderTypes'
    BY <1>1, <1>3 DEF LineTypes, OrderTypes
  <2>2. ASSUME NEW t \in Tasks PROVE Proper(task[t])'
    <3>1. Proper(task[t])
      BY <1>3 DEF LineTypes, HandlerTypes
    <3>2. \A i \in 1..Len(takers) : i \in 1..Len(takers')
      OBVIOUS
    <3> HIDE DEF Given, Dealt
    <3> QED BY <1>1, <1>3, <3>1, <3>2 DEF Proper
  <2> QED BY <1>3, <2>1, <2>2 DEF LineTypes, TaskTypes, HandlerTypes
<1> QED BY <1>1, <1>2, <1>3

-----------------------------------------------------------------------------
(* What a handler becomes: nothing, one that begins, one that has only to tell. *)

Starting(op, s, pc, message) == [NoTask EXCEPT !.op = op, !.sid = s, !.pc = pc, !.message = message]
Teller(t) == [NoTask EXCEPT !.pc = "broadcast", !.op = IF task[t].op = "seat" THEN "tell" ELSE task[t].op]

\* A place with no handler.
LEMMA NoTaskType ==
    /\ NoMessage \in Spoken /\ NoTask \in Handlers /\ Proper(NoTask)
    /\ NoTask.pc = "idle" /\ NoTask.op = "none" /\ NoTask.answer = Mute
<1>1. NoMessage \in Spoken
  BY LobbyConstants DEF NoMessage, Spoken
<1>2. /\ NoTask \in Handlers
      /\ NoTask.pc = "idle" /\ NoTask.op = "none" /\ NoTask.answer = Mute
  BY <1>1 DEF NoTask, Handlers, Works, Ways, Named
<1> QED BY <1>1, <1>2 DEF Proper

\* A handler that has only to tell.
LEMMA TellerType ==
    ASSUME TaskTypes, NEW t \in Tasks
    PROVE  /\ Teller(t) \in Handlers /\ Proper(Teller(t)) /\ Teller(t).answer = Mute
           /\ Teller(t).pc = "broadcast"
           /\ Teller(t).op = IF task[t].op = "seat" THEN "tell" ELSE task[t].op
           /\ Tells(t) => task' = [task EXCEPT ![t] = Teller(t)]
<1>1. task[t] \in Handlers /\ task[t].op \in Works
  BY LineParts DEF Handlers
<1> DEFINE op == IF task[t].op = "seat" THEN "tell" ELSE task[t].op
<1>2. op \in Works
  BY <1>1 DEF Works
<1>3. Teller(t) = [NoTask EXCEPT !.pc = "broadcast", !.op = op]
  BY DEF Teller
<1> HIDE DEF op
<1>4. Teller(t) \in Handlers /\ Teller(t).pc = "broadcast" /\ Teller(t).op = op /\ Teller(t).answer = Mute
  BY <1>2, <1>3, NoTaskType DEF Handlers, Ways
<1>5. Proper(Teller(t))
  BY <1>4 DEF Proper
<1>6. Tells(t) => task' = [task EXCEPT ![t] = Teller(t)]
  BY DEF Tells, Teller
<1> QED BY <1>4, <1>5, <1>6 DEF op

\* A handler that begins.
LEMMA BegunType ==
    ASSUME NEW op \in Works, NEW s \in Named, NEW pc \in Ways, NEW message \in Spoken
    PROVE  /\ Starting(op, s, pc, message) \in Handlers /\ Starting(op, s, pc, message).answer = Mute
           /\ Starting(op, s, pc, message).op = op /\ Starting(op, s, pc, message).pc = pc
           /\ Starting(op, s, pc, message).sid = s /\ Starting(op, s, pc, message).message = message
BY NoTaskType DEF Starting, Handlers

\* A handler begins where none was.
LEMMA BeginsMoves ==
    ASSUME TaskTypes, NEW op \in Works \ {"seat"}, NEW s \in Named, NEW pc \in {"broadcast", "enter"},
           NEW message \in Spoken, op \in {"recover", "prepare"} => s \in Sessions,
           Begins(op, s, pc, message), line' = line
    PROVE  /\ Proper(Starting(op, s, pc, message))
           /\ \E t \in Tasks \ {Follow} : Stands(t, "idle") /\ Moves(t, Starting(op, s, pc, message))
<1> DEFINE h == Starting(op, s, pc, message)
<1>1. h \in Handlers /\ h.answer = Mute /\ h.op = op /\ h.pc = pc /\ h.sid = s /\ h.message = message
  <2>1. op \in Works /\ pc \in Ways
    BY DEF Ways
  <2> QED BY <2>1, BegunType
<1>2. PICK t \in Vacant : task' = [task EXCEPT ![t] = h]
  BY DEF Begins, Starting
<1>3. t \in Tasks \ {Follow} /\ Stands(t, "idle")
  BY <1>2 DEF Vacant
<1> HIDE DEF h
<1>4. Moves(t, h)
  BY <1>1, <1>2, <1>3 DEF Moves, Stands, Asked
<1>5. Proper(h)
  BY <1>1 DEF Proper
<1> QED BY <1>3, <1>4, <1>5 DEF h

\* Synchronising sends for the seats, or waits for the lock.
LEMMA SynchronisesSteps ==
    ASSUME LineTypes, NEW t \in Tasks, task[t].pc \notin Asked, NEW h \in Handlers, h.answer = Mute,
           h.op \in {"seat", "follow", "prepare"}, h.op \in {"seat", "prepare"} => Proper([h EXCEPT !.pc = "seats"]),
           Synchronises(t, h)
    PROVE  \E pc \in {"sync", "seats"} :
             LET after == [h EXCEPT !.pc = pc] IN
             /\ after \in Handlers /\ Proper(after)
             /\ (Moves(t, after) /\ pc = "sync") \/ (Sends(t, after, 0) /\ pc = "seats")
<1>1. ASSUME NEW pc \in {"sync", "seats"}
      PROVE  LET after == [h EXCEPT !.pc = pc] IN
             /\ after \in Handlers /\ after.pc = pc /\ after.op = h.op /\ after.answer = Mute
             /\ after.sid = h.sid /\ after.message = h.message
  BY DEF Handlers, Ways, Asked
<1>2. ASSUME NEW pc \in {"sync", "seats"} PROVE Proper([h EXCEPT !.pc = pc])
  BY <1>1, LobbyConstants DEF Proper, Dealt
<1>3. 0 \in Tables \union 0..PADS
  BY LobbyConstants
<1>4. CASE Syncing
  <2> DEFINE after == [h EXCEPT !.pc = "sync"]
  <2>1. task' = [task EXCEPT ![t] = after] /\ line' = line
    BY <1>4 DEF Synchronises
  <2>2. /\ after.pc = "sync" /\ after.answer = Mute /\ after \in Handlers /\ Proper(after)
    BY <1>1, <1>2
  <2> HIDE DEF after
  <2>3. Moves(t, after)
    BY <2>1, <2>2 DEF Moves, Asked
  <2> QED BY <2>2, <2>3 DEF after
<1>5. CASE ~Syncing
  <2> DEFINE after == [h EXCEPT !.pc = "seats"]
  <2>1. /\ task' = [task EXCEPT ![t] = after]
        /\ line' = Append(line, [by |-> t, what |-> "seats", about |-> 0, done |-> FALSE])
    BY <1>5 DEF Synchronises, Asks_seats, Orders
  <2>2. /\ after.pc = "seats" /\ after.answer = Mute /\ after \in Handlers /\ Proper(after)
    BY <1>1, <1>2
  <2> HIDE DEF after
  <2>3. Sends(t, after, 0)
    BY <1>3, <2>1, <2>2 DEF Sends, Asked
  <2> QED BY <2>2, <2>3 DEF after
<1> QED BY <1>4, <1>5

-----------------------------------------------------------------------------
(* What each action does of the handlers and the line. *)

\* One handler moves on; it comes into the lock of the preparation only if nobody is
\* in it.
Passes(t, h) ==
    /\ t \in Tasks /\ h \in Handlers /\ Proper(h)
    /\ Moves(t, h) \/ TakesAnswer(t, h) \/ (\E about : Sends(t, h, about))
    /\ Locks(h) => Locks(task[t]) \/ ~Preparing
PassesOn(t, h) == Passes(t, h) /\ h.pc # "launch"
Rests == task' = task /\ line' = line

\* Whichever way a handler goes on, the line keeps its invariant.
LEMMA PassesKeeps ==
    ASSUME LineTypes, LineInv, NEW t, NEW h, Passes(t, h), takers' = takers, late' = late
    PROVE  LineTypes' /\ LineInv'
BY MovesKeeps, SendsKeeps, TakesKeeps DEF Passes

\* A step of no handler keeps it too.
LEMMA RestsKeeps ==
    ASSUME LineTypes, LineInv, Rests, takers' = takers, late' = late
    PROVE  LineTypes' /\ LineInv'
<1>1. LineTypes'
  BY DEF Rests, LineTypes, TaskTypes, HandlerTypes, OrderTypes, Proper, Dealt, Given
<1>2. LineInv'
  BY DEF Rests, LineInv, Awaited
<1> QED BY <1>1, <1>2

\* A handler begins in a free place, and holds no lock.
LEMMA BeginsPasses ==
    ASSUME TaskTypes, NEW op \in Works \ {"seat"}, NEW s \in Named, NEW pc \in {"broadcast", "enter"},
           NEW message \in Spoken, op \in {"recover", "prepare"} => s \in Sessions,
           op \in {"prepare", "close"} => pc = "enter",
           Begins(op, s, pc, message), line' = line
    PROVE  \E t \in Tasks : Stands(t, "idle") /\ PassesOn(t, Starting(op, s, pc, message))
<1> DEFINE h == Starting(op, s, pc, message)
<1>1. h \in Handlers /\ h.op = op /\ h.pc = pc
  BY BegunType DEF Ways
<1>2. Proper(h) /\ \E t \in Tasks \ {Follow} : Stands(t, "idle") /\ Moves(t, h)
  BY BeginsMoves
<1> HIDE DEF h
<1>3. ~Locks(h) /\ h.pc # "launch"
  BY <1>1 DEF Locks, LockPlaces
<1> QED BY <1>1, <1>2, <1>3 DEF PassesOn, Passes, h

\* So does one that has only to tell.
LEMMA TellPasses ==
    ASSUME LineTypes, Begins("tell", NoSession, "broadcast", NoMessage), line' = line
    PROVE  \E u \in Tasks : /\ Stands(u, "idle")
                            /\ PassesOn(u, Starting("tell", NoSession, "broadcast", NoMessage))
<1>1. TaskTypes /\ "tell" \in Works \ {"seat"} /\ NoSession \in Named /\ NoMessage \in Spoken
  BY NoTaskType DEF LineTypes, Works, Named
<1> QED BY <1>1, BeginsPasses

\* A handler that is over, or has only to tell.
LEMMA EndsPasses ==
    ASSUME LineTypes, NEW t \in Tasks, Ends(t),
           \/ task[t].pc \notin Asked /\ line' = line
           \/ task[t].pc \in Asked /\ Answered(t, task[t].pc) /\ Taken(t)
    PROVE  PassesOn(t, NoTask)
<1>1. Moves(t, NoTask) \/ TakesAnswer(t, NoTask)
  BY NoTaskType DEF Moves, TakesAnswer, Ends, Answered, Asked
<1>2. ~Locks(NoTask) /\ NoTask.pc # "launch"
  BY NoTaskType DEF Locks
<1> QED BY <1>1, <1>2, NoTaskType DEF PassesOn, Passes

\* One that turns to telling keeps the lock it has.
LEMMA TellsPasses ==
    ASSUME LineTypes, NEW t \in Tasks, Tells(t),
           task[t].op \in {"prepare", "close"} => task[t].pc \in LockPlaces,
           \/ task[t].pc \notin Asked /\ line' = line
           \/ task[t].pc \in Asked /\ Answered(t, task[t].pc) /\ Taken(t)
    PROVE  PassesOn(t, Teller(t))
<1>1. /\ Teller(t) \in Handlers /\ Proper(Teller(t)) /\ Teller(t).answer = Mute
      /\ Teller(t).pc = "broadcast"
      /\ Teller(t).op = IF task[t].op = "seat" THEN "tell" ELSE task[t].op
      /\ task' = [task EXCEPT ![t] = Teller(t)]
  BY TellerType DEF LineTypes
<1>2. Moves(t, Teller(t)) \/ TakesAnswer(t, Teller(t))
  BY <1>1 DEF Moves, TakesAnswer, Answered, Asked
<1>3. Locks(Teller(t)) => Locks(task[t])
  BY <1>1 DEF Locks
<1> QED BY <1>1, <1>2, <1>3 DEF PassesOn, Passes

\* An answer that is taken on the way.
LEMMA TakesPasses ==
    ASSUME LineTypes, NEW t \in Tasks, task[t].pc \in Asked, Answered(t, task[t].pc), Taken(t),
           NEW h \in Handlers, Proper(h), h.pc \notin Asked, h.answer = Mute,
           task' = [task EXCEPT ![t] = h], Locks(h) => Locks(task[t])
    PROVE  PassesOn(t, h)
<1>1. TakesAnswer(t, h)
  BY DEF TakesAnswer, Answered
<1> QED BY <1>1 DEF PassesOn, Passes, Asked

\* follow_seats asks for the seats, waits, or has nobody to ask for.
LEMMA FollowSeatsSteps ==
    ASSUME LineTypes, LineInv, follow_seats
    PROVE  /\ Stands(Follow, "idle")
           /\ Rests \/ \E h : PassesOn(Follow, h)
<1>0. Follow \in Tasks /\ Stands(Follow, "idle")
  BY LobbyConstants DEF follow_seats, Follow, Tasks
<1>1. CASE Among(people, Here) = {}
  BY <1>0, <1>1 DEF follow_seats, Rests
<1>2. CASE Among(people, Here) # {}
  <2> DEFINE h == [NoTask EXCEPT !.op = "follow"]
  <2>1. h \in Handlers /\ h.op = "follow" /\ h.answer = Mute
    BY NoTaskType DEF Handlers, Works
  <2>2. Synchronises(Follow, h)
    BY <1>2 DEF follow_seats
  <2> HIDE DEF h
  <2>3. task[Follow].pc \notin Asked
    BY <1>0 DEF Stands, Asked
  <2>4. PICK pc \in {"sync", "seats"} :
             LET after == [h EXCEPT !.pc = pc] IN
             /\ after \in Handlers /\ Proper(after)
             /\ (Moves(Follow, after) /\ pc = "sync") \/ (Sends(Follow, after, 0) /\ pc = "seats")
    BY <1>0, <2>1, <2>2, <2>3, SynchronisesSteps
  <2> DEFINE after == [h EXCEPT !.pc = pc]
  <2>5. after.op = "follow" /\ after.pc = pc
    BY <2>1 DEF Handlers
  <2>6. /\ after \in Handlers /\ Proper(after)
        /\ Moves(Follow, after) \/ Sends(Follow, after, 0)
    BY <2>4
  <2> HIDE DEF after
  <2>7. PassesOn(Follow, after)
    BY <1>0, <2>4, <2>5, <2>6 DEF PassesOn, Passes, Locks
  <2> QED BY <1>0, <2>7
<1> QED BY <1>1, <1>2

\* follow_seats takes the table and tells, or ends.
LEMMA FollowReadsSteps ==
    ASSUME LineTypes, LineInv, follow_reads
    PROVE  /\ Follow \in Tasks /\ task[Follow].pc = "seats"
           /\ \/ /\ task[Follow].answer # Mute /\ Changes(salon, task[Follow].answer)
                 /\ PassesOn(Follow, Teller(Follow))
              \/ /\ task[Follow].answer = Mute \/ ~Changes(salon, task[Follow].answer)
                 /\ PassesOn(Follow, NoTask)
<1>1. Follow \in Tasks /\ task[Follow].pc = "seats" /\ Answered(Follow, "seats") /\ Taken(Follow)
  BY LobbyConstants DEF follow_reads, Answered, Stands, Follow, Tasks
<1>2. "seats" \in Asked /\ "seats" \in LockPlaces
  BY DEF Asked, LockPlaces
<1>3. CASE task[Follow].answer # Mute /\ Changes(salon, task[Follow].answer)
  <2>1. Tells(Follow)
    BY <1>3 DEF follow_reads
  <2> QED BY <1>1, <1>2, <1>3, <2>1, TellsPasses
<1>4. CASE ~(task[Follow].answer # Mute /\ Changes(salon, task[Follow].answer))
  <2>1. Ends(Follow)
    BY <1>4 DEF follow_reads
  <2> QED BY <1>1, <1>2, <1>4, <2>1, EndsPasses
<1> QED BY <1>3, <1>4

\* broadcast sends the owner's seat, or is over.
LEMMA BroadcastSteps ==
    ASSUME LobbyTypes, LineInv, NEW t \in Tasks, broadcast(t)
    PROVE  LET view == describe(salon', people') IN
           /\ task[t].pc = "broadcast"
           /\ salon' = Prepared(salon) /\ people' = Designated(people, Here)
           /\ view \in Views
           /\ \/ /\ view.seat # salon.told /\ UNCHANGED <<painted, unsaid>>
                 /\ [task[t] EXCEPT !.view = view, !.pc = "owner"].pc = "owner"
                 /\ PassesOn(t, [task[t] EXCEPT !.view = view, !.pc = "owner"])
              \/ /\ view.seat = salon.told
                 /\ Paints(view, salon', people') /\ PassesOn(t, NoTask)
<1> DEFINE view == describe(salon', people')
           entry == [task[t] EXCEPT !.view = view]
           h == [entry EXCEPT !.pc = "owner"]
<1>1. task[t].pc = "broadcast" /\ salon' = Prepared(salon) /\ people' = Designated(people, Here)
  BY DEF broadcast, Stands
<1>2. salon' \in Salons /\ people' \in Folks
  BY <1>1, PreparedType, OwnerType DEF LobbyTypes, RoomTypes
<1>3. view \in Views /\ view.seat \in 0..PADS
  <2>1. view \in Views
    BY <1>2, DescribeType
  <2> HIDE DEF view
  <2> QED BY <2>1 DEF Views
<1>4. LineTypes /\ TaskTypes
  BY DEF LobbyTypes, LineTypes
<1>5. CASE view.seat # salon.told
  <2>1. Orders(t, "owner", view.seat, entry) /\ UNCHANGED <<painted, unsaid>>
    BY <1>5 DEF broadcast
  <2>2. task[t].answer = Mute
    BY <1>1, <1>4, NothingAwaited DEF Asked
  <2>3. task[t] \in Handlers
    BY <1>4, LineParts
  <2>x. entry = [task[t] EXCEPT !.view = view]
    OBVIOUS
  <2> HIDE DEF view
  <2>4. /\ h \in Handlers /\ h.pc = "owner" /\ h.op = task[t].op /\ h.answer = Mute /\ h.view = view
    BY <1>3, <2>2, <2>3 DEF Handlers, Ways, Asked
  <2>5. /\ line' = Append(line, [by |-> t, what |-> "owner", about |-> view.seat, done |-> FALSE])
        /\ task' = [task EXCEPT ![t] = h]
    BY <2>1 DEF Orders
  <2>y. h = [task[t] EXCEPT !.view = view, !.pc = "owner"]
    OBVIOUS
  <2> HIDE DEF h, entry
  <2>6. Sends(t, h, view.seat)
    BY <1>1, <1>3, <2>4, <2>5 DEF Sends, Asked
  <2>7. Proper(h)
    BY <1>3, <2>4 DEF Proper
  <2>8. Locks(h) => Locks(task[t])
    BY <1>1, <2>4 DEF Locks, LockPlaces
  <2>9. PassesOn(t, h)
    BY <2>4, <2>6, <2>7, <2>8 DEF PassesOn, Passes
  <2> QED BY <1>1, <1>3, <1>5, <2>1, <2>4, <2>9, <2>y DEF view
<1>6. CASE view.seat = salon.told
  <2>1. Paints(view, salon', people') /\ Ends(t) /\ line' = line
    BY <1>6 DEF broadcast
  <2>2. task[t].pc \notin Asked
    BY <1>1 DEF Asked
  <2>3. PassesOn(t, NoTask)
    BY <1>4, <2>1, <2>2, EndsPasses
  <2> QED BY <1>1, <1>3, <1>6, <2>1, <2>3
<1> QED BY <1>5, <1>6

\* tell_owner takes its answer and is over.
LEMMA TellOwnerSteps ==
    ASSUME LineTypes, LineInv, NEW t \in Tasks, tell_owner(t)
    PROVE  task[t].pc = "owner" /\ PassesOn(t, NoTask)
<1>1. task[t].pc = "owner" /\ Answered(t, "owner") /\ Ends(t) /\ Taken(t)
  BY DEF tell_owner, Answered, Stands
<1>2. "owner" \in Asked
  BY DEF Asked
<1> QED BY <1>1, <1>2, EndsPasses

\* synchronise sends for the seats.
LEMMA SynchroniseSteps ==
    ASSUME LineTypes, LineInv, NEW t \in Tasks, synchronise(t)
    PROVE  task[t].pc = "sync" /\ \E h : PassesOn(t, h)
<1> DEFINE h == [task[t] EXCEPT !.pc = "seats"]
<1>1. task[t].pc = "sync" /\ task[t] \in Handlers
  BY LineParts DEF synchronise, Stands, LineTypes
<1>2. task[t].answer = Mute /\ Proper(task[t])
  BY <1>1, NothingAwaited DEF Asked, LineTypes, HandlerTypes
<1>3. /\ h \in Handlers /\ h.pc = "seats" /\ h.op = task[t].op /\ h.answer = Mute
      /\ h.sid = task[t].sid /\ h.message = task[t].message
  BY <1>1, <1>2 DEF Handlers, Ways, Asked
<1>4. /\ line' = Append(line, [by |-> t, what |-> "seats", about |-> 0, done |-> FALSE])
      /\ task' = [task EXCEPT ![t] = h]
  BY DEF synchronise, Asks_seats, Orders
<1> HIDE DEF h
<1>5. Sends(t, h, 0)
  BY <1>1, <1>3, <1>4, LobbyConstants DEF Sends, Asked
<1>6. Proper(h)
  BY <1>1, <1>2, <1>3 DEF Proper, Dealt
<1>7. Locks(h) => Locks(task[t])
  BY <1>1, <1>3 DEF Locks, LockPlaces
<1> QED BY <1>1, <1>3, <1>5, <1>6, <1>7 DEF PassesOn, Passes

\* A page speaks for one of its sessions.
LEMMA SpeakerType ==
    ASSUME RoomTypes, NEW g \in Guests, <<g, visits[g]>> \in Present
    PROVE  <<g, visits[g]>> \in Sessions
<1>1. people.present \in Seq(Sessions)
  BY DEF RoomTypes, Folks
<1> QED BY <1>1, ElementOfSeq, LenProperties DEF Present, ToSet

\* seat begins by asking for them.
LEMMA SeatSteps ==
    ASSUME LobbyTypes, LineInv, NEW g \in Here, seat(g)
    PROVE  \E t \in Tasks : \E h : Stands(t, "idle") /\ PassesOn(t, h)
<1> DEFINE s == <<g, visits[g]>>
           given == {r \in DOMAIN takers : takers[r][1] = g}
<1>0. s \in Sessions
  BY SpeakerType DEF seat, Speaks, Here, LobbyTypes
<1> HIDE DEF s
<1>1. PICK r \in given, t \in Vacant :
        Synchronises(t, [NoTask EXCEPT !.op = "seat", !.sid = s,
                                       !.message = Message("seat", takers[r][2], r, 0)])
  BY DEF seat, s
<1>2. t \in Tasks /\ Stands(t, "idle") /\ task[t].pc \notin Asked
  BY DEF Vacant, Stands, Asked
<1>3. /\ r \in 1..Len(takers) /\ takers[r] \in Guests \X Chairs /\ takers[r][1] = g
      /\ Len(takers) \in Nat /\ Len(takers) <= MaxGiven
  BY ElementOfSeq, LenProperties DEF LobbyTypes, WorkerTypes
<1>4. takers[r] = <<g, takers[r][2]>> /\ takers[r][2] \in Chairs
  BY <1>3
<1> DEFINE m == Message("seat", takers[r][2], r, 0)
           h == [NoTask EXCEPT !.op = "seat", !.sid = s, !.message = m]
<1>5. m \in Spoken /\ m.port = takers[r][2] /\ m.claim = r
  BY <1>3, <1>4, LobbyConstants DEF Message, Spoken, Chairs
<1>6. h \in Handlers /\ h.op = "seat" /\ h.sid = s /\ h.message = m /\ h.answer = Mute
  <2> HIDE DEF m
  <2> QED BY <1>0, <1>5, NoTaskType DEF Handlers, Works, Named
<1>7. Synchronises(t, h)
  BY <1>1
<1> HIDE DEF m, h
<1>8. ASSUME NEW pc \in {"sync", "seats"}
      PROVE  LET after == [h EXCEPT !.pc = pc] IN
             /\ after.op = "seat" /\ after.pc = pc /\ after.sid = s /\ after.message = m
             /\ after.answer = Mute
  BY <1>6 DEF Handlers
<1>9. s[1] = g
  BY DEF s
<1>10. ASSUME NEW pc \in {"sync", "seats"} PROVE Proper([h EXCEPT !.pc = pc])
  <2> DEFINE after == [h EXCEPT !.pc = pc]
  <2>1. /\ after.op = "seat" /\ after.pc = pc /\ after.sid = s /\ after.message = m
        /\ after.answer = Mute
    BY <1>8
  <2> HIDE DEF after
  <2>2. Proper(after)
    BY <1>0, <1>3, <1>4, <1>5, <1>9, <2>1 DEF Proper, Dealt
  <2> QED BY <2>2 DEF after
<1>11. LineTypes
  BY DEF LobbyTypes, LineTypes
<1>12. PICK pc \in {"sync", "seats"} :
             LET after == [h EXCEPT !.pc = pc] IN
             /\ after \in Handlers /\ Proper(after)
             /\ (Moves(t, after) /\ pc = "sync") \/ (Sends(t, after, 0) /\ pc = "seats")
  BY <1>2, <1>6, <1>7, <1>10, <1>11, SynchronisesSteps
<1> DEFINE after == [h EXCEPT !.pc = pc]
<1>13. after.op = "seat" /\ after.pc = pc
  BY <1>8
<1>14. after \in Handlers /\ Proper(after) /\ (Moves(t, after) \/ Sends(t, after, 0))
  BY <1>12
<1> HIDE DEF after
<1>15. PassesOn(t, after)
  BY <1>2, <1>12, <1>13, <1>14 DEF PassesOn, Passes, Locks
<1> QED BY <1>2, <1>15

\* seat takes the table and has only to tell.
LEMMA SeatReadsSteps ==
    ASSUME LineTypes, LineInv, NEW t \in Tasks, seat_reads(t)
    PROVE  task[t].pc = "seats" /\ task[t].op = "seat" /\ PassesOn(t, Teller(t))
<1>1. task[t].pc = "seats" /\ task[t].op = "seat" /\ Answered(t, "seats") /\ Tells(t) /\ Taken(t)
  BY DEF seat_reads, Answered, Stands
<1>2. "seats" \in Asked
  BY DEF Asked
<1> QED BY <1>1, <1>2, TellsPasses

\* A handler enters the lock when nobody is in it.
LEMMA EntersSteps ==
    ASSUME LineTypes, LineInv, NEW t \in Tasks, enters(t)
    PROVE  task[t].pc = "enter" /\ \E h : PassesOn(t, h)
<1>1. task[t].pc = "enter" /\ ~Preparing /\ task[t] \in Handlers
  BY LineParts DEF enters, Stands, LineTypes
<1>2. task[t].pc \notin Asked
  BY <1>1 DEF Asked
<1>3. task[t].answer = Mute
  BY <1>2, NothingAwaited DEF LineTypes
<1>4. CASE task[t].op = "prepare" /\ Synchronises(t, task[t])
  <2>0. Proper([task[t] EXCEPT !.pc = "seats"])
    <3> DEFINE after == [task[t] EXCEPT !.pc = "seats"]
    <3>1. after.pc = "seats" /\ after.op = "prepare" /\ after.answer = Mute /\ after.sid = task[t].sid
      BY <1>1, <1>3, <1>4 DEF Handlers
    <3>2. task[t].sid \in Sessions
      BY <1>1, <1>4 DEF LineTypes, HandlerTypes, Proper
    <3> HIDE DEF after
    <3>3. Proper(after)
      BY <3>1, <3>2 DEF Proper, Dealt
    <3> QED BY <3>3 DEF after
  <2>1. PICK pc \in {"sync", "seats"} :
             LET after == [task[t] EXCEPT !.pc = pc] IN
             /\ after \in Handlers /\ Proper(after)
             /\ (Moves(t, after) /\ pc = "sync") \/ (Sends(t, after, 0) /\ pc = "seats")
    BY <1>1, <1>2, <1>3, <1>4, <2>0, SynchronisesSteps
  <2> DEFINE after == [task[t] EXCEPT !.pc = pc]
  <2>2. after.pc = pc
    BY <1>1 DEF Handlers
  <2>3. after \in Handlers /\ Proper(after) /\ (Moves(t, after) \/ Sends(t, after, 0))
    BY <2>1
  <2> HIDE DEF after
  <2>4. PassesOn(t, after)
    BY <1>1, <2>1, <2>2, <2>3 DEF PassesOn, Passes
  <2> QED BY <1>1, <2>4
<1>5. CASE task[t].op = "close" /\ Asks_seats(t, task[t])
  <2> DEFINE h == [task[t] EXCEPT !.pc = "seats"]
  <2>1. /\ h \in Handlers /\ h.pc = "seats" /\ h.op = "close" /\ h.answer = Mute
    BY <1>1, <1>3, <1>5 DEF Handlers, Ways, Asked
  <2>2. /\ line' = Append(line, [by |-> t, what |-> "seats", about |-> 0, done |-> FALSE])
        /\ task' = [task EXCEPT ![t] = h]
    BY <1>5 DEF Asks_seats, Orders
  <2> HIDE DEF h
  <2>3. Sends(t, h, 0)
    BY <1>2, <2>1, <2>2, LobbyConstants DEF Sends, Asked
  <2>4. Proper(h)
    BY <2>1 DEF Proper, Dealt
  <2>5. PassesOn(t, h)
    BY <1>1, <2>1, <2>3, <2>4 DEF PassesOn, Passes
  <2> QED BY <1>1, <2>5
<1> QED BY <1>4, <1>5 DEF enters

\* prepare takes the table and describes.
LEMMA PrepareReadsSteps ==
    ASSUME LineTypes, LineInv, NEW t \in Tasks, prepare_reads(t)
    PROVE  task[t].pc = "seats" /\ \E h : PassesOn(t, h)
<1> DEFINE h == [task[t] EXCEPT !.pc = "describe", !.answer = Mute]
<1>1. task[t].pc = "seats" /\ task[t].op = "prepare" /\ Answered(t, "seats") /\ Taken(t) /\ task[t] \in Handlers
  BY LineParts DEF prepare_reads, Answered, Stands, LineTypes
<1>2. /\ h \in Handlers /\ h.pc = "describe" /\ h.answer = Mute /\ h.op = "prepare"
      /\ h.sid = task[t].sid /\ task[t].sid \in Sessions
  <2>1. task[t].sid \in Sessions
    BY <1>1 DEF LineTypes, HandlerTypes, Proper
  <2> QED BY <1>1, <2>1 DEF Handlers, Ways
<1>3. task' = [task EXCEPT ![t] = h]
  BY DEF prepare_reads, Goes
<1> HIDE DEF h
<1>4. Proper(h)
  BY <1>2 DEF Proper
<1>5. Locks(h) => Locks(task[t])
  BY <1>1 DEF Locks, LockPlaces
<1>6. "seats" \in Asked /\ "describe" \notin Asked
  BY DEF Asked
<1> QED BY <1>1, <1>2, <1>3, <1>4, <1>5, <1>6, TakesPasses

\* The seats the lobby knows were given.
LEMMA SeatsOfGiven ==
    ASSUME LobbyTypes, NEW room, room.known = salon.known
    PROVE  SeatsOf(room) \in Given
<1>1. Len(takers) \in Nat /\ salon.known \in Dealt
  BY LenProperties DEF LobbyTypes, WorkerTypes, ReadTypes
<1>2. NoTable \in Given
  BY <1>1 DEF NoTable, Given
<1> QED BY <1>1, <1>2 DEF SeatsOf, Dealt

\* What was given is a table.
LEMMA GivenType ==
    ASSUME LobbyTypes
    PROVE  Given \subseteq Tables /\ Len(takers) \in Nat /\ Len(takers) <= MaxGiven /\ LineTypes
<1>1. Len(takers) \in Nat /\ Len(takers) <= MaxGiven
  BY LenProperties DEF LobbyTypes, WorkerTypes
<1> QED BY <1>1, LobbyConstants DEF Given, Tables, Chairs, LobbyTypes, LineTypes

\* prepare sends an order, tells or ends.
LEMMA PreparesSteps ==
    ASSUME LobbyTypes, LineInv, NEW t \in Tasks, prepares(t)
    PROVE  LET room == Prepared(salon) IN
           /\ task[t].pc = "describe" /\ task[t].op = "prepare"
           /\ \E h : /\ Passes(t, h)
                     /\ h.pc = "launch" =>
                          /\ Sends(t, h, SeatsOf(room)) /\ h.message = task[t].message
                          /\ room.prep.id # 0 /\ h.message.id = room.prep.id
                          /\ EveryoneReady(room.prep) /\ salon' = room /\ said' = said
<1> DEFINE m == task[t].message
           room == Prepared(salon)
           s == task[t].sid
           port == seat_of(room, s)
           claim == IF port = 0 THEN 0 ELSE SeatsOf(room)[port]
           spoken == room.prep.id # 0 /\ m.id = room.prep.id
<1>1. task[t].pc = "describe" /\ task[t] \in Handlers /\ LineTypes
  BY LineParts, GivenType DEF prepares, Stands, LineTypes
<1>2. task[t].op = "prepare" /\ task[t].answer = Mute /\ task[t].pc \notin Asked
  BY <1>1, NothingAwaited DEF Asked, LineTypes, HandlerTypes, Proper
<1>3. room \in Salons /\ room.known = salon.known
  BY PreparedType DEF LobbyTypes, RoomTypes
<1>4. SeatsOf(room) \in Given /\ SeatsOf(room) \in Tables
  BY <1>3, SeatsOfGiven, GivenType
<1>5. port \in 0..PADS
  BY SeatOfType
<1>6. claim \in 0..MaxGiven
  BY <1>4, <1>5, LobbyConstants DEF Tables
<1>7. CASE Orders(t, "decides", port, [task[t] EXCEPT !.message.claim = claim, !.view = SeatsOf(room)])
  <2> DEFINE n == [m EXCEPT !.claim = claim]
             h == [task[t] EXCEPT !.message = n, !.view = SeatsOf(room), !.pc = "decides"]
  <2>1. n \in Spoken
    BY <1>1, <1>6 DEF Handlers, Spoken
  <2>2. /\ line' = Append(line, [by |-> t, what |-> "decides", about |-> port, done |-> FALSE])
        /\ task' = [task EXCEPT ![t] = h]
    BY <1>1, <1>7 DEF Orders, Handlers
  <2> HIDE DEF n, room, port
  <2>3. /\ h \in Handlers /\ h.pc = "decides" /\ h.op = "prepare" /\ h.answer = Mute
        /\ h.view = SeatsOf(room)
    BY <1>1, <1>2, <1>4, <2>1 DEF Handlers, Ways, Asked
  <2> HIDE DEF h
  <2>4. Sends(t, h, port)
    BY <1>2, <1>5, <2>2, <2>3 DEF Sends, Asked
  <2>5. Proper(h)
    BY <1>4, <2>3 DEF Proper
  <2>6. Locks(h) => Locks(task[t])
    BY <1>1, <1>2 DEF Locks, LockPlaces
  <2>7. Passes(t, h) /\ h.pc # "launch"
    BY <2>3, <2>4, <2>5, <2>6 DEF Passes
  <2> QED BY <1>1, <1>2, <2>7
<1>8. CASE Tells(t) /\ UNCHANGED line
  <2>1. PassesOn(t, Teller(t))
    BY <1>1, <1>2, <1>8, TellsPasses DEF LockPlaces
  <2> QED BY <1>1, <1>2, <2>1 DEF PassesOn
<1>9. CASE /\ spoken /\ EveryoneReady(room.prep) /\ salon' = room /\ said' = said
           /\ Orders(t, "launch", SeatsOf(room), task[t])
  <2> DEFINE h == [task[t] EXCEPT !.pc = "launch"]
  <2>1. /\ line' = Append(line, [by |-> t, what |-> "launch", about |-> SeatsOf(room), done |-> FALSE])
        /\ task' = [task EXCEPT ![t] = h]
    BY <1>9 DEF Orders
  <2>2. /\ h \in Handlers /\ h.pc = "launch" /\ h.op = "prepare" /\ h.answer = Mute
        /\ h.message = task[t].message
    BY <1>1, <1>2 DEF Handlers, Ways, Asked
  <2> HIDE DEF h
  <2>3. Sends(t, h, SeatsOf(room))
    BY <1>2, <1>4, <2>1, <2>2 DEF Sends, Asked
  <2>4. Proper(h)
    BY <2>2 DEF Proper
  <2>5. Locks(h) => Locks(task[t])
    BY <1>1, <1>2 DEF Locks, LockPlaces
  <2>6. Passes(t, h)
    BY <2>2, <2>3, <2>4, <2>5 DEF Passes
  <2> QED BY <1>1, <1>2, <1>9, <2>2, <2>3, <2>6
<1>10. CASE Ends(t) /\ UNCHANGED line
  <2>1. PassesOn(t, NoTask)
    BY <1>1, <1>2, <1>10, EndsPasses
  <2> QED BY <1>1, <1>2, <2>1 DEF PassesOn
<1> QED
  <2>1. \/ Orders(t, "decides", port, [task[t] EXCEPT !.message.claim = claim, !.view = SeatsOf(room)])
        \/ Tells(t) /\ UNCHANGED line
        \/ /\ spoken /\ EveryoneReady(room.prep) /\ salon' = room /\ said' = said
           /\ Orders(t, "launch", SeatsOf(room), task[t])
        \/ Ends(t) /\ UNCHANGED line
    BY DEF prepares
  <2> QED BY <2>1, <1>7, <1>8, <1>9, <1>10

\* begin takes the answer of the worker and tells, or ends.
LEMMA PrepareBeginsSteps ==
    ASSUME LineTypes, LineInv, NEW t \in Tasks, prepare_begins(t)
    PROVE  /\ task[t].pc = "decides" /\ task[t].op = "prepare"
           /\ \/ PassesOn(t, Teller(t))
              \/ UNCHANGED salon /\ PassesOn(t, NoTask)
<1>1. task[t].pc = "decides" /\ Answered(t, "decides") /\ Taken(t)
  BY DEF prepare_begins, Answered, Stands
<1>2. "decides" \in Asked /\ "decides" \in LockPlaces /\ task[t].op = "prepare"
  BY <1>1 DEF Asked, LockPlaces, LineTypes, HandlerTypes, Proper
<1>3. Tells(t) \/ (Ends(t) /\ UNCHANGED salon)
  BY DEF prepare_begins
<1> QED BY <1>1, <1>2, <1>3, TellsPasses, EndsPasses

\* close takes the table and goes on to the library, or ends.
LEMMA CloseReadsSteps ==
    ASSUME LobbyTypes, LineInv, NEW t \in Tasks, close_reads(t)
    PROVE  task[t].pc = "seats" /\ \E h : PassesOn(t, h)
<1> DEFINE seen == task[t].answer
           h == [task[t] EXCEPT !.pc = "library", !.answer = Mute, !.view = seen]
<1>0. LineTypes /\ Given \subseteq Tables
  BY GivenType
<1>1. task[t].pc = "seats" /\ task[t].op = "close" /\ Answered(t, "seats") /\ Taken(t) /\ task[t] \in Handlers
  BY <1>0, LineParts DEF close_reads, Answered, Stands, LineTypes
<1>2. "seats" \in Asked /\ "library" \notin Asked
  BY DEF Asked
<1>3. CASE Ends(t)
  BY <1>0, <1>1, <1>2, <1>3, EndsPasses
<1>4. CASE seen # Mute /\ task' = [task EXCEPT ![t].pc = "library", ![t].answer = Mute, ![t].view = seen]
  <2>1. seen \in Given
    <3>1. Proper(task[t])
      BY <1>0 DEF LineTypes, HandlerTypes
    <3> QED BY <1>1, <1>4, <3>1 DEF Proper, Dealt
  <2>2. seen \in Tables
    BY <1>0, <2>1
  <2>3. task' = [task EXCEPT ![t] = h]
    BY <1>0, <1>1, <1>4 DEF LineTypes, TaskTypes
  <2>4. /\ h \in Handlers /\ h.pc = "library" /\ h.answer = Mute /\ h.op = "close" /\ h.view = seen
    <3> HIDE DEF seen
    <3> QED BY <1>1, <2>2 DEF Handlers, Ways
  <2> HIDE DEF h
  <2>5. Proper(h)
    BY <2>1, <2>4 DEF Proper
  <2>6. Locks(h) => Locks(task[t])
    BY <1>1 DEF Locks, LockPlaces
  <2> QED BY <1>1, <1>2, <2>3, <2>4, <2>5, <2>6, <1>0, TakesPasses
<1> QED BY <1>3, <1>4 DEF close_reads

\* close sends its stop for the table it read, or ends.
LEMMA CloseOrdersSteps ==
    ASSUME LobbyTypes, LineInv, NEW t \in Tasks, close_orders(t)
    PROVE  task[t].pc = "library" /\ \E h : PassesOn(t, h)
<1>0. LineTypes /\ Given \subseteq Tables
  BY GivenType
<1>1. task[t].pc = "library" /\ task[t] \in Handlers /\ task[t].pc \notin Asked
  BY <1>0, LineParts DEF close_orders, Stands, LineTypes, Asked
<1>2. task[t].answer = Mute /\ Proper(task[t])
  BY <1>0, <1>1, NothingAwaited DEF LineTypes, HandlerTypes
<1>3. CASE Ends(t) /\ UNCHANGED line
  BY <1>0, <1>1, <1>3, EndsPasses
<1>4. CASE Orders(t, "stop", task[t].view, task[t])
  <2> DEFINE h == [task[t] EXCEPT !.pc = "stop"]
  <2>1. /\ line' = Append(line, [by |-> t, what |-> "stop", about |-> task[t].view, done |-> FALSE])
        /\ task' = [task EXCEPT ![t] = h]
    BY <1>4 DEF Orders
  <2>2. /\ h \in Handlers /\ h.pc = "stop" /\ h.op = task[t].op /\ h.answer = Mute
    BY <1>1, <1>2 DEF Handlers, Ways, Asked
  <2>3. task[t].view \in Given /\ task[t].view \in Tables
    BY <1>0, <1>1, <1>2 DEF Proper
  <2> HIDE DEF h
  <2>4. Sends(t, h, task[t].view)
    BY <1>1, <2>1, <2>2, <2>3 DEF Sends, Asked
  <2>5. Proper(h)
    BY <2>2 DEF Proper
  <2>6. Locks(h) => Locks(task[t])
    BY <1>1, <2>2 DEF Locks, LockPlaces
  <2>7. PassesOn(t, h)
    BY <2>2, <2>4, <2>5, <2>6 DEF PassesOn, Passes
  <2> QED BY <1>1, <2>7
<1> QED BY <1>3, <1>4 DEF close_orders

\* The answer of a launch or of a stop is taken.
LEMMA OrderTakenSteps ==
    ASSUME LineTypes, LineInv, NEW t \in Tasks, order_taken(t)
    PROVE  /\ task[t].pc \in {"launch", "stop"}
           /\ \/ PassesOn(t, Teller(t))
              \/ UNCHANGED salon /\ PassesOn(t, NoTask)
<1>1. task[t].pc \in {"launch", "stop"} /\ Answered(t, task[t].pc) /\ Taken(t)
  BY DEF order_taken, Answered, Stands
<1>2. task[t].pc \in Asked /\ task[t].pc \in LockPlaces
  BY <1>1 DEF Asked, LockPlaces
<1>3. Tells(t) \/ (Ends(t) /\ UNCHANGED salon)
  BY DEF order_taken
<1> QED BY <1>1, <1>2, <1>3, TellsPasses, EndsPasses

\* A recovery asks for the seats, tells or ends.
LEMMA RecoversSteps ==
    ASSUME LineTypes, LineInv, NEW t \in Tasks, recovers(t)
    PROVE  task[t].pc = "enter" /\ task[t].op = "recover" /\ \E h : PassesOn(t, h)
<1>1. /\ task[t].pc = "enter" /\ task[t].op = "recover" /\ task[t] \in Handlers
      /\ task[t].pc \notin Asked
  BY LineParts DEF recovers, Stands, LineTypes, Asked
<1>2. task[t].answer = Mute /\ Proper(task[t])
  BY <1>1, NothingAwaited DEF LineTypes, HandlerTypes
<1>3. CASE Ends(t) /\ UNCHANGED line
  BY <1>1, <1>3, EndsPasses
<1>4. CASE Tells(t) /\ UNCHANGED line
  BY <1>1, <1>4, TellsPasses
<1>5. CASE /\ task[t].message.act = "begin" => task[t].message.port # 0
           /\ Asks_seats(t, task[t])
  <2> DEFINE h == [task[t] EXCEPT !.pc = "seats"]
  <2>1. /\ h \in Handlers /\ h.pc = "seats" /\ h.op = "recover" /\ h.answer = Mute
        /\ h.sid = task[t].sid /\ h.message = task[t].message
    BY <1>1, <1>2 DEF Handlers, Ways, Asked
  <2>2. /\ line' = Append(line, [by |-> t, what |-> "seats", about |-> 0, done |-> FALSE])
        /\ task' = [task EXCEPT ![t] = h]
    BY <1>5 DEF Asks_seats, Orders
  <2>3. task[t].message.port \in 0..PADS
    BY <1>1 DEF Handlers, Spoken
  <2> HIDE DEF h
  <2>4. Sends(t, h, 0)
    BY <1>1, <2>1, <2>2, LobbyConstants DEF Sends, Asked
  <2>5. h.message.act = "begin" => h.message.port \in Chairs
    BY <1>5, <2>1, <2>3, LobbyConstants DEF Chairs
  <2>6. Proper(h)
    BY <1>1, <1>2, <2>1, <2>5 DEF Proper, Dealt
  <2>7. PassesOn(t, h)
    BY <2>1, <2>4, <2>6 DEF PassesOn, Passes, Locks
  <2> QED BY <1>1, <2>7
<1>6. \/ Ends(t) /\ UNCHANGED line
      \/ Tells(t) /\ UNCHANGED line
      \/ /\ task[t].message.act = "begin" => task[t].message.port # 0
         /\ Asks_seats(t, task[t])
  BY DEF recovers
<1> QED BY <1>1, <1>3, <1>4, <1>5, <1>6

\* A recovery takes the table and tells, or ends.
LEMMA RecoverReadsSteps ==
    ASSUME LineTypes, LineInv, NEW t \in Tasks, recover_reads(t)
    PROVE  /\ task[t].pc = "seats" /\ task[t].op = "recover"
           /\ PassesOn(t, Teller(t)) \/ PassesOn(t, NoTask)
<1>1. task[t].pc = "seats" /\ task[t].op = "recover" /\ Answered(t, "seats") /\ Taken(t)
  BY DEF recover_reads, Answered, Stands
<1>2. "seats" \in Asked /\ "seats" \in LockPlaces
  BY DEF Asked, LockPlaces
<1>3. Tells(t) \/ Ends(t)
  BY DEF recover_reads
<1> QED BY <1>1, <1>2, <1>3, TellsPasses, EndsPasses

\* Nothing moves, or a handler that neither read the seats nor is telling the room.
Apart == Rests \/ \E t, h : PassesOn(t, h) /\ task[t].pc \notin {"seats", "broadcast", "owner"}
\* One begins, that has the room to tell.
TellerBegins == \E t \in Tasks : /\ Stands(t, "idle")
                                 /\ PassesOn(t, Starting("tell", NoSession, "broadcast", NoMessage))

\* connect begins a broadcast if it is in this room.
LEMMA ConnectSteps ==
    ASSUME LineTypes, NEW g \in Guests, connect(g)
    PROVE  IF g \in Here THEN TellerBegins ELSE Rests
BY TellPasses DEF connect, TellerBegins, Rests

\* disconnect begins one if it was.
LEMMA DisconnectSteps ==
    ASSUME LineTypes, NEW s, disconnect(s)
    PROVE  IF s[1] \in Here THEN TellerBegins ELSE Rests
BY TellPasses DEF disconnect, TellerBegins, Rests

\* A page without a seat begins one.
LEMMA SeatNoneSteps ==
    ASSUME LineTypes, NEW g, seat_none(g)
    PROVE  TellerBegins
BY TellPasses DEF seat_none, TellerBegins

\* A page that agrees begins one.
LEMMA AgreesSteps ==
    ASSUME LineTypes, NEW g, NEW p, agrees(g, p)
    PROVE  TellerBegins
BY TellPasses DEF agrees, TellerBegins

\* A broadcast that begins touches no other handler.
LEMMA TellerApart ==
    ASSUME TellerBegins PROVE Apart
BY DEF TellerBegins, Apart, Stands

\* prepare begins before its lock.
LEMMA PrepareSteps ==
    ASSUME LobbyTypes, NEW g \in Here,
           NEW act \in {"begin", "ready", "unready", "cancel", "launch"}, prepare(g, act)
    PROVE  Apart
<1>1. <<g, visits[g]>> \in Sessions /\ <<g, visits[g]>> \in Named
  BY SpeakerType DEF prepare, Speaks, Here, LobbyTypes, Named
<1>2. painted.prep \in Nat
  BY DEF LobbyTypes, RoomTypes, Views
<1> DEFINE m == Message(act, 0, 0, painted.prep)
<1>3. m \in Spoken
  BY <1>2, LobbyConstants DEF Message, Spoken
<1>4. Begins("prepare", <<g, visits[g]>>, "enter", m) /\ line' = line
  BY DEF prepare
<1> HIDE DEF m
<1>5. "prepare" \in Works \ {"seat"} /\ TaskTypes
  BY DEF Works, LobbyTypes
<1> QED BY <1>1, <1>3, <1>4, <1>5, BeginsPasses DEF Apart, Stands

\* close begins before its lock.
LEMMA CloseGameSteps ==
    ASSUME LobbyTypes, NEW g \in Here, close_game(g)
    PROVE  Apart
<1>1. <<g, visits[g]>> \in Named
  BY SpeakerType DEF close_game, Speaks, Here, LobbyTypes, Named
<1>2. Begins("close", <<g, visits[g]>>, "enter", NoMessage) /\ line' = line
  BY DEF close_game
<1>3. "close" \in Works \ {"seat"} /\ TaskTypes
  BY DEF Works, LobbyTypes
<1> QED BY <1>1, <1>2, <1>3, NoTaskType, BeginsPasses DEF Apart, Stands

\* recover begins before its lock.
LEMMA RecoverSteps ==
    ASSUME LobbyTypes, NEW g \in Guests, NEW act \in {"begin", "yes", "no", "cancel", "finish"},
           NEW p \in 0..PADS, recover(g, act, p)
    PROVE  Apart
<1>1. <<g, visits[g]>> \in Sessions
  BY SpeakerType DEF recover, LobbyTypes
<1>2. salon.recovery.id \in Nat
  BY SalonParts DEF LobbyTypes, RoomTypes, Demands
<1> DEFINE m == Message(act, p, 0, salon.recovery.id)
<1>3. m \in Spoken
  BY <1>2, LobbyConstants DEF Message, Spoken
<1>4. Begins("recover", <<g, visits[g]>>, "enter", m) /\ line' = line
  BY DEF recover
<1> HIDE DEF m
<1>5. "recover" \in Works \ {"seat"} /\ TaskTypes /\ <<g, visits[g]>> \in Named
  BY <1>1 DEF Works, LobbyTypes, Named
<1> QED BY <1>1, <1>3, <1>4, <1>5, BeginsPasses DEF Apart, Stands

-----------------------------------------------------------------------------
(* The room, with names and readiness that are true. *)

Sound(room) ==
    /\ room \in Salons /\ room.known \in Dealt
    /\ \A p \in Chairs : room.prep.players[p].claim <= Len(takers)
    /\ WellNamed(room) /\ Confirmed(room.prep)

\* Names that leave keep the others sound.
LEMMA SoundRelease ==
    ASSUME NEW room, Sound(room), NEW S
    PROVE  Sound(release(room, S))
<1> DEFINE after == release(room, S)
<1>1. /\ after \in Salons /\ after.known = room.known /\ after.prep = room.prep
      /\ \A p \in Chairs : after.claims[p] = IF room.claims[p] \in S THEN NoSession ELSE room.claims[p]
      /\ \A s \in Sessions : after.receipts[s] = IF s \in S THEN 0 ELSE room.receipts[s]
  BY ReleaseType DEF Sound
<1>2. \A p \in Chairs : room.claims[p] # NoSession => room.claims[p] \in Sessions
  BY SalonParts DEF Sound, Named
<1> HIDE DEF after
<1>3. ASSUME NEW p \in Chairs, after.claims[p] # NoSession
      PROVE  LET s == after.claims[p] IN
             /\ after.known # Mute => after.receipts[s] = after.known[p]
             /\ after.receipts[s] \in 1..Len(takers) /\ takers[after.receipts[s]] = <<s[1], p>>
             /\ \A q \in Chairs \ {p} : after.claims[q] # s
  <2> DEFINE s == room.claims[p]
  <2>1. after.claims[p] = s /\ s \notin S /\ s # NoSession /\ s \in Sessions
    BY <1>1, <1>2, <1>3
  <2>2. after.receipts[s] = room.receipts[s]
    BY <1>1, <2>1
  <2>3. /\ room.known # Mute => room.receipts[s] = room.known[p]
        /\ room.receipts[s] \in 1..Len(takers) /\ takers[room.receipts[s]] = <<s[1], p>>
        /\ \A q \in Chairs \ {p} : room.claims[q] # s
    BY <2>1 DEF Sound, WellNamed
  <2>4. \A q \in Chairs \ {p} : after.claims[q] # s
    BY <1>1, <2>1, <2>3
  <2> HIDE DEF s
  <2> QED BY <1>1, <2>1, <2>2, <2>3, <2>4
<1>4. Sound(after)
  BY <1>1, <1>3 DEF Sound, WellNamed
<1> QED BY <1>4 DEF after

\* After a reading, the names left are of the table that was read.
LEMMA SoundObserve ==
    ASSUME NEW room, Sound(room), NEW seen \in Dealt, Given \subseteq Tables
    PROVE  Sound(observe_seats(room, seen))
<1>0. room \in Salons /\ seen \in Tables \union {Mute}
  BY DEF Sound, Dealt
<1>1. CASE seen = Mute
  BY <1>1 DEF observe_seats
<1>2. CASE seen # Mute
  <2> DEFINE after == observe_seats(room, seen)
             kept == release(room, Stale(room, seen))
  <2>1. /\ after \in Salons /\ after.known = seen /\ after.prep = room.prep
    BY <1>0, <1>2, ObserveType
  <2>2. kept \in Salons
    BY <1>0, ReleaseType
  <2>3. after.claims = kept.claims /\ after.receipts = kept.receipts
    <3> HIDE DEF kept
    <3>1. after = [kept EXCEPT !.known = seen,
                               !.told = IF Changes(room, seen) THEN -1 ELSE kept.told]
      BY <1>2, <2>2 DEF observe_seats, Salons, kept
    <3> HIDE DEF after
    <3> QED BY <2>2, <3>1 DEF Salons
  <2>4. /\ \A p \in Chairs : kept.claims[p] =
             IF room.claims[p] \in Stale(room, seen) THEN NoSession ELSE room.claims[p]
        /\ \A s \in Sessions : kept.receipts[s] =
             IF s \in Stale(room, seen) THEN 0 ELSE room.receipts[s]
    BY <1>0, ReleaseType
  <2>5. \A p \in Chairs : room.claims[p] # NoSession => room.claims[p] \in Sessions
    BY <1>0, SalonParts DEF Named
  <2>6. \A p \in Chairs : room.claims[p] \in Sessions \ Stale(room, seen)
          => room.receipts[room.claims[p]] = seen[p]
    BY DEF Stale
  <2> HIDE DEF after, kept
  <2>7. ASSUME NEW p \in Chairs, after.claims[p] # NoSession
        PROVE  LET s == after.claims[p] IN
               /\ after.known # Mute => after.receipts[s] = after.known[p]
               /\ after.receipts[s] \in 1..Len(takers) /\ takers[after.receipts[s]] = <<s[1], p>>
               /\ \A q \in Chairs \ {p} : after.claims[q] # s
    <3> DEFINE s == room.claims[p]
    <3>1. after.claims[p] = s /\ s \notin Stale(room, seen) /\ s # NoSession /\ s \in Sessions
      BY <2>3, <2>4, <2>5, <2>7
    <3>2. after.receipts[s] = room.receipts[s] /\ room.receipts[s] = seen[p]
      BY <2>3, <2>4, <2>6, <3>1
    <3>3. /\ room.receipts[s] \in 1..Len(takers) /\ takers[room.receipts[s]] = <<s[1], p>>
          /\ \A q \in Chairs \ {p} : room.claims[q] # s
      BY <3>1 DEF Sound, WellNamed
    <3>4. \A q \in Chairs \ {p} : after.claims[q] # s
      BY <2>3, <2>4, <3>1, <3>3
    <3> HIDE DEF s
    <3> QED BY <2>1, <3>1, <3>2, <3>3, <3>4
  <2>8. Sound(after)
    BY <2>1, <2>7 DEF Sound, WellNamed
  <2> QED BY <2>8 DEF after
<1> QED BY <1>1, <1>2

\* A claim of a seat that was given puts the right name under it.
LEMMA SoundClaimed ==
    ASSUME NEW room, Sound(room), NEW s \in Sessions, NEW port \in Chairs, NEW claim \in 1..Len(takers),
           takers[claim] = <<s[1], port>>, Len(takers) <= MaxGiven, Len(takers) \in Nat
    PROVE  Sound(Claimed(room, s, port, claim))
<1>0. claim \in 0..MaxGiven /\ room \in Salons
  BY LobbyConstants DEF Sound
<1>1. LET after == Claimed(room, s, port, claim) IN
      after \in Salons /\ after.prep = room.prep /\ after.known = room.known
  BY <1>0, ClaimedType
<1> DEFINE C == [p \in Chairs |-> IF p = port THEN s ELSE IF room.claims[p] = s THEN NoSession
                                                           ELSE room.claims[p]]
           R == [room.receipts EXCEPT ![s] = claim]
<1>2. CASE Claimed(room, s, port, claim) = room
  BY <1>2
<1>3. CASE /\ Claimed(room, s, port, claim) = [room EXCEPT !.claims = C, !.receipts = R]
           /\ room.known # Mute => claim = room.known[port]
  <2> DEFINE after == Claimed(room, s, port, claim)
  <2>1. R \in [Sessions -> 0..MaxGiven] /\ R[s] = claim
        /\ \A x \in Sessions : x # s => R[x] = room.receipts[x]
    BY <1>0, SalonParts
  <2>2. C \in [Chairs -> Named]
    BY <1>0, SalonParts DEF Named
  <2>3. after.claims = C /\ after.receipts = R
    <3> HIDE DEF C, R
    <3> QED BY <1>0, <1>3, <2>1, <2>2 DEF Salons
  <2>4. \A p \in Chairs : C[p] = IF p = port THEN s ELSE IF room.claims[p] = s THEN NoSession
                                                         ELSE room.claims[p]
    OBVIOUS
  <2>5. \A p \in Chairs : room.claims[p] # NoSession => room.claims[p] \in Sessions
    BY <1>0, SalonParts DEF Named
  <2>6. after \in Salons /\ after.prep = room.prep /\ after.known = room.known
    BY <1>1
  <2> HIDE DEF C, R, after
  <2>7. ASSUME NEW p \in Chairs, after.claims[p] # NoSession
        PROVE  LET x == after.claims[p] IN
               /\ after.known # Mute => after.receipts[x] = after.known[p]
               /\ after.receipts[x] \in 1..Len(takers) /\ takers[after.receipts[x]] = <<x[1], p>>
               /\ \A q \in Chairs \ {p} : after.claims[q] # x
    <3> DEFINE x == after.claims[p]
    <3>1. CASE p = port
      <4>1. x = s /\ after.receipts[s] = claim
        BY <2>1, <2>3, <2>4, <3>1
      <4>2. \A q \in Chairs \ {p} : after.claims[q] # s
        BY <2>3, <2>4, <3>1, LobbyConstants
      <4> HIDE DEF x
      <4> QED BY <1>3, <2>6, <3>1, <4>1, <4>2 DEF x
    <3>2. CASE p # port
      <4>1. x = room.claims[p] /\ x # s /\ x # NoSession /\ x \in Sessions
        BY <2>3, <2>4, <2>5, <2>7, <3>2
      <4> HIDE DEF x
      <4>2. after.receipts[x] = room.receipts[x]
        BY <2>1, <2>3, <4>1
      <4>3. /\ room.known # Mute => room.receipts[x] = room.known[p]
            /\ room.receipts[x] \in 1..Len(takers) /\ takers[room.receipts[x]] = <<x[1], p>>
            /\ \A q \in Chairs \ {p} : room.claims[q] # x
        BY <4>1 DEF Sound, WellNamed
      <4>4. \A q \in Chairs \ {p} : after.claims[q] # x
        BY <2>3, <2>4, <4>1, <4>3
      <4> QED BY <2>6, <4>1, <4>2, <4>3, <4>4 DEF x
    <3> QED BY <3>1, <3>2
  <2>8. Sound(after)
    BY <2>6, <2>7 DEF Sound, WellNamed
  <2> QED BY <2>8 DEF after
<1> QED BY <1>2, <1>3, <1>0, SalonParts DEF Claimed

\* Nothing of what Sound speaks of has changed, or the preparation is given up.
LEMMA SoundAsBefore ==
    ASSUME NEW room, Sound(room), NEW after \in Salons, Len(takers) \in Nat,
           after.claims = room.claims, after.receipts = room.receipts, after.known = room.known,
           after.prep \in {room.prep, NoPreparation}
    PROVE  Sound(after)
BY NothingPrepared DEF Sound, WellNamed, Confirmed

\* The choices kept are of attributions that stand.
LEMMA SoundPrepared ==
    ASSUME NEW room, Sound(room), Len(takers) \in Nat
    PROVE  /\ Sound(Prepared(room))
           /\ Prepared(room).prep.id # 0 =>
                \A p \in Chairs : Prepared(room).prep.players[p].claim = SeatsOf(Prepared(room))[p]
<1> DEFINE after == Prepared(room)
<1>1. room \in Salons
  BY DEF Sound
<1>2. /\ after \in Salons
      /\ after.claims = room.claims /\ after.receipts = room.receipts /\ after.known = room.known
      /\ \/ after.prep = NoPreparation
         \/ /\ after.prep.id = room.prep.id /\ after.prep.id # 0
            /\ after.prep.players = Reconfirmed(room.prep, SeatsOf(room))
  BY <1>1, PreparedType
<1>3. SeatsOf(after) = SeatsOf(room)
  BY <1>2 DEF SeatsOf
<1> HIDE DEF after
<1>4. CASE after.prep = NoPreparation
  BY <1>2, <1>4, SoundAsBefore, NothingPrepared DEF after
<1>5. CASE /\ after.prep.id = room.prep.id /\ after.prep.id # 0
           /\ after.prep.players = Reconfirmed(room.prep, SeatsOf(room))
  <2>1. room.prep \in Preparations /\ SeatsOf(room) \in Tables
    BY <1>1, SalonParts
  <2>2. \A p \in Chairs :
                /\ after.prep.players[p].claim = SeatsOf(room)[p]
                /\ after.prep.players[p].ready =>
                     SeatsOf(room)[p] # 0 /\ \E q \in Chairs : /\ room.prep.players[q].claim = SeatsOf(room)[p]
                                                               /\ room.prep.players[q].ready
    BY <1>5, <2>1, ReconfirmedType
  <2>3. SeatsOf(room) \in Given
    BY DEF SeatsOf, NoTable, Given, Dealt, Sound
  <2>4. \A p \in Chairs : SeatsOf(room)[p] <= Len(takers)
    BY <2>3 DEF Given
  <2>5. Confirmed(after.prep)
    BY <1>5, <2>2 DEF Confirmed, Sound, SaidBy
  <2>6. WellNamed(after)
    BY <1>2 DEF WellNamed, Sound
  <2>7. Sound(after)
    BY <1>2, <2>2, <2>4, <2>5, <2>6 DEF Sound
  <2> QED BY <2>2, <2>7, <1>3 DEF after
<1> QED BY <1>2, <1>4, <1>5

-----------------------------------------------------------------------------
(* What each action does of the room. *)

\* The room before a step; and what it is after one that read nothing, and after one
\* that was answered a table.
RoomSound == LobbyTypes /\ Sound(salon)
Keeping == Sound(salon') /\ salon'.known = salon.known /\ salon'.told \in {salon.told, -1}
Seeing(seen) ==
    /\ Sound(salon')
    /\ salon'.known = IF seen = Mute THEN salon.known ELSE seen
    /\ salon'.told = IF seen # Mute /\ Changes(salon, seen) THEN -1 ELSE salon.told

\* What the lemmas about a room use of the invariant.
LEMMA RoomFacts ==
    ASSUME RoomSound
    PROVE  /\ salon \in Salons /\ people \in Folks /\ people.present \in Seq(Sessions)
           /\ Len(takers) \in Nat /\ Len(takers) <= MaxGiven /\ Given \subseteq Tables
           /\ LineTypes /\ Present \subseteq Sessions
           /\ \A t \in Tasks : task[t] \in Handlers /\ Proper(task[t])
<1>1. people \in Folks /\ people.present \in Seq(Sessions)
  BY DEF RoomSound, LobbyTypes, RoomTypes, Folks
<1>2. Present \subseteq Sessions
  BY <1>1, ElementOfSeq, LenProperties DEF Present, ToSet
<1> QED BY <1>1, <1>2, GivenType, LineParts DEF RoomSound, LobbyTypes, RoomTypes, HandlerTypes

\* A table that was read may be applied.
LEMMA Observed ==
    ASSUME RoomSound, NEW t \in Tasks, task[t].pc = "seats"
    PROVE  LET after == observe_seats(salon, task[t].answer) IN
           /\ task[t].answer \in Dealt
           /\ Sound(after) /\ after \in Salons
           /\ after.known = IF task[t].answer = Mute THEN salon.known ELSE task[t].answer
           /\ after.told = IF task[t].answer # Mute /\ Changes(salon, task[t].answer) THEN -1 ELSE salon.told
<1>1. task[t].answer \in Dealt /\ task[t].answer \in Tables \union {Mute}
  BY RoomFacts DEF Proper, Dealt
<1> QED BY <1>1, RoomFacts, ObserveType, SoundObserve DEF RoomSound

\* follow_seats makes of the room what the reading does.
LEMMA FollowReadsRoom ==
    ASSUME RoomSound, follow_reads
    PROVE  Seeing(task[Follow].answer)
<1>1. Follow \in Tasks /\ task[Follow].pc = "seats" /\ salon' = observe_seats(salon, task[Follow].answer)
  BY LobbyConstants DEF follow_reads, Answered, Stands, Follow, Tasks
<1> QED BY <1>1, Observed DEF Seeing

\* prepare makes of it the same.
LEMMA PrepareReadsRoom ==
    ASSUME RoomSound, NEW t \in Tasks, prepare_reads(t)
    PROVE  Seeing(task[t].answer)
<1>1. task[t].pc = "seats" /\ salon' = observe_seats(salon, task[t].answer)
  BY DEF prepare_reads, Answered, Stands
<1> QED BY <1>1, Observed DEF Seeing

\* close makes of it the same.
LEMMA CloseReadsRoom ==
    ASSUME RoomSound, NEW t \in Tasks, close_reads(t)
    PROVE  Seeing(task[t].answer)
<1>1. task[t].pc = "seats" /\ salon' = observe_seats(salon, task[t].answer)
  BY DEF close_reads, Answered, Stands
<1> QED BY <1>1, Observed DEF Seeing

\* seat, after the reading, claims.
LEMMA SeatReadsRoom ==
    ASSUME RoomSound, NEW t \in Tasks, seat_reads(t)
    PROVE  Seeing(task[t].answer)
<1> DEFINE m == task[t].message
           s == task[t].sid
           after == observe_seats(salon, task[t].answer)
           rid == forget_absent(after)
<1>1. /\ task[t].pc = "seats" /\ task[t].op = "seat"
      /\ salon' = Claimed(rid, s, m.port, m.claim)
  BY DEF seat_reads, Answered, Stands
<1>2. /\ Sound(after) /\ after \in Salons
      /\ after.known = IF task[t].answer = Mute THEN salon.known ELSE task[t].answer
      /\ after.told = IF task[t].answer # Mute /\ Changes(salon, task[t].answer) THEN -1 ELSE salon.told
  BY <1>1, Observed
<1> HIDE DEF after
<1>3. Sound(rid) /\ rid \in Salons /\ rid.known = after.known /\ rid.told = after.told
  <2>1. Sound(rid)
    BY <1>2, SoundRelease DEF forget_absent
  <2> QED BY <1>2, <2>1, ForgetType
<1> HIDE DEF rid
<1>4. /\ s \in Sessions /\ m.port \in Chairs /\ m.claim \in 1..Len(takers)
      /\ takers[m.claim] = <<s[1], m.port>>
  BY <1>1, RoomFacts DEF Proper
<1>5. m.claim \in 0..MaxGiven /\ Len(takers) \in Nat /\ Len(takers) <= MaxGiven
  BY <1>4, RoomFacts, LobbyConstants
<1> HIDE DEF m, s
<1>6. Sound(salon') /\ salon'.known = rid.known /\ salon'.told = rid.told
  BY <1>1, <1>3, <1>4, <1>5, SoundClaimed, ClaimedType
<1> QED BY <1>2, <1>3, <1>6 DEF Seeing

\* A change of the request of recovery, of what was told, or the end of a preparation.
LEMMA KeepingAsBefore ==
    ASSUME RoomSound, salon' \in Salons, salon'.claims = salon.claims,
           salon'.receipts = salon.receipts, salon'.known = salon.known,
           salon'.told \in {salon.told, -1}, salon'.prep \in {salon.prep, NoPreparation}
    PROVE  Keeping
BY RoomFacts, SoundAsBefore DEF Keeping, RoomSound

\* follow_seats only drops a request that is over.
LEMMA FollowSeatsRoom ==
    ASSUME RoomSound, follow_seats
    PROVE  Keeping
<1>1. salon' = Cleared
  BY DEF follow_seats
<1> QED BY <1>1, RoomFacts, ClearedType, KeepingAsBefore

\* A room that is described keeps its names.
LEMMA PreparedRoom ==
    ASSUME RoomSound, salon' = Prepared(salon)
    PROVE  Keeping /\ salon'.told = salon.told
BY RoomFacts, PreparedType, SoundPrepared DEF Keeping, RoomSound

\* A session that leaves takes its name only.
LEMMA ReleaseRoom ==
    ASSUME RoomSound, NEW S, salon' = release(salon, S)
    PROVE  Keeping
BY RoomFacts, ReleaseType, SoundRelease DEF Keeping, RoomSound

\* A name given away leaves the others.
LEMMA AgreesRoom ==
    ASSUME RoomSound, NEW g, NEW p \in Chairs, agrees(g, p)
    PROVE  Keeping
<1> DEFINE C == [salon.claims EXCEPT ![p] = NoSession]
<1>1. salon' = [salon EXCEPT !.claims = C]
  BY RoomFacts, SalonParts DEF agrees
<1>2. C \in [Chairs -> Named] /\ \A q \in Chairs : C[q] = IF q = p THEN NoSession ELSE salon.claims[q]
  BY RoomFacts, SalonParts DEF Named
<1> HIDE DEF C
<1>3. /\ salon' \in Salons /\ salon'.claims = C /\ salon'.receipts = salon.receipts
      /\ salon'.known = salon.known /\ salon'.told = salon.told /\ salon'.prep = salon.prep
  BY <1>1, <1>2, RoomFacts DEF Salons
<1>4. ASSUME NEW q \in Chairs, C[q] # NoSession
      PROVE  LET s == C[q] IN
             /\ salon.known # Mute => salon.receipts[s] = salon.known[q]
             /\ salon.receipts[s] \in 1..Len(takers) /\ takers[salon.receipts[s]] = <<s[1], q>>
             /\ \A r \in Chairs \ {q} : C[r] # s
  <2> DEFINE s == salon.claims[q]
  <2>1. C[q] = s /\ s # NoSession
    BY <1>2, <1>4
  <2>2. /\ salon.known # Mute => salon.receipts[s] = salon.known[q]
        /\ salon.receipts[s] \in 1..Len(takers) /\ takers[salon.receipts[s]] = <<s[1], q>>
        /\ \A r \in Chairs \ {q} : salon.claims[r] # s
    BY <2>1 DEF RoomSound, Sound, WellNamed
  <2>3. \A r \in Chairs \ {q} : C[r] # s
    BY <1>2, <2>1, <2>2
  <2> HIDE DEF s
  <2> QED BY <2>1, <2>2, <2>3
<1>5. WellNamed(salon')
  BY <1>3, <1>4 DEF WellNamed
<1> QED BY <1>3, <1>5 DEF Keeping, RoomSound, Sound

\* Once the order is taken nothing is prepared.
LEMMA OrderTakenRoom ==
    ASSUME RoomSound, NEW t \in Tasks, order_taken(t)
    PROVE  Keeping /\ salon'.told = salon.told
<1>1. CASE UNCHANGED salon
  BY <1>1 DEF Keeping, RoomSound
<1>2. CASE salon' = [salon EXCEPT !.prep = NoPreparation]
  <2>1. /\ salon' \in Salons /\ salon'.claims = salon.claims /\ salon'.receipts = salon.receipts
        /\ salon'.known = salon.known /\ salon'.told = salon.told /\ salon'.prep = NoPreparation
    BY <1>2, RoomFacts, NothingPrepared DEF Salons
  <2> QED BY <2>1, KeepingAsBefore
<1> QED BY <1>1, <1>2 DEF order_taken

\* A preparation begins with nobody ready.
LEMMA PrepareBeginsRoom ==
    ASSUME RoomSound, NEW t \in Tasks, prepare_begins(t)
    PROVE  Keeping /\ salon'.told = salon.told
<1>1. CASE UNCHANGED salon
  BY <1>1 DEF Keeping, RoomSound
<1>2. CASE salon' = [salon EXCEPT !.begun = @ + 1,
                            !.prep = [id |-> salon.begun + 1, starter |-> task[t].message.claim,
                                      players |-> [p \in Chairs |-> [claim |-> task[t].view[p],
                                                                     ready |-> FALSE]]]]
  <2> DEFINE next == salon.begun + 1
             asked == [p \in Chairs |-> [claim |-> task[t].view[p], ready |-> FALSE]]
             begun == [id |-> next, starter |-> task[t].message.claim, players |-> asked]
  <2>1. task[t].pc = "decides" /\ task[t] \in Handlers /\ Proper(task[t])
    BY RoomFacts DEF prepare_begins, Answered, Stands
  <2>2. task[t].view \in Given /\ task[t].view \in Tables
    BY <2>1, RoomFacts DEF Proper
  <2>3. /\ asked \in ReadyOnes
        /\ \A p \in Chairs : asked[p].claim <= Len(takers) /\ ~asked[p].ready
    <3> DEFINE read == task[t].view
    <3>1. \A p \in Chairs : read[p] \in 0..MaxGiven /\ read[p] <= Len(takers)
      <4>1. read \in [1..PADS -> 0..MaxGiven] /\ read \in [1..PADS -> 0..Len(takers)] /\ Len(takers) \in Nat
        BY <2>2, RoomFacts DEF Tables, Given, Chairs
      <4> HIDE DEF read
      <4> QED BY <4>1 DEF Chairs
    <3>2. asked = [p \in Chairs |-> [claim |-> read[p], ready |-> FALSE]]
      OBVIOUS
    <3> HIDE DEF read
    <3> QED BY <3>1, <3>2 DEF ReadyOnes
  <2>4. next \in Nat
    BY RoomFacts, SalonParts
  <2>5. task[t].message.claim \in 0..MaxGiven
    BY <2>1 DEF Handlers, Spoken
  <2>6. salon' = [[salon EXCEPT !.begun = next] EXCEPT !.prep = begun]
    BY <1>2
  <2> HIDE DEF next, asked
  <2>7. begun \in Preparations /\ begun.players = asked
    BY <2>3, <2>4, <2>5 DEF Preparations
  <2> HIDE DEF begun
  <2>8. [salon EXCEPT !.begun = next] \in Salons
    BY <2>4, RoomFacts DEF Salons
  <2>9. /\ salon' \in Salons /\ salon'.claims = salon.claims /\ salon'.receipts = salon.receipts
        /\ salon'.known = salon.known /\ salon'.told = salon.told /\ salon'.prep = begun
    BY <2>6, <2>7, <2>8, RoomFacts DEF Salons
  <2>10. WellNamed(salon')
    BY <2>9 DEF WellNamed, RoomSound, Sound
  <2>11. Confirmed(salon'.prep)
    BY <2>3, <2>7, <2>9 DEF Confirmed
  <2> QED BY <2>3, <2>7, <2>9, <2>10, <2>11 DEF Keeping, RoomSound, Sound
<1> QED BY <1>1, <1>2 DEF prepare_begins

\* Whoever is ready has just said so, under the receipt of their own seat.
LEMMA PreparesRoom ==
    ASSUME RoomSound, NEW t \in Tasks, prepares(t)
    PROVE  /\ Sound(salon)' /\ salon'.known = salon.known /\ salon'.told = salon.told
           /\ said' \in [1..MaxGiven -> [id : Nat, by : Guests \union {NoLogin}]]
<1> DEFINE m == task[t].message
           room == Prepared(salon)
           s == task[t].sid
           port == seat_of(room, s)
           claim == IF port = 0 THEN 0 ELSE SeatsOf(room)[port]
           spoken == room.prep.id # 0 /\ m.id = room.prep.id
           mine == {p \in Chairs : room.prep.players[p].claim = claim}
           players == [p \in Chairs |-> IF p \in mine
                                        THEN [room.prep.players[p] EXCEPT !.ready = m.act = "ready"]
                                        ELSE room.prep.players[p]]
           voice == IF m.act = "ready" THEN [id |-> m.id, by |-> s[1]] ELSE NotSaid
<1>1. /\ Sound(room) /\ room \in Salons /\ room.known = salon.known /\ room.told = salon.told
      /\ Len(takers) \in Nat /\ Len(takers) <= MaxGiven
  BY RoomFacts, PreparedType, SoundPrepared DEF RoomSound
<1>2. takers' = takers /\ said \in [1..MaxGiven -> [id : Nat, by : Guests \union {NoLogin}]]
  BY DEF prepares, workerVars, RoomSound, LobbyTypes, RoomTypes
<1>3. s \in Sessions /\ m.id \in Nat
  <2>1. task[t].pc = "describe" /\ task[t].op = "prepare" /\ task[t].sid \in Sessions
    BY RoomFacts DEF prepares, Stands, Proper
  <2> QED BY <2>1, RoomFacts DEF Handlers, Spoken
<1>4. \/ salon' = room /\ said' = said
      \/ salon' = [room EXCEPT !.prep = NoPreparation] /\ said' = said
      \/ /\ claim # 0 /\ spoken
         /\ salon' = [room EXCEPT !.prep.players = players] /\ said' = [said EXCEPT ![claim] = voice]
  <2>1. room.prep.players \in ReadyOnes
    BY <1>1, SalonParts DEF Preparations
  <2> HIDE DEF room
  <2>2. salon' = [room EXCEPT !.prep.players =
                [p \in Chairs |-> IF p \in mine THEN [@[p] EXCEPT !.ready = m.act = "ready"] ELSE @[p]]]
           => salon' = [room EXCEPT !.prep.players = players]
    BY <1>1, SalonParts DEF Preparations
  <2> QED BY <2>2 DEF prepares, room
<1>5. CASE salon' = room /\ said' = said
  BY <1>1, <1>2, <1>5 DEF Sound, WellNamed, Confirmed, SaidBy, Dealt, Given
<1>6. CASE salon' = [room EXCEPT !.prep = NoPreparation] /\ said' = said
  <2> HIDE DEF room
  <2>1. /\ salon' \in Salons /\ salon'.claims = room.claims /\ salon'.receipts = room.receipts
        /\ salon'.known = room.known /\ salon'.told = room.told /\ salon'.prep = NoPreparation
    BY <1>1, <1>6, NothingPrepared DEF Salons
  <2>2. Sound(salon')
    BY <1>1, <2>1, SoundAsBefore
  <2> QED BY <1>1, <1>2, <1>6, <2>1, <2>2 DEF Sound, WellNamed, Confirmed, SaidBy, Dealt, Given
<1>7. CASE /\ claim # 0 /\ spoken
           /\ salon' = [room EXCEPT !.prep.players = players] /\ said' = [said EXCEPT ![claim] = voice]
  <2>1. room.prep \in Preparations /\ room.prep.players \in ReadyOnes /\ SeatsOf(room) \in Tables
    BY <1>1, SalonParts DEF Preparations
  <2>2. port \in Chairs /\ room.claims[port] = s
    BY <1>7, SeatOfType
  <2>3. claim \in 1..MaxGiven /\ takers[claim][1] = s[1]
    <3>1. room.known # Mute /\ claim = room.known[port]
      BY <1>7, <2>2, LobbyConstants DEF SeatsOf, NoTable
    <3>2. s # NoSession
      BY <1>3, LobbyConstants
    <3> HIDE DEF claim, s, room, port
    <3>3. room.receipts[s] = claim /\ claim \in 1..Len(takers) /\ takers[claim] = <<s[1], port>>
      <4>1. /\ room.receipts[s] = room.known[port]
            /\ room.receipts[s] \in 1..Len(takers) /\ takers[room.receipts[s]] = <<s[1], port>>
        BY <1>1, <2>2, <3>1, <3>2 DEF Sound, WellNamed
      <4> QED BY <3>1, <4>1
    <3>4. claim \in Nat /\ 1 <= claim /\ claim <= MaxGiven
      BY <1>1, <3>3, LobbyConstants
    <3>5. takers[claim][1] = s[1]
      BY <3>3
    <3> QED BY <3>4, <3>5, LobbyConstants
  <2>4. voice \in [id : Nat, by : Guests \union {NoLogin}]
    BY <1>3, LobbyConstants DEF NotSaid
  <2>5. /\ \A p \in Chairs : /\ players[p].claim = room.prep.players[p].claim
                             /\ players[p].claim = claim => (players[p].ready <=> m.act = "ready")
                             /\ players[p].claim # claim => players[p].ready = room.prep.players[p].ready
        /\ players \in ReadyOnes
    <3> HIDE DEF room, claim
    <3> QED BY <2>1 DEF ReadyOnes
  <2> DEFINE P == [room.prep EXCEPT !.players = players]
  <2> HIDE DEF players, claim, voice, room
  <2>6. P \in Preparations /\ P.players = players /\ P.id = room.prep.id
    BY <2>1, <2>5 DEF Preparations
  <2>7. salon' = [room EXCEPT !.prep = P]
    BY <1>1, <1>7, SalonParts
  <2> HIDE DEF P
  <2>8. /\ salon' \in Salons /\ salon'.claims = room.claims /\ salon'.receipts = room.receipts
        /\ salon'.known = room.known /\ salon'.told = room.told /\ salon'.prep = P
    BY <1>1, <2>6, <2>7 DEF Salons
  <2>9. /\ said' \in [1..MaxGiven -> [id : Nat, by : Guests \union {NoLogin}]]
        /\ said'[claim] = voice /\ \A r \in 1..MaxGiven : r # claim => said'[r] = said[r]
    BY <1>2, <1>7, <2>3, <2>4
  <2>10. ASSUME NEW p \in Chairs, players[p].claim # 0, players[p].ready
         PROVE  said'[players[p].claim] = [id |-> P.id, by |-> takers'[players[p].claim][1]]
    <3>1. players[p].claim \in 1..MaxGiven
      BY <2>5, <2>10, LobbyConstants DEF ReadyOnes
    <3>2. CASE players[p].claim = claim
      <4>1. voice = [id |-> m.id, by |-> s[1]] /\ m.id = room.prep.id
        BY <1>7, <2>5, <2>10, <3>2 DEF voice
      <4> QED BY <1>2, <2>3, <2>6, <2>9, <3>2, <4>1
    <3>3. CASE players[p].claim # claim
      <4>1. SaidBy(players[p].claim, room.prep.id)
        BY <1>1, <2>5, <2>10, <3>3 DEF Sound, Confirmed
      <4> QED BY <1>2, <2>6, <2>9, <3>1, <3>3, <4>1 DEF SaidBy
    <3> QED BY <3>2, <3>3
  <2>11. Confirmed(salon.prep)'
    BY <2>6, <2>8, <2>10 DEF Confirmed, SaidBy
  <2>12. WellNamed(salon)'
    BY <1>1, <1>2, <2>8 DEF Sound, WellNamed
  <2>13. salon'.known \in Dealt' /\ \A p \in Chairs : salon'.prep.players[p].claim <= Len(takers')
    BY <1>1, <1>2, <2>5, <2>6, <2>8 DEF Sound, Dealt, Given
  <2> QED BY <1>1, <2>8, <2>9, <2>11, <2>12, <2>13 DEF Sound
<1> QED BY <1>4, <1>5, <1>6, <1>7

\* What is asked of a recovery leaves the rest of the room as it is.
LEMMA RequestRoom ==
    ASSUME RoomSound, NEW room \in Salons, room.claims = salon.claims,
           room.receipts = salon.receipts, room.known = salon.known, room.told = salon.told,
           room.prep = salon.prep,
           \/ salon' = room
           \/ salon' = [room EXCEPT !.recovery = NoRecovery]
           \/ salon' = [room EXCEPT !.recovery = NoRecovery, !.told = -1]
           \/ salon' = [room EXCEPT !.recovery.accepted = TRUE]
           \/ salon' = [room EXCEPT !.recovery.age = room.recovery.age + 1] /\ room.recovery.age < 2
           \/ salon' = [room EXCEPT !.recovery = NoRecovery,
                                    !.refused[room.recovery.port] = room.recovery.expected]
           \/ \E p \in 0..PADS : salon' = [room EXCEPT !.refused[p] = 0]
    PROVE  Keeping
<1>1. /\ room.recovery \in Demands /\ room.refused \in [0..PADS -> Logins \union 0..MaxGiven]
      /\ NoRecovery \in Demands /\ 0 \in Logins \union 0..MaxGiven
  BY SalonParts, NothingPrepared, LobbyConstants DEF Salons
<1>2. /\ [room.recovery EXCEPT !.accepted = TRUE] \in Demands
      /\ room.recovery.age < 2 => [room.recovery EXCEPT !.age = room.recovery.age + 1] \in Demands
  <2>1. [room.recovery EXCEPT !.accepted = TRUE] \in Demands
    BY <1>1 DEF Demands
  <2>2. ASSUME room.recovery.age < 2
        PROVE  [room.recovery EXCEPT !.age = room.recovery.age + 1] \in Demands
    <3> DEFINE next == room.recovery.age + 1
    <3>1. next \in 0..2
      BY <1>1, <2>2 DEF Demands
    <3> HIDE DEF next
    <3>2. [room.recovery EXCEPT !.age = next] \in Demands
      BY <1>1, <3>1 DEF Demands
    <3> QED BY <3>2 DEF next
  <2> QED BY <2>1, <2>2
<1>3. room.recovery.port \in 0..PADS /\ room.recovery.expected \in Logins \union 0..MaxGiven
  BY <1>1 DEF Demands
<1> DEFINE As(after) == /\ after \in Salons /\ after.claims = room.claims
                        /\ after.receipts = room.receipts /\ after.known = room.known
                        /\ after.told \in {room.told, -1} /\ after.prep = room.prep
<1>4. ASSUME NEW D \in Demands, salon' = [room EXCEPT !.recovery = D] PROVE As(salon')
  BY <1>4 DEF Salons
<1>5. ASSUME NEW R \in [0..PADS -> Logins \union 0..MaxGiven],
             \/ salon' = [room EXCEPT !.refused = R]
             \/ salon' = [room EXCEPT !.recovery = NoRecovery, !.refused = R]
      PROVE As(salon')
  BY <1>1, <1>5 DEF Salons
<1>6. ASSUME salon' = [room EXCEPT !.recovery = NoRecovery, !.told = -1] PROVE As(salon')
  <2>1. -1 \in -1..PADS
    BY LobbyConstants
  <2> QED BY <1>1, <1>6, <2>1 DEF Salons
<1>7. As(salon')
  <2>1. CASE salon' = [room EXCEPT !.recovery.accepted = TRUE]
    <3>1. salon' = [room EXCEPT !.recovery = [room.recovery EXCEPT !.accepted = TRUE]]
      BY <2>1, SalonParts
    <3> QED BY <1>2, <1>4, <3>1
  <2>2. CASE salon' = [room EXCEPT !.recovery.age = room.recovery.age + 1] /\ room.recovery.age < 2
    <3>1. salon' = [room EXCEPT !.recovery = [room.recovery EXCEPT !.age = room.recovery.age + 1]]
      BY <2>2, SalonParts
    <3> QED BY <1>2, <1>4, <2>2, <3>1
  <2>3. CASE salon' = [room EXCEPT !.recovery = NoRecovery,
                                   !.refused[room.recovery.port] = room.recovery.expected]
    <3> DEFINE R == [room.refused EXCEPT ![room.recovery.port] = room.recovery.expected]
    <3>1. R \in [0..PADS -> Logins \union 0..MaxGiven]
      BY <1>1, <1>3
    <3>2. salon' = [room EXCEPT !.recovery = NoRecovery, !.refused = R]
      BY <2>3, SalonParts
    <3> HIDE DEF R
    <3> QED BY <1>5, <3>1, <3>2
  <2>4. CASE \E p \in 0..PADS : salon' = [room EXCEPT !.refused[p] = 0]
    <3>1. PICK p \in 0..PADS : salon' = [room EXCEPT !.refused[p] = 0]
      BY <2>4
    <3> DEFINE R == [room.refused EXCEPT ![p] = 0]
    <3>2. R \in [0..PADS -> Logins \union 0..MaxGiven]
      BY <1>1
    <3>3. salon' = [room EXCEPT !.refused = R]
      BY <3>1, SalonParts
    <3> HIDE DEF R
    <3> QED BY <1>5, <3>2, <3>3
  <2>5. CASE salon' = room
    BY <2>5
  <2>6. CASE salon' = [room EXCEPT !.recovery = NoRecovery]
    BY <1>1, <1>4, <2>6
  <2> QED BY <1>6, <2>1, <2>2, <2>3, <2>4, <2>5, <2>6
<1> QED BY <1>7, KeepingAsBefore

\* Asking about the role while it is requested moves nobody.
LEMMA ConsultedType ==
    ASSUME RoomSound
    PROVE  /\ Consulted \in Folks /\ Consulted.present = people.present
           /\ owner(Consulted, Guests) \in Logins
<1>1. Consulted \in Folks /\ Consulted.present = people.present
  BY RoomFacts, OwnerType DEF Consulted
<1> QED BY <1>1, OwnerType

\* A recovery touches its request, and asks for the owner's seat to be told again.
LEMMA RecoversRoom ==
    ASSUME RoomSound, NEW t \in Tasks, recovers(t)
    PROVE  Keeping
<1> DEFINE s == task[t].sid
           room == Cleared
           request == room.recovery
           boss == owner(Consulted, Guests)
           theirs == {x \in Present : Login(x) = boss}
<1>1. s \in Sessions
  BY RoomFacts DEF recovers, Stands, Proper
<1>2. boss \in Logins /\ theirs \in SUBSET Sessions /\ 0 \in 0..PADS
  BY ConsultedType, RoomFacts, LobbyConstants
<1>3. /\ room \in Salons /\ room.claims = salon.claims /\ room.receipts = salon.receipts
      /\ room.known = salon.known /\ room.told = salon.told /\ room.prep = salon.prep
  BY RoomFacts, ClearedType
<1>4. \/ salon' = Requested(room, s, theirs, 0, boss)
      \/ salon' = room
      \/ salon' = [room EXCEPT !.recovery = NoRecovery]
      \/ salon' = [room EXCEPT !.recovery = NoRecovery, !.told = -1]
      \/ salon' = [room EXCEPT !.recovery.accepted = TRUE]
      \/ salon' = [room EXCEPT !.recovery = NoRecovery, !.refused[request.port] = request.expected]
  <2> HIDE DEF room, theirs
  <2> QED BY DEF recovers, room, theirs
<1>5. CASE salon' = Requested(room, s, theirs, 0, boss)
  <2> HIDE DEF room, s, theirs, boss
  <2>1. /\ salon' \in Salons /\ salon'.claims = room.claims /\ salon'.receipts = room.receipts
        /\ salon'.known = room.known /\ salon'.told = room.told /\ salon'.prep = room.prep
    BY <1>1, <1>2, <1>3, <1>5, RequestedType
  <2> QED BY <1>3, <2>1, KeepingAsBefore
<1>6. CASE salon' # Requested(room, s, theirs, 0, boss)
  <2> HIDE DEF room, theirs, boss
  <2> QED BY <1>3, <1>4, <1>6, RequestRoom
<1> QED BY <1>5, <1>6

\* A recovery of a seat makes of the room what the reading does, and its request.
LEMMA RecoverReadsRoom ==
    ASSUME RoomSound, NEW t \in Tasks, recover_reads(t)
    PROVE  Seeing(task[t].answer)
<1> DEFINE m == task[t].message
           s == task[t].sid
           seen == task[t].answer
           room == observe_seats(salon, seen)
           holder == room.claims[m.port]
           claim == SeatsOf(room)[m.port]
<1>1. task[t].pc = "seats" /\ task[t].op = "recover"
  BY DEF recover_reads, Answered, Stands
<1>2. /\ Sound(room) /\ room \in Salons
      /\ room.known = IF seen = Mute THEN salon.known ELSE seen
      /\ room.told = IF seen # Mute /\ Changes(salon, seen) THEN -1 ELSE salon.told
  BY <1>1, Observed
<1>3. s \in Sessions /\ (m.act = "begin" => m.port \in Chairs) /\ Len(takers) \in Nat
  BY <1>1, RoomFacts DEF Proper
<1> DEFINE As(after) == /\ after \in Salons /\ after.claims = room.claims
                        /\ after.receipts = room.receipts /\ after.known = room.known
                        /\ after.told = room.told /\ after.prep = room.prep
<1>4. \/ salon' = room
      \/ salon' = [room EXCEPT !.recovery = NoRecovery]
      \/ /\ m.act = "begin" /\ holder # NoSession
         /\ salon' = Requested(room, s, {holder}, m.port, claim)
  BY DEF recover_reads
<1> HIDE DEF room
<1>5. As(salon')
  <2>1. CASE salon' = room
    BY <1>2, <2>1
  <2>2. CASE salon' = [room EXCEPT !.recovery = NoRecovery]
    BY <1>2, <2>2, NothingPrepared DEF Salons
  <2>3. CASE /\ m.act = "begin" /\ holder # NoSession
             /\ salon' = Requested(room, s, {holder}, m.port, claim)
    <3>1. {holder} \in SUBSET Sessions
      BY <1>2, <1>3, <2>3, SalonParts DEF Named
    <3>2. claim \in Logins \union 0..MaxGiven
      BY <1>2, <1>3, <2>3, SalonParts DEF Tables, Chairs
    <3>3. m.port \in 0..PADS
      BY <1>3, <2>3, LobbyConstants DEF Chairs
    <3> HIDE DEF m, s, holder, claim
    <3> QED BY <1>2, <1>3, <2>3, <3>1, <3>2, <3>3, RequestedType
  <2> QED BY <1>4, <2>1, <2>2, <2>3
<1>6. Sound(salon')
  BY <1>2, <1>3, <1>5, SoundAsBefore
<1> QED BY <1>2, <1>5, <1>6 DEF Seeing

\* tell_owner notes the seat the worker accepted.
LEMMA TellOwnerRoom ==
    ASSUME RoomSound, NEW t \in Tasks, tell_owner(t)
    PROVE  /\ Sound(salon') /\ salon'.known = salon.known
           /\ salon'.told = IF task[t].answer = "ok" THEN task[t].view.seat ELSE salon.told
           /\ salon'.claims = salon.claims /\ salon'.prep = salon.prep
<1> DEFINE shown == task[t].view.seat
<1>1. task[t].pc = "owner" /\ salon' = IF task[t].answer = "ok" THEN [salon EXCEPT !.told = shown] ELSE salon
  BY DEF tell_owner, Answered, Stands
<1>2. shown \in -1..PADS
  <2>1. task[t].view \in Views
    BY <1>1, RoomFacts DEF Proper
  <2>2. task[t].view.seat \in 0..PADS
    BY <2>1 DEF Views
  <2> QED BY <2>2, LobbyConstants
<1> HIDE DEF shown
<1>3. CASE task[t].answer = "ok"
  <2>1. /\ salon' \in Salons /\ salon'.claims = salon.claims /\ salon'.receipts = salon.receipts
        /\ salon'.known = salon.known /\ salon'.told = shown /\ salon'.prep = salon.prep
    BY <1>1, <1>2, <1>3, RoomFacts DEF Salons
  <2> QED BY <1>3, <2>1, RoomFacts, SoundAsBefore DEF RoomSound, shown
<1>4. CASE task[t].answer # "ok"
  BY <1>1, <1>4 DEF RoomSound
<1> QED BY <1>3, <1>4

-----------------------------------------------------------------------------
(* What every step of a handler does, as far as the invariant is concerned. *)

\* Somebody is about to tell the room, it was just told, or nothing that is shown
\* has changed unknown to `unsaid`.
Showing ==
    \/ \E t \in Tasks : task'[t].pc \in {"broadcast", "owner"}
    \/ painted' = describe(salon', people') \/ unsaid'
    \/ /\ Rests \/ \E t, h : Passes(t, h) /\ task[t].pc \notin {"broadcast", "owner"}
       /\ painted' = painted
       /\ Untold \/ (unsaid' = unsaid /\ describe(salon', people') = describe(salon, people))

Steady == salon'.known = salon.known /\ salon'.told \in {salon.told, -1} /\ said' = said

RoomTyped ==
    /\ people' \in Folks /\ visits' \in [Guests -> 0..MaxVisits]
    /\ painted' \in Views /\ said' \in [1..MaxGiven -> [id : Nat, by : Guests \union {NoLogin}]]
    /\ unsaid' \in BOOLEAN

Handles ==
    /\ UNCHANGED <<workerVars, late>> /\ Sound(salon)' /\ RoomTyped /\ Showing
    /\ \/ Steady /\ (Rests \/ \E t, h : PassesOn(t, h) /\ task[t].pc \notin {"seats", "owner"})
       \/ said' = said /\ \E t, h : PassesOn(t, h) /\ task[t].pc = "seats" /\ Seeing(task[t].answer)
       \/ \E t \in Tasks : tell_owner(t)
       \/ \E t \in Tasks : prepares(t)

\* One handler goes on, the others stay.
LEMMA PassesTask ==
    ASSUME LineTypes, NEW t, NEW h, Passes(t, h)
    PROVE  t \in Tasks /\ task'[t] = h /\ \A u \in Tasks \ {t} : task'[u] = task[u]
BY DEF Passes, Moves, Sends, TakesAnswer, LineTypes, TaskTypes

\* A room sound by what was given and said stays so while neither changes.
LEMMA SoundLater ==
    ASSUME Sound(salon'), takers' = takers, said' = said
    PROVE  Sound(salon)'
BY DEF Sound, WellNamed, Confirmed, SaidBy, Dealt, Given

\* A handler with only to tell will show the room.
LEMMA TellsShows ==
    ASSUME LineTypes, NEW t, PassesOn(t, Teller(t)) \/ (PassesOn(t, Starting("tell", NoSession, "broadcast", NoMessage)))
    PROVE  Showing
<1>1. t \in Tasks /\ Starting("tell", NoSession, "broadcast", NoMessage).pc = "broadcast"
  BY NoTaskType DEF PassesOn, Passes, Starting, Handlers
<1>2. Teller(t).pc = "broadcast"
  BY <1>1, TellerType DEF LineTypes
<1>3. task'[t].pc = "broadcast"
  BY <1>1, <1>2, PassesTask DEF PassesOn
<1> QED BY <1>1, <1>3 DEF Showing

\* A handler that only moves.
LEMMA ApartHandles ==
    ASSUME RoomSound, Apart, UNCHANGED <<workerVars, visits, late, roomVars>>
    PROVE  Handles
<1>1. Sound(salon') /\ takers' = takers /\ said' = said
  BY DEF RoomSound, roomVars, workerVars
<1>2. Sound(salon)'
  BY <1>1, SoundLater
<1>3. Steady
  BY DEF Steady, roomVars
<1>4. RoomTyped
  BY DEF RoomTyped, RoomSound, LobbyTypes, RoomTypes, roomVars
<1>5. Showing
  BY DEF Showing, roomVars, Apart, PassesOn
<1> QED BY <1>2, <1>3, <1>4, <1>5 DEF Handles, Apart

\* One that leaves the known seats as they are, and what is shown to who tells it.
LEMMA KeepingHandles ==
    ASSUME RoomSound, Apart, Keeping, people' \in Folks,
           UNCHANGED <<workerVars, visits, late, painted, said>>,
           Untold \/ (unsaid' = unsaid /\ Showing)
    PROVE  Handles
<1>1. takers' = takers /\ said' = said
  BY DEF workerVars
<1>2. Sound(salon)' /\ Steady
  BY <1>1, SoundLater DEF Keeping, Steady
<1>3. unsaid' \in BOOLEAN
  BY DEF Untold, RoomSound, LobbyTypes, RoomTypes
<1>4. RoomTyped
  BY <1>3 DEF RoomTyped, RoomSound, LobbyTypes, RoomTypes
<1>5. Showing
  BY DEF Showing, Apart, PassesOn
<1> QED BY <1>2, <1>4, <1>5 DEF Handles, Apart

\* One that was answered a table.
LEMMA SeeingHandles ==
    ASSUME RoomSound, NEW t, NEW h, PassesOn(t, h), task[t].pc = "seats", Seeing(task[t].answer),
           people' \in Folks, UNCHANGED <<workerVars, visits, late, painted, said>>,
           Untold \/ (unsaid' = unsaid /\ Showing)
    PROVE  Handles
<1>1. takers' = takers /\ said' = said
  BY DEF workerVars
<1>2. Sound(salon)'
  BY <1>1, SoundLater DEF Seeing
<1>3. unsaid' \in BOOLEAN
  BY DEF Untold, RoomSound, LobbyTypes, RoomTypes
<1>4. RoomTyped
  BY <1>3 DEF RoomTyped, RoomSound, LobbyTypes, RoomTypes
<1>5. Showing
  BY DEF Showing, PassesOn
<1> QED BY <1>1, <1>2, <1>4, <1>5 DEF Handles

\* The steps that only move a handler.
LEMMA MovesHandles ==
    ASSUME RoomSound, LineInv,
           \/ \E t \in Tasks : synchronise(t) \/ enters(t) \/ close_orders(t)
           \/ \E g \in Here : \/ seat(g) \/ close_game(g)
                              \/ \E act \in {"begin", "ready", "unready", "cancel", "launch"} : prepare(g, act)
           \/ \E g \in Guests, p \in 0..PADS, act \in {"begin", "yes", "no", "cancel", "finish"} :
                recover(g, act, p)
    PROVE  Handles
<1>0. LineTypes /\ LobbyTypes
  BY RoomFacts DEF RoomSound
<1>1. ASSUME NEW t \in Tasks, synchronise(t) \/ enters(t) \/ close_orders(t) PROVE Handles
  <2>1. Apart
    BY <1>0, <1>1, SynchroniseSteps, EntersSteps, CloseOrdersSteps DEF Apart
  <2>2. UNCHANGED <<workerVars, visits, late, roomVars>>
    BY <1>1 DEF synchronise, enters, close_orders
  <2> QED BY <2>1, <2>2, ApartHandles
<1>2. ASSUME NEW g \in Here, seat(g) PROVE Handles
  <2>1. Apart
    BY <1>0, <1>2, SeatSteps DEF Apart, Stands
  <2>2. UNCHANGED <<workerVars, visits, late, roomVars>>
    BY <1>2 DEF seat
  <2> QED BY <2>1, <2>2, ApartHandles
<1>3. ASSUME NEW g \in Here, close_game(g) PROVE Handles
  <2>1. Apart
    BY <1>0, <1>3, CloseGameSteps
  <2>2. UNCHANGED <<workerVars, visits, late, roomVars>>
    BY <1>3 DEF close_game
  <2> QED BY <2>1, <2>2, ApartHandles
<1>4. ASSUME NEW g \in Here, NEW act \in {"begin", "ready", "unready", "cancel", "launch"}, prepare(g, act)
      PROVE  Handles
  <2>1. Apart
    BY <1>0, <1>4, PrepareSteps
  <2>2. UNCHANGED <<workerVars, visits, late, roomVars>>
    BY <1>4 DEF prepare
  <2> QED BY <2>1, <2>2, ApartHandles
<1>5. ASSUME NEW g \in Guests, NEW p \in 0..PADS, NEW act \in {"begin", "yes", "no", "cancel", "finish"},
             recover(g, act, p)
      PROVE  Handles
  <2>1. Apart
    BY <1>0, <1>5, RecoverSteps
  <2>2. UNCHANGED <<workerVars, visits, late, roomVars>>
    BY <1>5 DEF recover
  <2> QED BY <2>1, <2>2, ApartHandles
<1> QED BY <1>1, <1>2, <1>3, <1>4, <1>5

\* What changes the room, and says so itself or through `unsaid`.
LEMMA RestingHandles ==
    ASSUME RoomSound,
           \/ read_room \/ speaks_elsewhere \/ request_ages
           \/ \E p \in 0..PADS : refusal_lapses(p)
    PROVE  Handles
<1>0. Apart /\ UNCHANGED <<workerVars, visits, late, painted, said>>
  BY DEF read_room, speaks_elsewhere, request_ages, refusal_lapses, Apart, Rests
<1>1. salon \in Salons /\ people \in Folks
  BY RoomFacts
<1>2. CASE read_room
  <2>1. Keeping /\ people' \in Folks /\ Untold
    BY <1>1, <1>2, PreparedRoom, OwnerType DEF read_room
  <2> QED BY <1>0, <2>1, KeepingHandles
<1>3. CASE speaks_elsewhere
  <2>1. Keeping /\ people' \in Folks /\ Untold
    BY <1>1, <1>3, OwnerType DEF speaks_elsewhere, Keeping, RoomSound
  <2> QED BY <1>0, <2>1, KeepingHandles
<1>4. CASE request_ages \/ \E p \in 0..PADS : refusal_lapses(p)
  <2>1. Keeping
    <3>1. \/ salon' = [salon EXCEPT !.recovery.age = salon.recovery.age + 1] /\ salon.recovery.age < 2
          \/ \E p \in 0..PADS : salon' = [salon EXCEPT !.refused[p] = 0]
      BY <1>4 DEF request_ages, refusal_lapses
    <3> QED BY <1>1, <3>1, RequestRoom
  <2>2. people' = people /\ unsaid' = unsaid /\ painted' = painted
    BY <1>4 DEF request_ages, refusal_lapses
  <2>3. salon'.claims = salon.claims /\ salon'.prep = salon.prep
    <3>1. salon' = [salon EXCEPT !.recovery = salon'.recovery, !.refused = salon'.refused]
      BY <1>1, <1>4, SalonParts DEF request_ages, refusal_lapses, Salons
    <3> QED BY <1>1, <3>1 DEF Salons
  <2>4. describe(salon', people') = describe(salon, people)
    BY <2>2, <2>3 DEF describe, seat_of
  <2>5. Showing
    BY <1>0, <2>2, <2>4 DEF Showing, Apart, PassesOn
  <2> QED BY <1>0, <1>1, <2>1, <2>2, <2>5, KeepingHandles
<1> QED BY <1>2, <1>3, <1>4

\* The steps of follow_seats.
LEMMA FollowHandles ==
    ASSUME RoomSound, LineInv, follow_seats \/ follow_reads
    PROVE  Handles
<1>0. LineTypes /\ people \in Folks
  BY RoomFacts
<1>1. CASE follow_seats
  <2>1. Keeping /\ people' \in Folks /\ Untold
    BY <1>1, FollowSeatsRoom, ConsultedType DEF follow_seats
  <2>2. Apart /\ UNCHANGED <<workerVars, visits, late, painted, said>>
    BY <1>0, <1>1, FollowSeatsSteps DEF follow_seats, Apart, Stands
  <2> QED BY <2>1, <2>2, KeepingHandles
<1>2. CASE follow_reads
  <2> DEFINE seen == task[Follow].answer
  <2>1. Seeing(seen) /\ task[Follow].pc = "seats" /\ Follow \in Tasks
    BY <1>0, <1>2, FollowReadsRoom, FollowReadsSteps
  <2>2. UNCHANGED <<workerVars, visits, late, people, painted, said, unsaid>>
    BY <1>2 DEF follow_reads
  <2>3. CASE PassesOn(Follow, Teller(Follow))
    <3>1. Showing
      BY <1>0, <2>3, TellsShows
    <3> QED BY <1>0, <2>1, <2>2, <2>3, <3>1, SeeingHandles
  <2>4. CASE /\ seen = Mute \/ ~Changes(salon, seen)
             /\ PassesOn(Follow, NoTask)
    <3>1. salon' = observe_seats(salon, seen)
      BY <1>2 DEF follow_reads
    <3>2. salon \in Salons /\ seen \in Tables \union {Mute}
      BY <2>1, RoomFacts, Observed DEF Dealt
    <3>3. salon'.claims = salon.claims /\ salon'.prep = salon.prep
      BY <2>4, <3>1, <3>2, ObserveType
    <3>4. describe(salon', people') = describe(salon, people)
      BY <2>2, <3>3 DEF describe, seat_of
    <3>5. Showing
      BY <2>1, <2>2, <2>4, <3>4 DEF Showing, PassesOn
    <3> QED BY <1>0, <2>1, <2>2, <2>4, <3>5, SeeingHandles
  <2> QED BY <1>0, <1>2, <2>3, <2>4, FollowReadsSteps
<1> QED BY <1>1, <1>2

\* The first step of a broadcast.
LEMMA BroadcastHandles ==
    ASSUME RoomSound, LineInv, NEW t \in Tasks, broadcast(t)
    PROVE  Handles
<1> DEFINE view == describe(salon', people')
           h == [task[t] EXCEPT !.view = view, !.pc = "owner"]
<1>0. LobbyTypes /\ LineTypes /\ people \in Folks /\ salon \in Salons
  BY RoomFacts DEF RoomSound
<1>1. task[t].pc = "broadcast" /\ salon' = Prepared(salon) /\ people' = Designated(people, Here) /\ view \in Views
  BY <1>0, BroadcastSteps
<1>2. UNCHANGED <<workerVars, visits, late, said>>
  BY DEF broadcast
<1>3. Keeping /\ people' \in Folks
  BY <1>0, <1>1, PreparedRoom, OwnerType
<1>4. Sound(salon)' /\ Steady
  BY <1>2, <1>3, SoundLater DEF Keeping, Steady, workerVars
<1>5. \/ h.pc = "owner" /\ PassesOn(t, h) /\ UNCHANGED <<painted, unsaid>>
      \/ painted' = view /\ unsaid' = FALSE /\ PassesOn(t, NoTask)
  BY <1>0, BroadcastSteps DEF Paints
<1> HIDE DEF h, view
<1>6. RoomTyped
  BY <1>1, <1>2, <1>3, <1>5 DEF RoomTyped, RoomSound, LobbyTypes, RoomTypes
<1>7. Showing
  <2>1. ASSUME h.pc = "owner", PassesOn(t, h) PROVE Showing
    BY <1>0, <2>1, PassesTask DEF PassesOn, Showing
  <2> QED BY <1>5, <2>1 DEF Showing, view
<1>8. \E k : PassesOn(t, k)
  BY <1>5
<1> QED BY <1>1, <1>2, <1>4, <1>6, <1>7, <1>8 DEF Handles

\* The last step of a broadcast.
LEMMA TellOwnerHandles ==
    ASSUME RoomSound, LineInv, NEW t \in Tasks, tell_owner(t)
    PROVE  Handles
<1>1. UNCHANGED <<workerVars, visits, late, people, said>> /\ Paints(task[t].view, salon', people)
  BY DEF tell_owner
<1>2. task[t].view \in Views /\ people \in Folks
  <2>1. task[t].pc = "owner"
    BY DEF tell_owner, Answered, Stands
  <2> QED BY <2>1, RoomFacts DEF Proper
<1>3. Sound(salon)'
  BY <1>1, TellOwnerRoom, SoundLater DEF workerVars
<1>4. RoomTyped
  BY <1>1, <1>2 DEF RoomTyped, RoomSound, LobbyTypes, RoomTypes, Paints
<1>5. Showing
  BY <1>1 DEF Showing, Paints
<1> QED BY <1>1, <1>3, <1>4, <1>5 DEF Handles

\* What a page asks of a preparation.
LEMMA PreparesHandles ==
    ASSUME RoomSound, LineInv, NEW t \in Tasks, prepares(t)
    PROVE  Handles
<1>1. UNCHANGED <<workerVars, visits, late, painted>> /\ people' = Designated(people, Here) /\ Untold
  BY DEF prepares
<1>2. Sound(salon)' /\ said' \in [1..MaxGiven -> [id : Nat, by : Guests \union {NoLogin}]]
  BY PreparesRoom
<1>3. people' \in Folks /\ unsaid' \in BOOLEAN
  BY <1>1, RoomFacts, OwnerType DEF Untold
<1>4. RoomTyped
  BY <1>1, <1>2, <1>3 DEF RoomTyped, RoomSound, LobbyTypes, RoomTypes
<1>5. Showing
  <2>1. task[t].pc = "describe" /\ \E h : Passes(t, h)
    BY PreparesSteps DEF RoomSound
  <2> QED BY <1>1, <2>1 DEF Showing
<1> QED BY <1>1, <1>2, <1>4, <1>5 DEF Handles

\* A bounded set of numbers has a last one.
LEMMA LastOf ==
    ASSUME NEW n \in Nat, NEW S, S \subseteq 1..n, S # {}
    PROVE  Max(S) \in S
<1> DEFINE R == {n - x : x \in S}
<1>1. R \subseteq Nat /\ R # {} /\ S \subseteq Nat
  <2>1. \A x \in S : x \in Nat /\ n - x \in Nat
    OBVIOUS
  <2>2. PICK x \in S : TRUE
    OBVIOUS
  <2>3. n - x \in R
    OBVIOUS
  <2> QED BY <2>1, <2>3
<1>2. Min(R) \in R
  BY <1>1, FirstOf
<1>3. \A y \in R : Min(R) <= y
  <2>1. \E x \in R : \A y \in R : x <= y
    <3>1. Min(R) = CHOOSE x \in R : \A y \in R : x <= y
      BY DEF Min
    <3>2. PICK x \in R : \A y \in R : x <= y
      <4> DEFINE L == OpToRel(<, Nat)
      <4>1. IsWellFoundedOn(L, Nat)
        BY NatLessThanWellFounded
      <4>2. \A x, y \in Nat : x < y => <<x, y>> \in L
        BY DEF OpToRel
      <4> HIDE DEF L, R
      <4>3. PICK x \in R : \A y \in R : ~ (<<y, x>> \in L)
        BY <1>1, <4>1, WFMin
      <4>4. ASSUME NEW y \in R PROVE x <= y
        <5>1. x \in Nat /\ y \in Nat /\ ~(y < x)
          BY <1>1, <4>2, <4>3
        <5> QED BY <5>1
      <4> QED BY <4>4
    <3> HIDE DEF R
    <3> QED BY <3>2
  <2> HIDE DEF R
  <2> QED BY <2>1 DEF Min
<1>4. PICK x \in S : Min(R) = n - x
  BY <1>2
<1>5. ASSUME NEW y \in S PROVE y <= x
  <2>1. n - y \in R
    OBVIOUS
  <2>2. n - x <= n - y
    BY <1>3, <1>4, <2>1
  <2> QED BY <1>1, <2>2
<1>6. \E z \in S : \A y \in S : z >= y
  BY <1>1, <1>5
<1> QED BY <1>6 DEF Max

\* A page of another room shows nothing in this one.
LEMMA ConnectElsewhere ==
    ASSUME people \in Folks, NEW s \in Sessions, s[1] \notin Here, NEW room,
           people' = [people EXCEPT !.present = Append(people.present, s)]
    PROVE  describe(room, people') = describe(room, people)
<1> DEFINE n == Len(people.present)
<1>1. people.present \in Seq(Sessions) /\ n \in Nat /\ DOMAIN people.present = 1..n
  BY LenProperties DEF Folks
<1>2. /\ people'.owner = people.owner /\ people'.present = Append(people.present, s)
  BY DEF Folks
<1>3. /\ DOMAIN people'.present = 1..(n + 1) /\ people'.present[n + 1] = s
      /\ \A i \in 1..n : people'.present[i] = people.present[i]
  BY <1>1, <1>2, AppendProperties, LenProperties
<1> DEFINE there == Among(people, Here)
<1>4. Among(people', Here) = there /\ there \subseteq 1..n
  BY <1>1, <1>3 DEF Among
<1>5. \A i \in 1..n : LoginAt(people', i) = LoginAt(people, i)
  BY <1>3 DEF LoginAt
<1>6. owner(people', Here) = owner(people, Here)
  <2>1. there # {} => Min(there) \in 1..n
    BY <1>4, FirstOf
  <2> HIDE DEF there, n
  <2> QED BY <1>2, <1>4, <1>5, <2>1 DEF owner, there
<1> DEFINE seated(folk) == {i \in Among(folk, Here) :
                LoginAt(folk, i) = owner(folk, Here) /\ seat_of(room, folk.present[i]) # 0}
<1>7. seated(people') = seated(people) /\ seated(people) \subseteq 1..n
  <2>1. \A i \in there : people'.present[i] = people.present[i] /\ LoginAt(people', i) = LoginAt(people, i)
    BY <1>3, <1>4, <1>5
  <2> QED BY <1>4, <1>6, <2>1
<1>8. seated(people) # {} => people'.present[Max(seated(people))] = people.present[Max(seated(people))]
  <2> HIDE DEF seated, n
  <2> QED BY <1>1, <1>3, <1>7, LastOf
<1>9. \A folk : describe(room, folk) =
        [names |-> room.claims, prep |-> room.prep.id,
         seat |-> IF seated(folk) = {} THEN 0 ELSE seat_of(room, folk.present[Max(seated(folk))])]
  BY DEF describe
<1> HIDE DEF seated
<1> QED BY <1>7, <1>8, <1>9

\* A page that comes.
LEMMA ConnectHandles ==
    ASSUME RoomSound, LineInv, NEW g \in Guests, connect(g)
    PROVE  Handles
<1> DEFINE s == <<g, visits[g] + 1>>
<1>1. /\ visits[g] < MaxVisits /\ visits' = [visits EXCEPT ![g] = visits[g] + 1]
      /\ UNCHANGED <<workerVars, line, late, salon, painted, said, unsaid>>
      /\ visits \in [Guests -> 0..MaxVisits]
  BY DEF connect, RoomSound, LobbyTypes, RoomTypes
<1>2. visits' \in [Guests -> 0..MaxVisits] /\ visits'[g] = visits[g] + 1 /\ s \in Sessions
  <2>1. visits[g] + 1 \in 1..MaxVisits
    BY <1>1, LobbyConstants
  <2> QED BY <1>1, <2>1 DEF Sessions
<1>3. people \in Folks /\ people.present \in Seq(Sessions) /\ LineTypes
  BY RoomFacts
<1>4. people' = [people EXCEPT !.present = Append(people.present, s)]
  BY <1>2, <1>3 DEF connect, Folks
<1>5. people' \in Folks
  <2>1. Append(people.present, s) \in Seq(Sessions)
    BY <1>2, <1>3, AppendProperties
  <2> QED BY <1>3, <1>4, <2>1 DEF Folks
<1>6. Apart /\ Showing
  <2>1. CASE g \in Here
    <3>1. TellerBegins
      BY <1>3, <2>1, ConnectSteps
    <3> QED BY <1>3, <3>1, TellerApart, TellsShows DEF TellerBegins
  <2>2. CASE g \notin Here
    <3>1. Rests
      BY <1>3, <2>2, ConnectSteps
    <3>2. describe(salon, people') = describe(salon, people)
      BY <1>2, <1>3, <1>4, <2>2, ConnectElsewhere
    <3> QED BY <1>1, <3>1, <3>2 DEF Apart, Showing
  <2> QED BY <2>1, <2>2
<1>7. Sound(salon)' /\ Steady
  BY <1>1, SoundLater DEF RoomSound, Steady, workerVars
<1>8. RoomTyped
  BY <1>1, <1>2, <1>5 DEF RoomTyped, RoomSound, LobbyTypes, RoomTypes
<1> QED BY <1>1, <1>6, <1>7, <1>8 DEF Handles, Apart

\* A session that ends.
LEMMA DisconnectHandles ==
    ASSUME RoomSound, LineInv, NEW s \in Sessions, disconnect(s)
    PROVE  Handles
<1>1. /\ s \in Present /\ people' = left(s) /\ salon' = release(salon, {s})
      /\ UNCHANGED <<workerVars, line, visits, late, painted, said>>
  BY DEF disconnect
<1>2. people' \in Folks /\ Keeping /\ LineTypes
  BY <1>1, RoomFacts, LeftType, ReleaseRoom
<1>3. CASE s[1] \in Here
  <2>1. TellerBegins /\ unsaid' = unsaid
    BY <1>2, <1>3, DisconnectSteps DEF disconnect
  <2>2. Apart /\ Showing
    BY <1>2, <2>1, TellerApart, TellsShows DEF TellerBegins
  <2> QED BY <1>1, <1>2, <2>1, <2>2, KeepingHandles
<1>4. CASE s[1] \notin Here
  <2>1. Rests /\ Untold
    BY <1>2, <1>4, DisconnectSteps DEF disconnect
  <2> QED BY <1>1, <1>2, <2>1, KeepingHandles DEF Apart
<1> QED BY <1>3, <1>4

\* What the pages say of their seats.
LEMMA NamingHandles ==
    ASSUME RoomSound, LineInv,
           \/ \E g \in Here : seat_none(g) \/ \E p \in Chairs : agrees(g, p)
           \/ \E t \in Tasks : seat_reads(t)
    PROVE  Handles
<1>0. LineTypes /\ people \in Folks
  BY RoomFacts
<1>1. ASSUME NEW g \in Here, seat_none(g) \/ \E p \in Chairs : agrees(g, p) PROVE Handles
  <2>1. UNCHANGED <<workerVars, line, visits, late, people, painted, said, unsaid>>
    BY <1>1 DEF seat_none, agrees
  <2>2. Keeping
    BY <1>1, ReleaseRoom, AgreesRoom DEF seat_none
  <2>3. TellerBegins
    BY <1>0, <1>1, SeatNoneSteps, AgreesSteps
  <2>4. Apart /\ Showing
    BY <1>0, <2>3, TellerApart, TellsShows DEF TellerBegins
  <2> QED BY <1>0, <2>1, <2>2, <2>4, KeepingHandles
<1>2. ASSUME NEW t \in Tasks, seat_reads(t) PROVE Handles
  <2>1. UNCHANGED <<workerVars, visits, late, people, painted, said, unsaid>>
    BY <1>2 DEF seat_reads
  <2>2. task[t].pc = "seats" /\ PassesOn(t, Teller(t)) /\ Seeing(task[t].answer)
    BY <1>0, <1>2, SeatReadsSteps, SeatReadsRoom
  <2>3. Showing
    BY <1>0, <2>2, TellsShows
  <2> QED BY <1>0, <2>1, <2>2, <2>3, SeeingHandles
<1> QED BY <1>1, <1>2

\* The tables that are read for a preparation, a close and a recovery.
LEMMA ReadsHandles ==
    ASSUME RoomSound, LineInv, NEW t \in Tasks,
           prepare_reads(t) \/ close_reads(t) \/ recover_reads(t)
    PROVE  Handles
<1>0. LineTypes /\ people \in Folks /\ LobbyTypes
  BY RoomFacts DEF RoomSound
<1>1. UNCHANGED <<workerVars, visits, late, painted, said>> /\ Untold
  BY DEF prepare_reads, close_reads, recover_reads
<1>2. people' \in Folks
  BY <1>0, OwnerType DEF prepare_reads, close_reads, recover_reads
<1>3. Seeing(task[t].answer)
  BY PrepareReadsRoom, CloseReadsRoom, RecoverReadsRoom
<1>4. task[t].pc = "seats" /\ \E h : PassesOn(t, h)
  BY <1>0, PrepareReadsSteps, CloseReadsSteps, RecoverReadsSteps
<1> QED BY <1>1, <1>2, <1>3, <1>4, SeeingHandles

\* A preparation begins, or ends for the order that was taken.
LEMMA PreparationHandles ==
    ASSUME RoomSound, LineInv, NEW t \in Tasks, prepare_begins(t) \/ order_taken(t)
    PROVE  Handles
<1>0. LineTypes /\ people \in Folks
  BY RoomFacts
<1>1. UNCHANGED <<workerVars, visits, late, people, painted, said, unsaid>>
  BY DEF prepare_begins, order_taken
<1>2. Keeping
  BY PrepareBeginsRoom, OrderTakenRoom
<1>3. /\ task[t].pc \in {"decides", "launch", "stop"}
      /\ PassesOn(t, Teller(t)) \/ (UNCHANGED salon /\ PassesOn(t, NoTask))
  BY <1>0, PrepareBeginsSteps, OrderTakenSteps
<1>4. Apart
  BY <1>3 DEF Apart
<1>5. Showing
  <2>1. CASE PassesOn(t, Teller(t))
    BY <1>0, <2>1, TellsShows
  <2>2. CASE UNCHANGED salon
    BY <1>1, <1>4, <2>2 DEF Showing, Apart, PassesOn
  <2> QED BY <1>3, <2>1, <2>2
<1> QED BY <1>0, <1>1, <1>2, <1>4, <1>5, KeepingHandles

\* What a page asks of a recovery.
LEMMA RecoversHandles ==
    ASSUME RoomSound, LineInv, NEW t \in Tasks, recovers(t)
    PROVE  Handles
<1>0. LineTypes /\ people \in Folks
  BY RoomFacts
<1>1. UNCHANGED <<workerVars, visits, late, painted, said>> /\ Untold
  BY DEF recovers
<1>2. task[t].pc = "enter" /\ \E h : PassesOn(t, h)
  BY <1>0, RecoversSteps
<1>3. Keeping
  BY RecoversRoom
<1>4. people' \in Folks
  <2>1. Consulted \in Folks /\ Designated(people, Guests) \in Folks
    BY <1>0, ConsultedType, OwnerType
  <2>2. [people EXCEPT !.owner = Login(task[t].sid)] \in Folks
    <3>1. task[t].sid \in Sessions
      BY <1>2, RoomFacts DEF recovers, Proper
    <3>2. Login(task[t].sid) \in Logins
      BY <3>1, LobbyConstants
    <3> HIDE DEF Login
    <3> QED BY <1>0, <3>2 DEF Folks
  <2> QED BY <2>1, <2>2 DEF recovers
<1>5. Apart
  BY <1>2 DEF Apart
<1> QED BY <1>1, <1>3, <1>4, <1>5, KeepingHandles

-----------------------------------------------------------------------------
(* The invariant, after a step of a handler. *)

\* A step of a handler moves one of them at most, and leaves the worker alone.
LEMMA HandlesPasses ==
    ASSUME RoomSound, LineInv, Handles
    PROVE  /\ Rests \/ \E t, h : Passes(t, h)
           /\ takers' = takers /\ late' = late /\ table' = table /\ obeyed' = obeyed
<1>1. /\ UNCHANGED <<workerVars, late>> /\ LineTypes /\ LobbyTypes
      /\ \/ Rests \/ \E t, h : PassesOn(t, h)
         \/ \E t \in Tasks : tell_owner(t) \/ prepares(t)
  BY RoomFacts DEF Handles, RoomSound
<1>2. Rests \/ \E t, h : Passes(t, h)
  BY <1>1, TellOwnerSteps, PreparesSteps DEF PassesOn
<1> QED BY <1>1, <1>2 DEF workerVars

\* The types, the line and the names after a step of a handler.
LEMMA HandlesTypes ==
    ASSUME RoomSound, LineInv, Handles
    PROVE  LobbyTypes' /\ LineInv' /\ Sound(salon)'
<1>1. LineTypes' /\ LineInv'
  BY RoomFacts, HandlesPasses, PassesKeeps, RestsKeeps
<1>2. WorkerTypes'
  BY DEF WorkerTypes, RoomSound, LobbyTypes, Handles, workerVars, Given
<1>3. salon' \in Salons /\ ReadTypes' /\ Sound(salon)'
  BY DEF Handles, Sound, ReadTypes
<1>4. RoomTypes'
  BY <1>3 DEF Handles, RoomTyped, RoomTypes, RoomSound, LobbyTypes
<1> QED BY <1>1, <1>2, <1>3, <1>4 DEF LobbyTypes, LineTypes

\* What is told: who was to tell the room still is, or it is told.
LEMMA HandlesTold ==
    ASSUME RoomSound, ToldInv, Handles
    PROVE  ToldInv'
<1>1. LineTypes /\ Showing
  BY RoomFacts DEF Handles
<1>2. CASE \E t \in Tasks : task'[t].pc \in {"broadcast", "owner"}
  BY <1>2 DEF ToldInv, Telling
<1>3. CASE painted' = describe(salon', people') \/ unsaid'
  BY <1>3 DEF ToldInv
<1>4. CASE /\ Rests \/ \E t, h : Passes(t, h) /\ task[t].pc \notin {"broadcast", "owner"}
           /\ painted' = painted
           /\ Untold \/ (unsaid' = unsaid /\ describe(salon', people') = describe(salon, people))
  <2>1. ASSUME NEW u \in Tasks, Telling(u) PROVE Telling(u)'
    <3>1. CASE Rests
      BY <2>1, <3>1 DEF Rests, Telling
    <3>2. ASSUME NEW t, NEW h, Passes(t, h), task[t].pc \notin {"broadcast", "owner"}
          PROVE  Telling(u)'
      BY <1>1, <2>1, <3>2, PassesTask DEF Telling
    <3> QED BY <1>4, <3>1, <3>2
  <2>2. CASE \E u \in Tasks : Telling(u)
    BY <2>1, <2>2 DEF ToldInv
  <2>3. CASE unsaid
    BY <1>4, <2>3 DEF ToldInv, Untold
  <2>4. CASE painted = describe(salon, people)
    BY <1>4, <2>4 DEF ToldInv, Untold
  <2> QED BY <2>2, <2>3, <2>4 DEF ToldInv
<1> QED BY <1>1, <1>2, <1>3, <1>4 DEF Showing

\* The lock of the preparation stays with one handler.
LEMMA LockKeeps ==
    ASSUME LineTypes, OneLock, Rests \/ \E t, h : Passes(t, h)
    PROVE  OneLock'
<1>1. CASE Rests
  BY <1>1 DEF Rests, OneLock, Locks
<1>2. ASSUME NEW t, NEW h, Passes(t, h)
      PROVE  OneLock'
  <2>1. t \in Tasks /\ task'[t] = h /\ \A u \in Tasks \ {t} : task'[u] = task[u]
    BY <1>2, PassesTask
  <2>2. ~Preparing => \A u \in Tasks : ~Locks(task[u])
    BY DEF Preparing, Inside, Locks, LockPlaces
  <2>3. Locks(h) => Locks(task[t]) \/ ~Preparing
    BY <1>2 DEF Passes
  <2>4. \A u, v \in Tasks : Locks(task'[u]) /\ Locks(task'[v]) => u = v
    BY <2>1, <2>2, <2>3 DEF OneLock
  <2> QED BY <2>4 DEF OneLock, Locks
<1> QED BY <1>1, <1>2

\* An order of launch that is on its way stays what it was, when what was said does.
LEMMA LaunchesKeep ==
    ASSUME LineTypes, LineInv, Launches, takers' = takers, said' = said,
           Rests \/ \E t, h : PassesOn(t, h)
    PROVE  Launches'
<1>1. /\ Len(line) \in Nat /\ DOMAIN line = 1..Len(line)
      /\ \A i \in DOMAIN line : line[i].by \in Tasks => line[i].what = task[line[i].by].pc
  BY LineParts DEF LineTypes, LineInv, Awaited
<1>2. CASE Rests
  BY <1>2 DEF Rests, Launches, SpokenFor, SaidBy
<1>3. ASSUME NEW t, NEW h, PassesOn(t, h)
      PROVE  Launches'
  <2>1. t \in Tasks /\ task'[t] = h /\ (\A u \in Tasks \ {t} : task'[u] = task[u]) /\ h.pc # "launch"
    BY <1>3, PassesTask DEF PassesOn
  <2> DEFINE Kept(e) == e.by \in Tasks /\ e.what = "launch" =>
                          SpokenFor(e.about, task'[e.by].message.id)
  <2>2. ASSUME NEW i \in DOMAIN line, line[i].by # t PROVE Kept(line[i])
    BY <2>1, <2>2 DEF Launches
  <2>3. \A i \in DOMAIN line' : Kept(line'[i])
    <3>1. CASE Moves(t, h)
      <4>1. line' = line /\ \A i \in DOMAIN line : line[i].by # t
        BY <2>1, <3>1, NothingAwaited DEF Moves, LineTypes
      <4> HIDE DEF Kept
      <4> QED BY <2>2, <4>1
    <3>2. ASSUME NEW about, Sends(t, h, about) PROVE \A i \in DOMAIN line' : Kept(line'[i])
      <4> DEFINE e == [by |-> t, what |-> h.pc, about |-> about, done |-> FALSE]
      <4>1. line' = Append(line, e) /\ \A i \in DOMAIN line : line[i].by # t
        BY <2>1, <3>2, NothingAwaited DEF Sends, LineTypes
      <4>2. e.what # "launch"
        BY <2>1
      <4> HIDE DEF e
      <4>3. /\ DOMAIN line' = 1..(Len(line) + 1) /\ line'[Len(line) + 1] = e
            /\ \A i \in DOMAIN line : line'[i] = line[i]
        BY <4>1, <1>1, AppendProperties, LenProperties DEF LineTypes, TaskTypes
      <4>4. Kept(e)
        BY <4>2
      <4> HIDE DEF Kept
      <4> QED BY <1>1, <2>2, <4>1, <4>3, <4>4
    <3>3. CASE TakesAnswer(t, h)
      <4>1. \/ line' = line /\ \A i \in DOMAIN line : line[i].by # t
            \/ /\ \A i \in DOMAIN line' : i + 1 \in DOMAIN line /\ line'[i] = line[i + 1]
               /\ \A i \in DOMAIN line' : line'[i].by # t
        BY <2>1, <3>3, TakesLine
      <4>2. \A i \in DOMAIN line' : \E j \in DOMAIN line : line'[i] = line[j] /\ line[j].by # t
        BY <4>1
      <4> HIDE DEF Kept
      <4> QED BY <2>2, <4>2
    <3> HIDE DEF Kept
    <3> QED BY <1>3, <3>1, <3>2, <3>3 DEF PassesOn, Passes
  <2> QED BY <2>3 DEF Launches, SpokenFor, SaidBy
<1> QED BY <1>2, <1>3

\* The handler that prepares sends the launch of those who are ready, and no other
\* launch is on its way.
LEMMA PreparesLaunches ==
    ASSUME RoomSound, LineInv, LaunchInv, NEW t \in Tasks, prepares(t)
    PROVE  Launches'
<1> DEFINE room == Prepared(salon)
<1>0. LineTypes /\ LobbyTypes /\ Len(takers) \in Nat /\ Len(line) \in Nat /\ DOMAIN line = 1..Len(line)
  BY RoomFacts, LineParts DEF RoomSound, LineTypes
<1>1. PICK h : /\ task[t].pc = "describe" /\ task[t].op = "prepare" /\ Passes(t, h)
               /\ h.pc = "launch" =>
                    /\ Sends(t, h, SeatsOf(room)) /\ h.message = task[t].message
                    /\ room.prep.id # 0 /\ h.message.id = room.prep.id
                    /\ EveryoneReady(room.prep) /\ salon' = room /\ said' = said
  BY <1>0, PreparesSteps
<1>2. \A i \in DOMAIN line : line[i].by \in Tasks => line[i].what # "launch"
  <2> SUFFICES ASSUME NEW i \in DOMAIN line, line[i].by \in Tasks, line[i].what = "launch"
               PROVE  FALSE
    OBVIOUS
  <2>1. task[line[i].by].pc = "launch"
    BY DEF LineInv, Awaited
  <2>2. task[line[i].by].op = "prepare"
    BY <1>0, <2>1 DEF LineTypes, HandlerTypes, Proper
  <2>3. Locks(task[line[i].by]) /\ Locks(task[t])
    BY <1>1, <2>1, <2>2 DEF Locks, LockPlaces
  <2> QED BY <1>1, <2>1, <2>3 DEF LaunchInv, OneLock
<1>3. takers' = takers
  BY DEF prepares, workerVars
<1>4. task'[t] = h
  BY <1>0, <1>1, PassesTask
<1>5. task[t].pc \notin Asked
  BY <1>1 DEF Asked
<1> HIDE DEF room
<1>6. CASE Moves(t, h)
  BY <1>2, <1>6 DEF Launches, Moves
<1>7. ASSUME NEW about, Sends(t, h, about) PROVE Launches'
  <2> DEFINE e == [by |-> t, what |-> h.pc, about |-> about, done |-> FALSE]
  <2>1. line' = Append(line, e)
    BY <1>7 DEF Sends
  <2>2. e.by = t /\ e.what = h.pc /\ e.about = about
    OBVIOUS
  <2> HIDE DEF e
  <2>3. /\ DOMAIN line' = 1..(Len(line) + 1) /\ line'[Len(line) + 1] = e
        /\ \A i \in DOMAIN line : line'[i] = line[i]
    BY <1>0, <2>1, AppendProperties, LenProperties DEF LineTypes, TaskTypes
  <2>4. ASSUME h.pc = "launch" PROVE SpokenFor(about, h.message.id) /\ said' = said
    <3>1. about = SeatsOf(room)
      <4>1. Sends(t, h, SeatsOf(room))
        BY <1>1, <2>4
      <4> DEFINE f == [by |-> t, what |-> h.pc, about |-> SeatsOf(room), done |-> FALSE]
      <4>2. line' = Append(line, f)
        BY <4>1 DEF Sends
      <4>3. f.about = SeatsOf(room)
        OBVIOUS
      <4> HIDE DEF f
      <4>4. line'[Len(line) + 1] = f
        BY <1>0, <4>2, AppendProperties DEF LineTypes, TaskTypes
      <4> QED BY <2>2, <2>3, <4>3, <4>4
    <3>2. /\ \A p \in Chairs : room.prep.players[p].claim = SeatsOf(room)[p]
          /\ Confirmed(room.prep)
      BY <1>0, <1>1, <2>4, SoundPrepared DEF room, RoomSound, Sound
    <3>3. ASSUME NEW p \in Chairs, about[p] # 0 PROVE SaidBy(about[p], h.message.id)
      <4>1. room.prep.players[p].claim = about[p] /\ room.prep.players[p].ready
        BY <1>1, <2>4, <3>1, <3>2, <3>3 DEF EveryoneReady
      <4> QED BY <1>1, <2>4, <3>2, <3>3, <4>1 DEF Confirmed
    <3>4. said' = said
      BY <1>1, <2>4
    <3> QED BY <3>3, <3>4 DEF SpokenFor
  <2>5. ASSUME NEW i \in DOMAIN line', line'[i].by \in Tasks, line'[i].what = "launch"
        PROVE  SpokenFor(line'[i].about, task'[line'[i].by].message.id) /\ said' = said
    <3>1. i = Len(line) + 1
      BY <1>0, <1>2, <2>3, <2>5
    <3> QED BY <1>4, <2>2, <2>3, <2>4, <2>5, <3>1
  <2> QED BY <1>3, <2>5 DEF Launches, SpokenFor, SaidBy
<1>8. ~TakesAnswer(t, h)
  BY <1>5 DEF TakesAnswer
<1> QED BY <1>1, <1>6, <1>7, <1>8 DEF Passes

\* The lock and the launches on their way after a step of a handler.
LEMMA HandlesLaunch ==
    ASSUME RoomSound, LineInv, LaunchInv, Handles
    PROVE  LaunchInv'
<1>0. LineTypes
  BY RoomFacts
<1>1. OneLock'
  BY <1>0, HandlesPasses, LockKeeps DEF LaunchInv
<1>2. Confirmed(salon.prep)'
  BY DEF Handles, Sound
<1>3. Launches'
  <2>1. ASSUME NEW t \in Tasks, prepares(t) PROVE Launches'
    BY <2>1, PreparesLaunches
  <2>2. ASSUME NEW t \in Tasks, tell_owner(t) PROVE Launches'
    <3>1. PassesOn(t, NoTask) /\ said' = said /\ takers' = takers
      BY <1>0, <2>2, TellOwnerSteps DEF tell_owner, workerVars
    <3> QED BY <1>0, <3>1, LaunchesKeep DEF LaunchInv
  <2>3. ASSUME said' = said, Rests \/ \E t, h : PassesOn(t, h) PROVE Launches'
    BY <1>0, <2>3, HandlesPasses, LaunchesKeep DEF LaunchInv
  <2> QED BY <2>1, <2>2, <2>3 DEF Handles, Steady
<1> QED BY <1>1, <1>2, <1>3 DEF LaunchInv

-----------------------------------------------------------------------------
(* What the worker obeys, after a step of a handler. *)

\* The answers that wait are the same.
LEMMA TellWaits ==
    ASSUME \A i \in DOMAIN line : i \in DOMAIN line' /\ line'[i] = line[i],
           \A i \in DOMAIN line' : i \notin DOMAIN line => ~line'[i].done,
           \A i \in DOMAIN line : line[i].done => task'[line[i].by].answer = task[line[i].by].answer,
           table' = table, obeyed' = obeyed, salon'.known = salon.known,
           salon'.told \in {salon.told, -1}, ObeysLast \/ StartedAgain
    PROVE  ObeysLast' \/ StartedAgain'
<1>1. \A i \in DOMAIN line' : line'[i].done /\ line'[i].what = "owner" <=> i \in DOMAIN line /\ Said(i)
  BY DEF Said
<1>2. CASE salon.told \in {-1, obeyed} /\ \A i \in DOMAIN line : ~Said(i)
  <2>1. ObeysLast'
    BY <1>1, <1>2 DEF ObeysLast, Said
  <2> QED BY <2>1
<1>3. CASE \E i \in DOMAIN line : Said(i) /\ line[i].about = obeyed
                                  /\ \A j \in DOMAIN line : Said(j) => j <= i
  <2>1. PICK i \in DOMAIN line : Said(i) /\ line[i].about = obeyed
                                 /\ \A j \in DOMAIN line : Said(j) => j <= i
    BY <1>3
  <2>2. /\ i \in DOMAIN line' /\ line'[i].done /\ line'[i].what = "owner" /\ line'[i].about = obeyed'
        /\ \A j \in DOMAIN line' : line'[j].done /\ line'[j].what = "owner" => j <= i
    BY <1>1, <2>1 DEF Said
  <2>3. ObeysLast'
    BY <2>2 DEF ObeysLast, Said
  <2> QED BY <2>3
<1>4. CASE StartedAgain
  <2>1. obeyed' = 0 /\ Past(salon.known)'
    BY <1>4 DEF StartedAgain, Past
  <2>2. ASSUME NEW i \in DOMAIN line', NEW j \in DOMAIN line', line'[i].done, line'[i].what = "owner",
               j < i, line'[j].done, line'[j].what = "seats"
        PROVE  Past(task[line[j].by].answer) /\ line'[j].by = line[j].by
               /\ task'[line[j].by].answer = task[line[j].by].answer
    <3>1. i \in DOMAIN line /\ j \in DOMAIN line /\ line[i] = line'[i] /\ line[j] = line'[j]
      BY <2>2
    <3> QED BY <1>4, <2>2, <3>1 DEF StartedAgain, Said
  <2>3. StartedAgain'
    BY <2>1, <2>2 DEF StartedAgain, Said, Past
  <2> QED BY <2>3
<1> QED BY <1>2, <1>3, <1>4 DEF ObeysLast

\* The first answer is taken, and it is not of one that said who decides, or read the
\* seats.
LEMMA TellShifts ==
    ASSUME Len(line) \in Nat, DOMAIN line = 1..Len(line), 1 \in DOMAIN line,
           DOMAIN line' = 1..(Len(line) - 1),
           \A i \in DOMAIN line' : i + 1 \in DOMAIN line /\ line'[i] = line[i + 1],
           \A i \in DOMAIN line' : line'[i].done => task'[line'[i].by].answer = task[line'[i].by].answer,
           table' = table, obeyed' = obeyed,
           \/ /\ salon'.told \in {salon.told, -1} /\ ~Said(1)
              /\ ObeysLast
           \/ /\ salon'.told = line[1].about /\ Said(1)
              /\ ObeysLast
           \/ /\ Past(salon'.known)
              /\ StartedAgain
           \/ /\ salon'.told = -1 /\ \A i \in DOMAIN line : ~Said(i)
    PROVE  ObeysLast' \/ StartedAgain'
<1> DEFINE Says(i) == line'[i].done /\ line'[i].what = "owner"
<1>1. \A i \in DOMAIN line' : Says(i) <=> Said(i + 1)
  BY DEF Said
<1>2. \A i \in DOMAIN line : i # 1 => i - 1 \in DOMAIN line' /\ (i - 1) + 1 = i
  OBVIOUS
<1>3. ASSUME salon'.told \in {-1, obeyed}, \A i \in DOMAIN line' : ~Says(i) PROVE ObeysLast'
  BY <1>3 DEF ObeysLast, Said
<1>4. ASSUME NEW i \in DOMAIN line, i # 1, Said(i), line[i].about = obeyed,
             \A j \in DOMAIN line : Said(j) => j <= i
      PROVE  ObeysLast'
  <2>1. i - 1 \in DOMAIN line' /\ (i - 1) + 1 = i
    BY <1>2, <1>4
  <2>2. line'[i - 1] = line[i]
    BY <2>1
  <2>3. \A j \in DOMAIN line' : Says(j) => j + 1 <= i
    BY <1>1, <1>4
  <2>4. \A j \in DOMAIN line' : Says(j) => j <= i - 1
    BY <2>1, <2>3
  <2>5. Says(i - 1) /\ line'[i - 1].about = obeyed'
    BY <1>4, <2>2 DEF Said
  <2> QED BY <2>1, <2>4, <2>5 DEF ObeysLast, Said
<1>5. CASE ObeysLast /\ ((salon'.told \in {salon.told, -1} /\ ~Said(1))
                         \/ (salon'.told = line[1].about /\ Said(1)))
  <2>1. CASE salon.told \in {-1, obeyed} /\ \A i \in DOMAIN line : ~Said(i)
    BY <1>1, <1>3, <1>5, <2>1
  <2>2. ASSUME NEW i \in DOMAIN line, Said(i), line[i].about = obeyed,
               \A j \in DOMAIN line : Said(j) => j <= i
        PROVE  ObeysLast'
    <3>1. CASE i # 1
      BY <1>4, <2>2, <3>1
    <3>2. CASE i = 1
      <4>1. salon'.told = obeyed
        BY <1>5, <2>2, <3>2
      <4>2. \A j \in DOMAIN line' : ~Says(j)
        BY <1>1, <2>2, <3>2
      <4> QED BY <1>3, <4>1, <4>2
    <3> QED BY <3>1, <3>2
  <2> QED BY <1>5, <2>1, <2>2 DEF ObeysLast
<1>6. CASE Past(salon'.known) /\ StartedAgain
  <2>1. obeyed' = 0
    BY <1>6 DEF StartedAgain
  <2>2. ASSUME NEW i \in DOMAIN line', NEW j \in DOMAIN line', Says(i),
               j < i, line'[j].done, line'[j].what = "seats"
        PROVE  Past(task'[line'[j].by].answer)
    <3>1. /\ Said(i + 1) /\ i + 1 \in DOMAIN line /\ j + 1 \in DOMAIN line /\ j + 1 < i + 1
          /\ line[j + 1].done /\ line[j + 1].what = "seats" /\ line[j + 1] = line'[j]
      BY <1>1, <2>2
    <3>2. Past(task[line[j + 1].by].answer)
      BY <1>6, <3>1 DEF StartedAgain
    <3> QED BY <2>2, <3>1, <3>2
  <2>3. StartedAgain'
    BY <1>6, <2>1, <2>2 DEF StartedAgain, Said, Past
  <2> QED BY <2>3
<1>7. CASE salon'.told = -1 /\ \A i \in DOMAIN line : ~Said(i)
  BY <1>1, <1>3, <1>7
<1> QED BY <1>5, <1>6, <1>7

\* A handler that takes no answer.
LEMMA TellStays ==
    ASSUME LineTypes, LineInv,
           Rests \/ \E t \in Tasks : \E h : Moves(t, h) \/ \E about : Sends(t, h, about),
           table' = table, obeyed' = obeyed, salon'.known = salon.known,
           salon'.told \in {salon.told, -1}, ObeysLast \/ StartedAgain
    PROVE  ObeysLast' \/ StartedAgain'
<1>0. Len(line) \in Nat /\ DOMAIN line = 1..Len(line) /\ task \in [Tasks -> Handlers] /\ line \in Seq(Entries)
  BY LineParts DEF LineTypes, TaskTypes
<1>1. CASE Rests
  BY <1>1, TellWaits DEF Rests
<1>2. ASSUME NEW t \in Tasks, NEW h, Moves(t, h) PROVE ObeysLast' \/ StartedAgain'
  <2>1. line' = line /\ \A i \in DOMAIN line : line[i].by # t
    BY <1>2, NothingAwaited DEF Moves, LineTypes
  <2>2. \A i \in DOMAIN line : line[i].done => task'[line[i].by].answer = task[line[i].by].answer
    BY <1>0, <1>2, <2>1 DEF Moves, LineInv
  <2> QED BY <2>1, <2>2, TellWaits
<1>3. ASSUME NEW t \in Tasks, NEW h, NEW about, Sends(t, h, about) PROVE ObeysLast' \/ StartedAgain'
  <2> DEFINE e == [by |-> t, what |-> h.pc, about |-> about, done |-> FALSE]
  <2>1. line' = Append(line, e) /\ \A i \in DOMAIN line : line[i].by # t
    BY <1>3, NothingAwaited DEF Sends, LineTypes
  <2>2. ~e.done
    OBVIOUS
  <2> HIDE DEF e
  <2>3. /\ DOMAIN line' = 1..(Len(line) + 1) /\ line'[Len(line) + 1] = e
        /\ \A i \in DOMAIN line : line'[i] = line[i]
    BY <1>0, <2>1, AppendProperties, LenProperties
  <2>4. \A i \in DOMAIN line : line[i].done => task'[line[i].by].answer = task[line[i].by].answer
    BY <1>0, <1>3, <2>1 DEF Sends, LineInv
  <2>5. \A i \in DOMAIN line' : i \notin DOMAIN line => i = Len(line) + 1
    BY <1>0, <2>3
  <2>6. \A i \in DOMAIN line : i \in DOMAIN line' /\ line'[i] = line[i]
    BY <1>0, <2>3
  <2>7. \A i \in DOMAIN line' : i \notin DOMAIN line => ~line'[i].done
    BY <2>2, <2>3, <2>5
  <2> QED BY <2>4, <2>6, <2>7, TellWaits
<1> QED BY <1>1, <1>2, <1>3

\* A handler that takes its answer, if there is one: a table, that it applies, the
\* assent of the worker to what it said of the owner, or another.
LEMMA TellTakes ==
    ASSUME LineTypes, LineInv, NEW t \in Tasks, NEW h, TakesAnswer(t, h),
           table' = table, obeyed' = obeyed, ObeysLast \/ StartedAgain,
           \/ /\ task[t].pc \notin {"seats", "owner"}
              /\ salon'.known = salon.known /\ salon'.told \in {salon.told, -1}
           \/ /\ task[t].pc = "seats" /\ Seeing(task[t].answer)
           \/ /\ task[t].pc = "owner" /\ salon'.known = salon.known
              /\ salon'.told = IF task[t].answer = "ok" THEN task[t].view.seat ELSE salon.told
    PROVE  ObeysLast' \/ StartedAgain'
<1>0. Len(line) \in Nat /\ DOMAIN line = 1..Len(line) /\ task \in [Tasks -> Handlers]
  BY LineParts DEF LineTypes, TaskTypes
<1>1. \A u \in Tasks \ {t} : task'[u] = task[u]
  BY <1>0 DEF TakesAnswer
<1>2. CASE /\ line' = line /\ task[t].answer = Mute
           /\ \A i \in DOMAIN line : line[i].by # t
  <2>1. salon'.known = salon.known /\ salon'.told \in {salon.told, -1}
    BY <1>2, LobbyConstants DEF Seeing
  <2>2. \A i \in DOMAIN line : line[i].done => task'[line[i].by].answer = task[line[i].by].answer
    BY <1>1, <1>2 DEF LineInv
  <2> QED BY <1>2, <2>1, <2>2, TellWaits
<1>3. CASE /\ 1 \in DOMAIN line /\ line[1].by = t /\ line[1].done /\ line[1].what = task[t].pc
           /\ DOMAIN line' = 1..(Len(line) - 1)
           /\ \A i \in DOMAIN line' : i + 1 \in DOMAIN line /\ line'[i] = line[i + 1]
           /\ \A i \in DOMAIN line' : line'[i].by # t
  <2>1. \A i \in DOMAIN line' : line'[i].done => task'[line'[i].by].answer = task[line'[i].by].answer
    BY <1>1, <1>3 DEF LineInv
  <2>2. CASE /\ task[t].pc \notin {"seats", "owner"}
             /\ salon'.known = salon.known /\ salon'.told \in {salon.told, -1}
    <3>1. ~Said(1)
      BY <1>3, <2>2 DEF Said
    <3>2. StartedAgain => Past(salon'.known)
      BY <2>2 DEF StartedAgain
    <3> QED BY <1>0, <1>3, <2>1, <2>2, <3>1, <3>2, TellShifts
  <2>3. CASE /\ task[t].pc = "owner" /\ salon'.known = salon.known
             /\ salon'.told = IF task[t].answer = "ok" THEN task[t].view.seat ELSE salon.told
    <3>1. Said(1)
      BY <1>3, <2>3 DEF Said
    <3>2. salon'.told = line[1].about
      BY <1>3, <2>3 DEF LineInv, Awaited
    <3>3. StartedAgain => Past(salon'.known)
      BY <2>3 DEF StartedAgain
    <3> QED BY <1>0, <1>3, <2>1, <3>1, <3>2, <3>3, TellShifts
  <2>4. CASE task[t].pc = "seats" /\ Seeing(task[t].answer)
    <3>1. ~Said(1) /\ salon'.told \in {salon.told, -1}
      BY <1>3, <2>4 DEF Said, Seeing
    <3>2. CASE ObeysLast
      BY <1>0, <1>3, <2>1, <3>1, <3>2, TellShifts
    <3>3. CASE StartedAgain
      <4>1. CASE Past(salon'.known)
        BY <1>0, <1>3, <2>1, <3>3, <4>1, TellShifts
      <4>2. CASE ~Past(salon'.known)
        <5>1. Past(salon.known) /\ ~Past(task[t].answer)
          BY <2>4, <3>3, <4>2 DEF Seeing, StartedAgain
        <5>2. salon'.told = -1
          BY <2>4, <5>1 DEF Seeing, Past, Changes
        <5>3. \A i \in DOMAIN line : ~Said(i)
          BY <1>0, <1>3, <2>4, <3>1, <3>3, <5>1 DEF StartedAgain
        <5> QED BY <1>0, <1>3, <2>1, <5>2, <5>3, TellShifts
      <4> QED BY <4>1, <4>2
    <3> QED BY <3>2, <3>3
  <2> QED BY <2>2, <2>3, <2>4
<1> QED BY <1>2, <1>3, TakesLine

\* What the worker obeys after a step of a handler.
LEMMA HandlesTell ==
    ASSUME RoomSound, LineInv, TellInv, Handles
    PROVE  TellInv'
<1>0. LineTypes /\ late' = late /\ table' = table /\ obeyed' = obeyed
  BY RoomFacts, HandlesPasses
<1> SUFFICES ASSUME late = 0 PROVE ObeysLast' \/ StartedAgain'
  BY <1>0 DEF TellInv
<1>1. ObeysLast \/ StartedAgain
  BY DEF TellInv
<1>2. ASSUME NEW t, NEW h, Passes(t, h), task[t].pc \notin {"seats", "owner"},
             salon'.known = salon.known, salon'.told \in {salon.told, -1}
      PROVE  ObeysLast' \/ StartedAgain'
  <2>1. t \in Tasks
    BY <1>2 DEF Passes
  <2>2. CASE TakesAnswer(t, h)
    BY <1>0, <1>1, <1>2, <2>1, <2>2, TellTakes
  <2>3. CASE Moves(t, h) \/ \E about : Sends(t, h, about)
    BY <1>0, <1>1, <1>2, <2>1, <2>3, TellStays
  <2> QED BY <1>2, <2>2, <2>3 DEF Passes
<1>3. ASSUME NEW t, NEW h, PassesOn(t, h), task[t].pc \in {"seats", "owner"}
      PROVE  t \in Tasks /\ TakesAnswer(t, h)
  BY <1>3 DEF PassesOn, Passes, Moves, Sends, Asked
<1>4. CASE Steady /\ Rests
  BY <1>0, <1>1, <1>4, TellStays DEF Steady
<1>5. CASE Steady /\ \E t, h : PassesOn(t, h) /\ task[t].pc \notin {"seats", "owner"}
  BY <1>2, <1>5 DEF Steady, PassesOn
<1>6. ASSUME NEW t, NEW h, PassesOn(t, h), task[t].pc = "seats", Seeing(task[t].answer)
      PROVE  ObeysLast' \/ StartedAgain'
  BY <1>0, <1>1, <1>3, <1>6, TellTakes
<1>7. ASSUME NEW t \in Tasks, tell_owner(t) PROVE ObeysLast' \/ StartedAgain'
  <2>1. task[t].pc = "owner" /\ PassesOn(t, NoTask)
    BY <1>0, <1>7, TellOwnerSteps
  <2>2. TakesAnswer(t, NoTask)
    BY <1>3, <2>1
  <2>3. /\ salon'.known = salon.known
        /\ salon'.told = IF task[t].answer = "ok" THEN task[t].view.seat ELSE salon.told
    BY <1>7, TellOwnerRoom
  <2> QED BY <1>0, <1>1, <2>1, <2>2, <2>3, TellTakes
<1>8. ASSUME NEW t \in Tasks, prepares(t) PROVE ObeysLast' \/ StartedAgain'
  <2>1. task[t].pc = "describe" /\ \E h : Passes(t, h)
    BY <1>8, PreparesSteps DEF RoomSound
  <2>2. salon'.known = salon.known /\ salon'.told = salon.told
    BY <1>8, PreparesRoom
  <2> QED BY <1>2, <2>1, <2>2
<1> QED BY <1>4, <1>5, <1>6, <1>7, <1>8 DEF Handles

-----------------------------------------------------------------------------
(* The invariant, after a step of the worker. *)

WorkerActs ==
    \/ \E g \in Guests, p \in Chairs : worker_gives(g, p)
    \/ \E p \in Chairs : pad_ends(p)
    \/ worker_ends \/ worker_drops \/ serves
    \/ \E t \in Tasks : times_out(t)

\* What no step of the worker changes.
LEMMA WorkingRoom ==
    ASSUME RoomSound, LineInv, WorkerActs
    PROVE  /\ UNCHANGED <<roomVars, visits>>
           /\ \A t \in Tasks : task'[t].pc = task[t].pc /\ task'[t].op = task[t].op
                               /\ task'[t].message = task[t].message
           /\ serves \/ task' = task
           /\ late' = late \/ \E t \in Tasks : times_out(t)
<1>0. LineTypes /\ table \in Given /\ task \in [Tasks -> Handlers]
  BY RoomFacts DEF RoomSound, LobbyTypes, WorkerTypes, TaskTypes
<1>1. CASE serves
  <2>1. PICK i \in DOMAIN line : \E answer \in Answers(line[i]) :
           /\ UNCHANGED <<table, takers, process, visits, late, roomVars>>
           /\ \/ line[i].by \in Tasks /\ task' = [task EXCEPT ![line[i].by].answer = answer]
              \/ task' = task
    BY <1>0, <1>1, ServesLine
  <2>2. ASSUME NEW t \in Tasks
        PROVE  task'[t].pc = task[t].pc /\ task'[t].op = task[t].op /\ task'[t].message = task[t].message
    BY <1>0, <2>1 DEF Handlers
  <2> QED BY <1>1, <2>1, <2>2
<1>2. CASE ~serves
  BY <1>2 DEF WorkerActs, worker_gives, pad_ends, worker_ends, worker_drops, times_out, roomVars
<1> QED BY <1>1, <1>2

\* A step of the worker shows nothing and frees no lock.
LEMMA WorkingTold ==
    ASSUME RoomSound, LineInv, ToldInv, OneLock, WorkerActs
    PROVE  ToldInv' /\ OneLock'
<1>1. /\ UNCHANGED <<roomVars, visits>>
      /\ \A t \in Tasks : task'[t].pc = task[t].pc /\ task'[t].op = task[t].op
  BY WorkingRoom
<1>2. ToldInv'
  <2>1. UNCHANGED <<unsaid, painted, people, salon>>
    BY <1>1 DEF roomVars
  <2>2. describe(salon', people') = describe(salon, people)
    BY <2>1
  <2> QED BY <1>1, <2>1, <2>2 DEF ToldInv, Telling
<1>3. OneLock'
  BY <1>1 DEF OneLock, Locks
<1> QED BY <1>2, <1>3

\* Seats that were not given when they were read stay past.
LEMMA PastStays ==
    ASSUME Len(takers) \in Nat, NEW seen \in Dealt, Past(seen),
           \A p \in Chairs : table'[p] = table[p] \/ table'[p] = 0 \/ table'[p] = Len(takers) + 1
    PROVE  seen = Mute \/ \A p \in Chairs : seen[p] = 0 \/ seen[p] # table'[p]
<1> SUFFICES ASSUME seen # Mute, NEW p \in Chairs, seen[p] # 0 PROVE seen[p] # table'[p]
  OBVIOUS
<1>1. seen[p] \in 0..Len(takers) /\ seen[p] # table[p]
  BY DEF Past, Dealt, Given
<1> QED BY <1>1

\* Seats given or let go leave past what was past.
LEMMA TellWorks ==
    ASSUME RoomSound, LineInv, TellInv, UNCHANGED <<line, task, late, salon, obeyed>>,
           \A p \in Chairs : table'[p] = table[p] \/ table'[p] = 0 \/ table'[p] = Len(takers) + 1
    PROVE  TellInv'
<1> SUFFICES ASSUME late = 0 PROVE ObeysLast' \/ StartedAgain'
  BY DEF TellInv
<1>0. Len(takers) \in Nat /\ salon.known \in Dealt
  BY RoomFacts DEF RoomSound, Sound
<1>1. CASE ObeysLast
  <2>1. ObeysLast'
    BY <1>1 DEF ObeysLast, Said
  <2> QED BY <2>1
<1>2. CASE StartedAgain
  <2>1. obeyed' = 0 /\ Past(salon.known)'
    BY <1>0, <1>2, PastStays DEF StartedAgain, Past
  <2>2. ASSUME NEW i \in DOMAIN line, NEW j \in DOMAIN line, Said(i), j < i, line[j].done,
               line[j].what = "seats"
        PROVE  LET seen == task[line[j].by].answer IN
               seen = Mute \/ \A p \in Chairs : seen[p] = 0 \/ seen[p] # table'[p]
    <3>1. Past(task[line[j].by].answer)
      BY <1>2, <2>2 DEF StartedAgain
    <3>2. line[j].by \in Tasks /\ task[line[j].by].pc = "seats"
      BY <2>2 DEF LineInv, Awaited
    <3>3. task[line[j].by].answer \in Dealt
      BY <3>2, RoomFacts DEF Proper
    <3> QED BY <1>0, <3>1, <3>3, PastStays
  <2>3. StartedAgain'
    BY <2>1, <2>2 DEF StartedAgain, Said, Past
  <2> QED BY <2>3
<1> QED BY <1>1, <1>2 DEF TellInv

\* A seat that is given.
LEMMA GivesKeeps ==
    ASSUME RoomSound, LineInv, TellInv, Launches, NEW g \in Guests, NEW p \in Chairs, worker_gives(g, p)
    PROVE  LobbyTypes' /\ LineInv' /\ Sound(salon)' /\ TellInv' /\ Launches'
<1>0. /\ takers \in Seq(Guests \X Chairs) /\ Len(takers) \in Nat /\ Len(takers) < MaxGiven
      /\ table \in Given
  BY LenProperties DEF RoomSound, LobbyTypes, WorkerTypes, worker_gives
<1>1. /\ takers' = Append(takers, <<g, p>>) /\ table' = [table EXCEPT ![p] = Len(takers')]
      /\ UNCHANGED <<obeyed, accepted, process, line, visits, task, late, people, salon, painted, said, unsaid>>
  BY DEF worker_gives, roomVars
<1>2. /\ takers' \in Seq(Guests \X Chairs) /\ Len(takers') = Len(takers) + 1
      /\ \A i \in 1..Len(takers) : takers'[i] = takers[i]
  BY <1>0, <1>1, AppendProperties
<1>3. table' \in Given' /\ \A q \in Chairs : table'[q] = table[q] \/ table'[q] = Len(takers) + 1
  BY <1>0, <1>1, <1>2 DEF Given
<1>4. ReadTypes' /\ LineTypes'
  BY <1>0, <1>1, <1>2, GivenGrows, RoomFacts DEF RoomSound, LobbyTypes
<1>5. LineInv'
  BY <1>1 DEF LineInv, Awaited
<1>6. LobbyTypes'
  <2>1. WorkerTypes'
    BY <1>0, <1>1, <1>2, <1>3, LobbyConstants DEF WorkerTypes, RoomSound, LobbyTypes
  <2>2. RoomTypes'
    BY <1>1 DEF RoomTypes, RoomSound, LobbyTypes
  <2> QED BY <1>4, <2>1, <2>2 DEF LobbyTypes, LineTypes
<1>7. Sound(salon)'
  <2>1. WellNamed(salon)'
    <3>1. ASSUME NEW q \in Chairs, salon.claims[q] # NoSession
          PROVE  LET s == salon.claims[q] IN
                 /\ salon.known # Mute => salon.receipts[s] = salon.known[q]
                 /\ salon.receipts[s] \in 1..Len(takers') /\ takers'[salon.receipts[s]] = <<s[1], q>>
                 /\ \A r \in Chairs \ {q} : salon.claims[r] # s
      <4> DEFINE s == salon.claims[q]
      <4>1. /\ salon.known # Mute => salon.receipts[s] = salon.known[q]
            /\ salon.receipts[s] \in 1..Len(takers) /\ takers[salon.receipts[s]] = <<s[1], q>>
            /\ \A r \in Chairs \ {q} : salon.claims[r] # s
        BY <3>1 DEF RoomSound, Sound, WellNamed
      <4> HIDE DEF s
      <4>2. salon.receipts[s] \in 1..Len(takers') /\ takers'[salon.receipts[s]] = takers[salon.receipts[s]]
        BY <1>0, <1>2, <4>1
      <4> QED BY <4>1, <4>2 DEF s
    <3> QED BY <1>1, <3>1 DEF WellNamed
  <2>2. Confirmed(salon.prep)'
    <3>1. ASSUME NEW q \in Chairs, salon.prep.players[q].claim # 0, salon.prep.players[q].ready
          PROVE  SaidBy(salon.prep.players[q].claim, salon.prep.id)
                 /\ takers'[salon.prep.players[q].claim] = takers[salon.prep.players[q].claim]
      <4>1. salon.prep.players[q].claim \in 0..MaxGiven
        BY RoomFacts, SalonParts DEF Preparations, ReadyOnes
      <4>2. salon.prep.players[q].claim \in 1..Len(takers)
        BY <1>0, <3>1, <4>1, LobbyConstants DEF RoomSound, Sound
      <4> QED BY <1>2, <3>1, <4>2 DEF RoomSound, Sound, Confirmed
    <3> QED BY <1>1, <3>1 DEF Confirmed, SaidBy
  <2> QED BY <1>1, <1>4, <2>1, <2>2, RoomFacts DEF Sound, ReadTypes
<1>8. TellInv'
  BY <1>1, <1>3, TellWorks
<1>9. Launches'
  <2>1. ASSUME NEW i \in DOMAIN line, line[i].by \in Tasks, line[i].what = "launch",
               NEW q \in Chairs, line[i].about[q] # 0
        PROVE  said[line[i].about[q]] = [id |-> task[line[i].by].message.id,
                                         by |-> takers'[line[i].about[q]][1]]
    <3>1. line[i].about[q] \in 0..Len(takers)
      BY <2>1, RoomFacts DEF LineTypes, OrderTypes, Given
    <3>2. line[i].about[q] \in 1..Len(takers)
      BY <1>0, <2>1, <3>1
    <3>3. SaidBy(line[i].about[q], task[line[i].by].message.id)
      BY <2>1 DEF Launches, SpokenFor
    <3> QED BY <1>2, <3>2, <3>3 DEF SaidBy
  <2>2. UNCHANGED <<line, task, said>>
    BY <1>1
  <2> QED BY <2>1, <2>2 DEF Launches, SpokenFor, SaidBy
<1> QED BY <1>5, <1>6, <1>7, <1>8, <1>9

\* What changes neither the seats that were given nor the room.
LEMMA WorkingTypes ==
    ASSUME RoomSound, LineInv, WorkerTypes', LineTypes', late' \in 0..MaxLate,
           UNCHANGED <<takers, visits, roomVars>>
    PROVE  LobbyTypes' /\ Sound(salon)'
<1>1. Sound(salon)'
  BY SoundLater DEF RoomSound, roomVars
<1>2. RoomTypes' /\ ReadTypes'
  BY DEF RoomSound, LobbyTypes, RoomTypes, ReadTypes, roomVars, Dealt, Given
<1> QED BY <1>1, <1>2 DEF LobbyTypes, LineTypes

\* A seat that is let go, or a launch that is dropped.
LEMMA PadEndsKeeps ==
    ASSUME RoomSound, LineInv, TellInv, Launches, worker_drops \/ \E p \in Chairs : pad_ends(p)
    PROVE  LobbyTypes' /\ LineInv' /\ Sound(salon)' /\ TellInv' /\ Launches'
<1>0. Len(takers) \in Nat /\ WorkerTypes /\ LineTypes /\ late \in 0..MaxLate
  BY RoomFacts DEF RoomSound, LobbyTypes, RoomTypes
<1>1. UNCHANGED <<takers, obeyed, process, line, visits, task, late, roomVars>>
  BY DEF worker_drops, pad_ends
<1>2. /\ table' \in Given' /\ accepted' \in {"nothing", "launch", "stop"}
      /\ \A q \in Chairs : table'[q] = table[q] \/ table'[q] = 0
  BY <1>0, <1>1 DEF worker_drops, pad_ends, Given, WorkerTypes
<1>3. WorkerTypes'
  BY <1>0, <1>1, <1>2 DEF WorkerTypes
<1>4. LineTypes' /\ LineInv'
  BY <1>0, <1>1, RestsKeeps DEF Rests
<1>5. TellInv'
  BY <1>1, <1>2, TellWorks DEF roomVars
<1>6. Launches'
  BY <1>0, <1>1, LaunchesKeep DEF Rests, roomVars
<1> QED BY <1>0, <1>1, <1>3, <1>4, <1>5, <1>6, WorkingTypes

\* The end of the worker.
LEMMA WorkerEndsKeeps ==
    ASSUME RoomSound, LineInv, Launches, worker_ends
    PROVE  LobbyTypes' /\ LineInv' /\ Sound(salon)' /\ TellInv' /\ Launches'
<1>0. Len(takers) \in Nat /\ WorkerTypes /\ LineTypes /\ late \in 0..MaxLate
  BY RoomFacts DEF RoomSound, LobbyTypes, RoomTypes
<1>1. /\ UNCHANGED <<takers, visits, task, late, roomVars>>
      /\ table' = NoTable /\ obeyed' = 0 /\ accepted' = "nothing"
      /\ process < MaxProcesses /\ process' = process + 1
  BY DEF worker_ends
<1>2. WorkerTypes'
  <2>1. table' \in Given'
    BY <1>0, <1>1 DEF NoTable, Given
  <2>2. process' \in 1..MaxProcesses /\ obeyed' \in 0..PADS
    BY <1>0, <1>1, LobbyConstants DEF WorkerTypes
  <2> QED BY <1>0, <1>1, <2>1, <2>2 DEF WorkerTypes
<1>3. LineTypes' /\ LineInv'
  BY <1>0, EndsKeeps
<1>4. \A p \in Chairs : table'[p] = 0
  BY <1>1 DEF NoTable
<1>5. StartedAgain'
  BY <1>1, <1>4 DEF StartedAgain, Past
<1>6. \A i \in DOMAIN line' : i \in DOMAIN line /\ line'[i] = line[i]
  BY <1>0, EndsLine
<1>7. UNCHANGED <<task, said, takers>>
  BY <1>1 DEF roomVars
<1>8. Launches'
  BY <1>6, <1>7 DEF Launches, SpokenFor, SaidBy
<1> QED BY <1>0, <1>1, <1>2, <1>3, <1>5, <1>8, WorkingTypes DEF TellInv

\* An order that is given up on.
LEMMA TimesOutAll ==
    ASSUME RoomSound, LineInv, Launches, NEW t \in Tasks, times_out(t)
    PROVE  LobbyTypes' /\ LineInv' /\ Sound(salon)' /\ TellInv' /\ Launches'
<1>0. WorkerTypes /\ LineTypes /\ late \in 0..MaxLate /\ late \in Nat
      /\ line \in Seq(Entries) /\ Len(line) \in Nat /\ DOMAIN line = 1..Len(line)
  BY RoomFacts, LineParts, LobbyConstants DEF RoomSound, LobbyTypes, RoomTypes, LineTypes, TaskTypes
<1>1. /\ UNCHANGED <<workerVars, visits, task, roomVars>>
      /\ late < MaxLate /\ late' = late + 1
  BY DEF times_out
<1>2. PICK i \in DOMAIN line : line' = [line EXCEPT ![i].by = -1]
  BY DEF times_out
<1>3. WorkerTypes'
  BY <1>0, <1>1 DEF WorkerTypes, workerVars, Given
<1>4. LineTypes' /\ LineInv'
  BY <1>0, TimesOutKeeps
<1>5. late' \in 0..MaxLate /\ late' # 0
  BY <1>0, <1>1, LobbyConstants
<1>6. TellInv'
  BY <1>5 DEF TellInv
<1>7. /\ DOMAIN line' = DOMAIN line
      /\ \A j \in DOMAIN line : line'[j].by \in Tasks =>
           line'[j].by = line[j].by /\ line'[j].what = line[j].what /\ line'[j].about = line[j].about
  <2> DEFINE e == [line[i] EXCEPT !.by = -1]
  <2>1. line' = [line EXCEPT ![i] = e]
    BY <1>0, <1>2
  <2>2. e.by = -1
    <3>1. line[i] \in Entries
      BY <1>0, ElementOfSeq
    <3> QED BY <3>1 DEF Entries
  <2> HIDE DEF e
  <2>3. DOMAIN line' = DOMAIN line /\ \A j \in DOMAIN line : line'[j] = IF j = i THEN e ELSE line[j]
    BY <1>0, <2>1
  <2>4. -1 \notin Tasks
    BY LobbyConstants DEF Tasks
  <2> QED BY <2>2, <2>3, <2>4
<1>8. UNCHANGED <<task, said, takers>>
  BY <1>1 DEF roomVars, workerVars
<1>9. Launches'
  BY <1>7, <1>8 DEF Launches, SpokenFor, SaidBy
<1>10. UNCHANGED <<takers, visits, roomVars>>
  BY <1>1 DEF workerVars
<1> QED BY <1>3, <1>4, <1>5, <1>6, <1>9, <1>10, WorkingTypes

\* An order that is served.
LEMMA ServesAll ==
    ASSUME RoomSound, LineInv, TellInv, Launches, serves
    PROVE  LobbyTypes' /\ LineInv' /\ Sound(salon)' /\ TellInv' /\ Launches'
<1>0. /\ WorkerTypes /\ LineTypes /\ late \in 0..MaxLate /\ table \in Given /\ Len(takers) \in Nat
      /\ Len(takers) <= MaxGiven
      /\ line \in Seq(Entries) /\ Len(line) \in Nat /\ DOMAIN line = 1..Len(line)
      /\ task \in [Tasks -> Handlers]
  BY RoomFacts, LineParts DEF RoomSound, LobbyTypes, RoomTypes, WorkerTypes, LineTypes, TaskTypes
<1> DEFINE Served(i, answer) ==
             /\ Next_served(i)
             /\ obeyed' = IF line[i].what = "owner" THEN line[i].about ELSE obeyed
             /\ accepted' = IF line[i].what \in {"launch", "stop"} /\ answer = "ok" THEN line[i].what
                            ELSE accepted
             /\ UNCHANGED <<table, takers, process, visits, late, roomVars>>
             /\ line' \in Seq(Entries)
             /\ \/ /\ line[i].by \in Tasks /\ DOMAIN line' = DOMAIN line
                   /\ \A j \in DOMAIN line \ {i} : line'[j] = line[j]
                   /\ line'[i].by = line[i].by /\ line'[i].what = line[i].what
                   /\ line'[i].about = line[i].about /\ line'[i].done
                   /\ task[line[i].by].pc = line[i].what
                   /\ task' = [task EXCEPT ![line[i].by].answer = answer]
                \/ /\ line[i].by \notin Tasks /\ task' = task
                   /\ DOMAIN line' = 1..(Len(line) - 1)
                   /\ \A j \in DOMAIN line' : line'[j] = IF j < i THEN line[j] ELSE line[j + 1]
<1>1. PICK i \in DOMAIN line : \E answer \in Answers(line[i]) : Served(i, answer)
  BY <1>0, ServesLine
<1>2. PICK answer \in Answers(line[i]) : Served(i, answer)
  BY <1>1
<1>3. UNCHANGED <<table, takers, process, visits, late, roomVars>>
  BY <1>2
<1>4. line[i] \in Entries
  BY <1>0, ElementOfSeq
<1>5. WorkerTypes'
  <2>1. obeyed' \in 0..PADS
    <3>1. line[i].what = "owner" => line[i].about \in 0..PADS
      BY <1>0 DEF LineTypes, OrderTypes
    <3> QED BY <1>0, <1>2, <3>1 DEF WorkerTypes
  <2>2. accepted' \in {"nothing", "launch", "stop"}
    BY <1>0, <1>2 DEF WorkerTypes
  <2> QED BY <1>0, <1>3, <2>1, <2>2 DEF WorkerTypes, Given
<1>6. LineTypes' /\ LineInv'
  BY <1>0, ServesKeeps
<1>7. \A t \in Tasks : task'[t].message = task[t].message
  BY WorkingRoom DEF WorkerActs
<1>8. Launches'
  <2>1. ASSUME NEW j \in DOMAIN line'
        PROVE  \E k \in DOMAIN line : /\ line'[j].by = line[k].by /\ line'[j].what = line[k].what
                                      /\ line'[j].about = line[k].about
    <3>1. CASE line[i].by \in Tasks
      BY <1>2, <2>1, <3>1
    <3>2. CASE line[i].by \notin Tasks
      <4>1. (j < i => j \in DOMAIN line) /\ (~(j < i) => j + 1 \in DOMAIN line)
        BY <1>0, <1>2, <2>1, <3>2
      <4> QED BY <1>2, <2>1, <3>2, <4>1
    <3> QED BY <3>1, <3>2
  <2>2. UNCHANGED <<takers, said>>
    BY <1>3 DEF roomVars
  <2>3. ASSUME NEW j \in DOMAIN line', line'[j].by \in Tasks, line'[j].what = "launch"
        PROVE  SpokenFor(line'[j].about, task'[line'[j].by].message.id)
    BY <1>7, <2>1, <2>3 DEF Launches
  <2> QED BY <2>2, <2>3 DEF Launches, SpokenFor, SaidBy
<1>9. TellInv'
  <2> SUFFICES ASSUME late = 0 PROVE ObeysLast' \/ StartedAgain'
    BY <1>3 DEF TellInv
  <2>0. /\ DOMAIN line' = DOMAIN line /\ line[i].by \in Tasks
        /\ \A j \in DOMAIN line \ {i} : line'[j] = line[j]
        /\ line'[i].by = line[i].by /\ line'[i].what = line[i].what
        /\ line'[i].about = line[i].about /\ line'[i].done
        /\ task' = [task EXCEPT ![line[i].by].answer = answer]
        /\ ~line[i].done
    BY <1>2 DEF LineInv, Next_served
  <2>1. obeyed' = IF line[i].what = "owner" THEN line[i].about ELSE obeyed
    BY <1>2
  <2>2. salon' = salon /\ table' = table
    BY <1>3 DEF roomVars
  <2>3. \A j \in DOMAIN line : j > i => ~line[j].done
    BY <1>0, <2>0 DEF LineInv
  <2> HIDE DEF Served
  <2>4. CASE line[i].what = "owner"
    <3>1. \A j \in DOMAIN line' : line'[j].done => j <= i
      BY <1>0, <2>0, <2>3
    <3>2. ObeysLast'
      BY <2>0, <2>1, <2>4, <3>1 DEF ObeysLast, Said
    <3> QED BY <3>2
  <2>5. CASE line[i].what # "owner" /\ ObeysLast
    <3>1. \A j \in DOMAIN line : /\ line'[j].done /\ line'[j].what = "owner" <=> Said(j)
                                 /\ line'[j].about = line[j].about
      BY <2>0, <2>5 DEF Said
    <3>2. ObeysLast'
      BY <2>0, <2>1, <2>2, <2>5, <3>1 DEF ObeysLast, Said
    <3> QED BY <3>2
  <2>6. CASE line[i].what # "owner" /\ StartedAgain
    <3>1. ASSUME NEW k \in DOMAIN line, NEW j \in DOMAIN line, line'[k].done, line'[k].what = "owner",
                 j < k, line'[j].done, line'[j].what = "seats"
          PROVE  Past(task'[line'[j].by].answer)
      <4>1. k # i /\ line'[k] = line[k] /\ Said(k)
        BY <2>0, <2>6, <3>1 DEF Said
      <4>2. j # i
        BY <1>0, <2>3, <3>1, <4>1
      <4>3. line'[j] = line[j] /\ line[j].by \in Tasks /\ line[j].by # line[i].by
        BY <2>0, <3>1, <4>2 DEF LineInv
      <4>4. task'[line[j].by] = task[line[j].by]
        BY <1>0, <2>0, <4>3
      <4>5. Past(task[line[j].by].answer)
        BY <2>6, <3>1, <4>1, <4>3 DEF StartedAgain
      <4> QED BY <4>3, <4>4, <4>5
    <3>2. obeyed' = 0 /\ Past(salon.known)
      BY <2>1, <2>6 DEF StartedAgain
    <3>3. StartedAgain'
      BY <2>0, <2>2, <3>1, <3>2 DEF StartedAgain, Said, Past
    <3> QED BY <3>3
  <2> QED BY <2>4, <2>5, <2>6 DEF TellInv
<1>10. late' \in 0..MaxLate /\ UNCHANGED <<takers, visits, roomVars>>
  BY <1>0, <1>3
<1> QED BY <1>5, <1>6, <1>8, <1>9, <1>10, WorkingTypes

-----------------------------------------------------------------------------
(* The theorems. *)

\* The invariant holds of the room.
LEMMA SoundRoom ==
    ASSUME LobbyInv PROVE RoomSound
BY DEF LobbyInv, LobbyTypes, RoomTypes, ReadTypes, NamesInv, LaunchInv, RoomSound, Sound

\* A step of the lobby is one of a handler or of the worker.
LEMMA LobbyActions ==
    ASSUME LobbyNext, RoomSound, LineInv
    PROVE  Handles \/ WorkerActs
<1>0. 0 \in 0..PADS
  BY LobbyConstants
<1>1. ASSUME Handling PROVE Handles \/ WorkerActs
  BY <1>1, FollowHandles, BroadcastHandles, TellOwnerHandles, MovesHandles DEF Handling, WorkerActs
<1>2. ASSUME Coming PROVE Handles
  BY <1>2, ConnectHandles, DisconnectHandles DEF Coming
<1>3. ASSUME Sitting PROVE WorkerActs
  BY <1>3 DEF Sitting, WorkerActs
<1>4. ASSUME Naming PROVE Handles
  BY <1>4, NamingHandles, MovesHandles DEF Naming
<1>5. ASSUME Launching PROVE Handles
  BY <1>5, MovesHandles, ReadsHandles, PreparesHandles, PreparationHandles DEF Launching
<1>6. ASSUME Recoveries PROVE Handles
  BY <1>0, <1>6, MovesHandles, RestingHandles, RecoversHandles, ReadsHandles DEF Recoveries
<1> QED BY <1>1, <1>2, <1>3, <1>4, <1>5, <1>6, RestingHandles DEF LobbyNext

\* Every step keeps the invariant.
LEMMA LobbyStep ==
    ASSUME LobbyInv, LobbyNext
    PROVE  LobbyInv'
<1>0. /\ RoomSound /\ LineInv /\ TellInv /\ ToldInv /\ LaunchInv /\ OneLock /\ Launches
  BY SoundRoom DEF LobbyInv, LaunchInv
<1>1. CASE Handles
  <2>1. LobbyTypes' /\ LineInv' /\ Sound(salon)' /\ TellInv' /\ ToldInv' /\ LaunchInv'
    BY <1>0, <1>1, HandlesTypes, HandlesTell, HandlesTold, HandlesLaunch
  <2> QED BY <2>1 DEF LobbyInv, Sound, NamesInv
<1>2. CASE WorkerActs
  <2>1. LobbyTypes' /\ LineInv' /\ Sound(salon)' /\ TellInv' /\ Launches'
    BY <1>0, <1>2, GivesKeeps, PadEndsKeeps, WorkerEndsKeeps, TimesOutAll, ServesAll DEF WorkerActs
  <2>2. ToldInv' /\ OneLock'
    BY <1>0, <1>2, WorkingTold
  <2> QED BY <2>1, <2>2 DEF LobbyInv, Sound, NamesInv, LaunchInv
<1> QED BY <1>0, <1>1, <1>2, LobbyActions

\* It holds at first.
LEMMA LobbyStart == ASSUME LobbyInit PROVE LobbyInv
<1>1. WorkerTypes
  BY LobbyConstants DEF LobbyInit, WorkerTypes, NoTable, Given
<1>2. /\ line = <<>> /\ DOMAIN line = {} /\ takers = <<>> /\ Len(takers) = 0
      /\ task = [t \in Tasks |-> NoTask]
  BY DEF LobbyInit
<1>3. /\ people \in Folks /\ visits \in [Guests -> 0..MaxVisits]
  BY LobbyConstants DEF LobbyInit, Folks, Logins
<1>4. salon \in Salons /\ salon.known = Mute /\ salon.prep = NoPreparation /\ salon.told = 0
      /\ \A p \in Chairs : salon.claims[p] = NoSession
  <2> DEFINE C == [p \in Chairs |-> NoSession]
             R == [s \in Sessions |-> 0]
             F == [p \in 0..PADS |-> 0]
  <2>1. C \in [Chairs -> Named] /\ R \in [Sessions -> 0..MaxGiven]
        /\ F \in [0..PADS -> Logins \union 0..MaxGiven] /\ \A p \in Chairs : C[p] = NoSession
    BY LobbyConstants DEF Named
  <2>2. salon = [claims |-> C, receipts |-> R, known |-> Mute, told |-> 0,
                 prep |-> NoPreparation, recovery |-> NoRecovery, refused |-> F, begun |-> 0]
    BY DEF LobbyInit
  <2> HIDE DEF C, R, F
  <2> QED BY <2>1, <2>2, NothingPrepared, LobbyConstants DEF Salons
<1>5. RoomTypes
  <2>1. painted \in Views
    BY <1>3, <1>4, DescribeType DEF LobbyInit
  <2>2. said \in [1..MaxGiven -> [id : Nat, by : Guests \union {NoLogin}]]
    BY DEF LobbyInit, NotSaid
  <2>3. late = 0 /\ unsaid = FALSE
    BY DEF LobbyInit
  <2>4. late \in 0..MaxLate
    BY <2>3, LobbyConstants
  <2>5. unsaid \in BOOLEAN
    BY <2>3
  <2> QED BY <1>3, <1>4, <2>1, <2>2, <2>4, <2>5 DEF RoomTypes
<1>6. ReadTypes
  BY <1>2, <1>4, NothingPrepared DEF ReadTypes, Dealt
<1>7. LineTypes /\ LineInv
  <2>1. TaskTypes /\ HandlerTypes
    BY <1>2, NoTaskType DEF TaskTypes, HandlerTypes
  <2>2. OrderTypes
    BY <1>2 DEF OrderTypes
  <2>3. LineInv
    BY <1>2, NoTaskType DEF LineInv
  <2> QED BY <2>1, <2>2, <2>3 DEF LineTypes
<1>8. NamesInv
  BY <1>4 DEF NamesInv, WellNamed
<1>9. TellInv
  <2>1. ObeysLast
    BY <1>2, <1>4 DEF LobbyInit, ObeysLast
  <2> QED BY <2>1 DEF TellInv
<1>10. ToldInv
  BY DEF LobbyInit, ToldInv
<1>11. LaunchInv
  <2>1. OneLock
    BY <1>2, NoTaskType DEF OneLock, Locks
  <2>2. Confirmed(salon.prep)
    BY <1>4, NothingPrepared DEF Confirmed
  <2>3. Launches
    BY <1>2 DEF Launches
  <2> QED BY <2>1, <2>2, <2>3 DEF LaunchInv
<1> QED BY <1>1, <1>5, <1>6, <1>7, <1>8, <1>9, <1>10, <1>11 DEF LobbyInv, LobbyTypes, LineTypes

\* It is kept by steps and by what is no step.
LEMMA LobbyKeeps == LobbyInv /\ [LobbyNext]_lobbyVars => LobbyInv'
<1> SUFFICES ASSUME LobbyInv, [LobbyNext]_lobbyVars PROVE LobbyInv'
  OBVIOUS
<1>1. CASE LobbyNext
  BY <1>1, LobbyStep
<1>2. CASE UNCHANGED lobbyVars
  <2>1. /\ RoomSound /\ LineInv /\ TellInv /\ ToldInv /\ LaunchInv
    BY SoundRoom DEF LobbyInv
  <2>2. Apart /\ UNCHANGED <<workerVars, visits, late, roomVars>>
    BY <1>2 DEF lobbyVars, Apart, Rests
  <2>3. Handles
    BY <2>1, <2>2, ApartHandles
  <2>4. LobbyTypes' /\ LineInv' /\ Sound(salon)' /\ TellInv' /\ ToldInv' /\ LaunchInv'
    BY <2>1, <2>3, HandlesTypes, HandlesTell, HandlesTold, HandlesLaunch
  <2> QED BY <2>4 DEF LobbyInv, Sound, NamesInv
<1> QED BY <1>1, <1>2

\* The invariant of the lobby's room, whatever its pages, seats and bounds.
THEOREM LobbyInvariant == LobbySpec => []LobbyInv
BY LobbyStart, LobbyKeeps, PTL DEF LobbySpec

\* It gives the types.
LEMMA LobbyTyped == LobbyInv => LobbyTypeOK
<1> SUFFICES ASSUME LobbyInv PROVE LobbyTypeOK
  OBVIOUS
<1>1. WorkerTypes /\ RoomTypes /\ TaskTypes
  BY DEF LobbyInv, LobbyTypes
<1>2. salon.claims \in [Chairs -> Named] /\ salon.receipts \in [Sessions -> 0..MaxGiven] /\ salon.told \in -1..PADS
  BY <1>1, SalonParts DEF RoomTypes
<1>3. \A i \in DOMAIN line : line[i].by \in Tasks \union {-1}
  BY <1>1, LineParts DEF Entries
<1>4. table \in [Chairs -> 0..MaxGiven]
  BY <1>1, LobbyConstants, LenProperties DEF WorkerTypes, Given
<1>5. painted.seat \in 0..PADS /\ DOMAIN task = Tasks
  BY <1>1 DEF RoomTypes, TaskTypes, Views
<1>6. people.present \in Seq(Sessions)
  BY <1>1 DEF RoomTypes, Folks
<1> QED BY <1>1, <1>2, <1>3, <1>4, <1>5, <1>6 DEF LobbyTypeOK, WorkerTypes, RoomTypes, Named

\* It gives the names.
LEMMA NamesHold == LobbyInv => NamesAgree
<1> SUFFICES ASSUME LobbyInv, NEW p \in Chairs, salon.claims[p] # NoSession
             PROVE  LET s == salon.claims[p] IN
                    /\ salon.known # Mute => salon.receipts[s] = salon.known[p]
                    /\ salon.receipts[s] # 0 /\ takers[salon.receipts[s]] = <<s[1], p>>
                    /\ \A q \in Chairs \ {p} : salon.claims[q] # s
  BY DEF NamesAgree
<1>1. LET s == salon.claims[p] IN
        /\ salon.known # Mute => salon.receipts[s] = salon.known[p]
        /\ salon.receipts[s] \in 1..Len(takers) /\ takers[salon.receipts[s]] = <<s[1], p>>
        /\ \A q \in Chairs \ {p} : salon.claims[q] # s
  BY DEF LobbyInv, NamesInv, WellNamed
<1>2. salon.receipts[salon.claims[p]] # 0
  BY <1>1
<1> QED BY <1>1, <1>2

\* A room of which nobody has a seat has no owner's seat.
LEMMA NobodySeated ==
    ASSUME NEW room \in Salons, NEW folk \in Folks, \A p \in Chairs : room.claims[p] = NoSession
    PROVE  describe(room, folk).seat = 0
<1> DEFINE S == {i \in Among(folk, Here) :
                    LoginAt(folk, i) = owner(folk, Here) /\ seat_of(room, folk.present[i]) # 0}
<1>1. \A s \in Sessions : seat_of(room, s) = 0
  BY SeatOfType, LobbyConstants
<1>2. \A i \in DOMAIN folk.present : folk.present[i] \in Sessions
  BY ElementOfSeq, LenProperties DEF Folks
<1>3. S = {}
  BY <1>1, <1>2 DEF Among
<1> QED BY <1>3 DEF describe

\* Once everything is handled, the last order said the owner's seat, or the worker
\* started again and has no seat at all.
LEMMA OwnerHolds == LobbyInv => OwnerObeyed
<1> SUFFICES ASSUME LobbyInv, Quiet, late = 0, salon.known = table,
                    salon.told = describe(salon, people).seat
             PROVE  obeyed = salon.told
  BY DEF OwnerObeyed
<1>1. /\ salon \in Salons /\ people \in Folks /\ table \in Given /\ Len(takers) \in Nat
      /\ Len(takers) <= MaxGiven /\ WellNamed(salon)
  BY LenProperties DEF LobbyInv, LobbyTypes, RoomTypes, WorkerTypes, NamesInv
<1>2. salon.told \in 0..PADS
  BY <1>1, DescribeType DEF Views
<1>3. DOMAIN line = {}
  BY DEF Quiet
<1>4. ObeysLast \/ StartedAgain
  BY DEF LobbyInv, TellInv
<1>5. CASE ObeysLast
  BY <1>2, <1>3, <1>5 DEF ObeysLast
<1>6. CASE StartedAgain
  <2>1. table # Mute
    BY <1>1, LobbyConstants DEF Given, Tables, Chairs
  <2>2. obeyed = 0 /\ \A p \in Chairs : table[p] = 0
    BY <1>6, <2>1 DEF StartedAgain, Past
  <2>3. ASSUME NEW p \in Chairs, salon.claims[p] # NoSession PROVE FALSE
    <3> DEFINE r == salon.receipts[salon.claims[p]]
    <3>1. r = salon.known[p] /\ r \in 1..Len(takers)
      BY <1>1, <2>1, <2>3 DEF WellNamed
    <3> QED BY <1>1, <2>2, <3>1
  <2>4. describe(salon, people).seat = 0
    BY <1>1, <2>3, NobodySeated
  <2> QED BY <2>2, <2>4
<1> QED BY <1>4, <1>5, <1>6

\* Once everything is handled nobody is about to tell, so it was told.
LEMMA ShownHolds == LobbyInv => ShownIsSeen
<1> SUFFICES ASSUME LobbyInv, Quiet, ~unsaid PROVE painted = describe(salon, people)
  BY DEF ShownIsSeen
<1>1. \A t \in Tasks : ~Telling(t)
  BY DEF Quiet, Stands, Telling
<1> QED BY <1>1 DEF LobbyInv, ToldInv

\* The names under the seats are of who was given them, the worker obeys the owner's
\* seat that was told last, and the pages show the room as it is, for any number of
\* pages, seats, handlers, visits and ends of the worker (rooms.py, server.py).
THEOREM LobbySafe == LobbySpec => [](LobbyTypeOK /\ NamesAgree /\ OwnerObeyed /\ ShownIsSeen)
BY LobbyInvariant, LobbyTyped, NamesHold, OwnerHolds, ShownHolds, PTL

-----------------------------------------------------------------------------
(* What no step does. *)

\* The steps of LaunchedAsConfirmed and of RoleIsKept.
ConfirmedStep ==
    accepted = "nothing" /\ accepted' = "launch" =>
        \A i \in DOMAIN line : Next_served(i) /\ line[i].by \in Tasks =>
            \A p \in Chairs : table[p] # 0 =>
                said[table[p]] = [id |-> task[line[i].by].message.id,
                                  by |-> takers[table[p]][1]]

HeldStep ==
    people'.owner # people.owner
      /\ (\E s \in Present \intersect ToSet(people'.present) : Login(s) = people.owner /\ s[1] \in Here)
    => \/ /\ salon.recovery.port = 0 /\ salon.recovery.expected = people.owner
          /\ people'.owner = Login(salon.recovery.asker)
          /\ salon.recovery.accepted \/ salon.recovery.age = 1
       \/ speaks_elsewhere

\* The launch that is accepted is the first order not served, made for the table
\* the worker has, which its handler found confirmed.
LEMMA LaunchStep == LobbyInv /\ [LobbyNext]_lobbyVars => [ConfirmedStep]_lobbyVars
<1> SUFFICES ASSUME LobbyInv, LobbyNext, accepted = "nothing", accepted' = "launch",
                    NEW i \in DOMAIN line, Next_served(i), line[i].by \in Tasks,
                    NEW p \in Chairs, table[p] # 0
             PROVE  said[table[p]] = [id |-> task[line[i].by].message.id,
                                      by |-> takers[table[p]][1]]
  BY DEF ConfirmedStep
<1>1. /\ RoomSound /\ LineInv /\ Launches /\ LineTypes /\ table \in Given
      /\ Len(takers) \in Nat /\ Len(takers) <= MaxGiven
  BY SoundRoom, LenProperties DEF LobbyInv, LaunchInv, LobbyTypes, LineTypes, WorkerTypes
<1>2. serves
  <2>1. ~Handles
    BY DEF Handles, workerVars
  <2>2. WorkerActs
    BY <1>1, <2>1, LobbyActions
  <2> QED BY <2>2 DEF WorkerActs, worker_gives, pad_ends, worker_ends, worker_drops, times_out, workerVars
<1>3. PICK j \in DOMAIN line : \E answer \in Answers(line[j]) :
        /\ Next_served(j)
        /\ accepted' = IF line[j].what \in {"launch", "stop"} /\ answer = "ok" THEN line[j].what
                       ELSE accepted
  BY <1>1, <1>2, ServesLine
<1>4. DOMAIN line = 1..Len(line) /\ Len(line) \in Nat /\ line[j] \in Entries
  BY <1>1, LineParts DEF LineTypes
<1>5. i = j
  <2>1. i \in Nat /\ j \in Nat /\ ~(i < j) /\ ~(j < i)
    BY <1>3, <1>4 DEF Next_served
  <2> QED BY <2>1
<1>6. line[j].what = "launch" /\ line[j].about = table
  <2>1. PICK answer \in Answers(line[j]) :
          accepted' = IF line[j].what \in {"launch", "stop"} /\ answer = "ok" THEN line[j].what
                      ELSE accepted
    BY <1>3
  <2>2. line[j].what = "launch" /\ answer = "ok"
    BY <2>1
  <2> QED BY <1>1, <1>4, <2>1, <2>2, AnswersType
<1>7. SpokenFor(table, task[line[i].by].message.id)
  BY <1>1, <1>5, <1>6 DEF Launches
<1> QED BY <1>7 DEF SpokenFor, SaidBy

\* A launch is accepted only for those who said they are ready for that preparation,
\* each under the attribution they have, for any number of seats and pages
\* (Preparation.synchronise, control::serve).
THEOREM LaunchesAsConfirmed == LobbySpec => LaunchedAsConfirmed
BY LobbyInvariant, LaunchStep, PTL DEF LobbySpec, LaunchedAsConfirmed, ConfirmedStep

\* Who was chosen and is there is the owner, whichever set of pages is asked about.
LEMMA OwnerStays ==
    ASSUME NEW folk \in Folks, NEW pages, NEW s \in ToSet(folk.present), s[1] \in pages,
           Login(s) = folk.owner
    PROVE  owner(folk, pages) = folk.owner
<1>1. PICK i \in DOMAIN folk.present : folk.present[i] = s
  BY DEF ToSet
<1>2. i \in Among(folk, pages) /\ LoginAt(folk, i) = folk.owner
  BY <1>1 DEF Among, LoginAt
<1> QED BY <1>2 DEF owner

\* A recovery of the role that is finished was asked of the owner that is there.
Finished ==
    \E t \in Tasks :
        LET request == Cleared.recovery IN
        /\ people' = [people EXCEPT !.owner = Login(task[t].sid)]
        /\ request.id # 0 /\ request.port = 0 /\ request.asker = task[t].sid
        /\ request.accepted \/ request.age = 1

\* What a step makes of who is there and of the owner.
LEMMA PeopleSteps ==
    ASSUME RoomSound, LineInv, LobbyNext
    PROVE  \/ people' \in {people, Designated(people, Here), Designated(people, Guests)}
           \/ people'.owner = people.owner
           \/ \E s \in Present : people' = left(s)
           \/ Finished \/ speaks_elsewhere
<1>1. CASE WorkerActs
  BY <1>1, WorkingRoom DEF roomVars
<1>2. CASE \E t \in Tasks : recovers(t)
  <2>1. PICK t \in Tasks : recovers(t)
    BY <1>2
  <2> DEFINE request == Cleared.recovery
  <2>2. \/ people' \in {Consulted, Designated(people, Guests)}
        \/ /\ request.id # 0 /\ request.asker = task[t].sid /\ request.port = 0
           /\ request.accepted \/ request.age = 1
           /\ people' = [people EXCEPT !.owner = Login(task[t].sid)]
    BY <2>1 DEF recovers
  <2> QED BY <2>2 DEF Finished, Consulted
<1>3. CASE \E g \in Guests : connect(g)
  <2>1. people \in Folks
    BY RoomFacts
  <2> QED BY <1>3, <2>1 DEF connect, Folks
<1>4. CASE \E s \in Sessions : disconnect(s)
  BY <1>4 DEF disconnect
<1>5. CASE follow_seats \/ follow_reads \/ read_room \/ speaks_elsewhere \/ request_ages
           \/ \E p \in 0..PADS : refusal_lapses(p)
  BY <1>5 DEF follow_seats, follow_reads, read_room, request_ages, refusal_lapses, Consulted
<1>6. CASE \E t \in Tasks : \/ broadcast(t) \/ tell_owner(t) \/ synchronise(t) \/ seat_reads(t)
                            \/ enters(t) \/ prepare_reads(t) \/ recover_reads(t)
  BY <1>6 DEF broadcast, tell_owner, synchronise, seat_reads, enters, prepare_reads, recover_reads,
              roomVars
<1>7. CASE \E t \in Tasks : \/ prepares(t) \/ prepare_begins(t)
                            \/ close_reads(t) \/ close_orders(t) \/ order_taken(t)
  <2>1. PICK t \in Tasks : \/ prepares(t) \/ prepare_begins(t)
                           \/ close_reads(t) \/ close_orders(t) \/ order_taken(t)
    BY <1>7
  <2>2. prepares(t) => people' = Designated(people, Here)
    BY DEF prepares
  <2>3. close_reads(t) => people' \in {people, Designated(people, Guests)}
    BY DEF close_reads
  <2> QED BY <2>1, <2>2, <2>3 DEF prepare_begins, close_orders, order_taken, roomVars
<1>8. CASE \/ \E g \in Here : \/ seat_none(g) \/ seat(g) \/ (\E p \in Chairs : agrees(g, p))
                              \/ close_game(g)
                              \/ \E act \in {"begin", "ready", "unready", "cancel", "launch"} : prepare(g, act)
           \/ \E g \in Guests : \/ \E p \in 0..PADS : recover(g, "begin", p)
                                \/ \E act \in {"yes", "no", "cancel", "finish"} : recover(g, act, 0)
  BY <1>8 DEF seat_none, seat, agrees, close_game, prepare, recover, roomVars
<1> QED BY <1>1, <1>2, <1>3, <1>4, <1>5, <1>6, <1>7, <1>8
        DEF LobbyNext, Handling, Coming, Sitting, Naming, Launching, Recoveries, WorkerActs

\* Only a recovery takes the role from who is here.
LEMMA RoleStep == LobbyInv /\ [LobbyNext]_lobbyVars => [HeldStep]_lobbyVars
<1> SUFFICES ASSUME LobbyInv, LobbyNext, people'.owner # people.owner,
                    NEW s \in Present \intersect ToSet(people'.present),
                    Login(s) = people.owner, s[1] \in Here
             PROVE  \/ /\ salon.recovery.port = 0 /\ salon.recovery.expected = people.owner
                       /\ people'.owner = Login(salon.recovery.asker)
                       /\ salon.recovery.accepted \/ salon.recovery.age = 1
                    \/ speaks_elsewhere
  BY DEF HeldStep
<1>1. RoomSound /\ LineInv /\ people \in Folks /\ s[1] \in Guests
  BY SoundRoom, RoomFacts DEF LobbyInv, Here
<1>2. people' \notin {people, Designated(people, Here), Designated(people, Guests)}
  <2>1. owner(people, Here) = people.owner /\ owner(people, Guests) = people.owner
    BY <1>1, OwnerStays DEF Present
  <2> QED BY <1>1, <2>1, OwnerType
<1>3. ASSUME NEW x \in Present, people' = left(x) PROVE FALSE
  <2> DEFINE place == CHOOSE i \in DOMAIN people.present : people.present[i] = x
             folk == [people EXCEPT !.present = RemoveAt(people.present, place)]
  <2>1. folk \in Folks /\ folk.owner = people.owner /\ people' = Designated(folk, Guests)
    BY <1>1, <1>3, LeftFolk
  <2> HIDE DEF folk
  <2>3. people'.present = folk.present /\ people'.owner = owner(folk, Guests)
    BY <2>1, OwnerType
  <2>4. owner(folk, Guests) = folk.owner
    BY <1>1, <2>1, <2>3, OwnerStays
  <2> QED BY <2>1, <2>3, <2>4
<1>4. CASE Finished
  <2>1. PICK t \in Tasks :
          /\ people' = [people EXCEPT !.owner = Login(task[t].sid)]
          /\ Cleared.recovery.id # 0 /\ Cleared.recovery.port = 0 /\ Cleared.recovery.asker = task[t].sid
          /\ Cleared.recovery.accepted \/ Cleared.recovery.age = 1
    BY <1>4 DEF Finished
  <2>2. Cleared = salon /\ Pending(salon)
    <3>1. salon \in Salons
      BY <1>1, RoomFacts
    <3>2. [salon EXCEPT !.recovery = NoRecovery].recovery.id = 0
      BY <3>1, NothingPrepared DEF Salons
    <3> QED BY <2>1, <3>2 DEF Cleared
  <2>3. owner(people, Guests) = salon.recovery.expected
    BY <2>1, <2>2 DEF Pending, still_current
  <2>4. owner(people, Guests) = people.owner
    BY <1>1, OwnerStays DEF Present
  <2>5. people'.owner = Login(task[t].sid)
    BY <1>1, <2>1 DEF Folks
  <2> QED BY <2>1, <2>2, <2>3, <2>4, <2>5
<1> QED BY <1>1, <1>2, <1>3, <1>4, PeopleSteps

\* An owner who is here stays the owner, for any pages and logins, unless a recovery
\* of the role says otherwise or another room asks for its own (people.py).
THEOREM RoleAlwaysKept == LobbySpec => RoleIsKept
BY LobbyInvariant, RoleStep, PTL DEF LobbySpec, RoleIsKept, HeldStep
=============================================================================
