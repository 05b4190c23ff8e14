------------------------------- MODULE Lobby -------------------------------
(***************************************************************************)
(* The lobby's room (control/nel3ab_control: api/ws/server.py, handlers.py, *)
(* recovery.py, api/controllers/rooms.py, people.py, preparation.py,       *)
(* recovery.py, worker.py).  The worker gives the seats; the lobby keeps a *)
(* copy of its table, under which it writes the names of its sessions, and *)
(* tells it whose seat decides.                                            *)
(*                                                                         *)
(* One thread runs every handler, and a handler may be left only where it  *)
(* awaits: a lock, an answer of the worker's control port, the library.  A *)
(* task is a handler on its way between two such places, and a step of it  *)
(* is all it does from one to the next.  The locks need no variable: a     *)
(* task is inside one between two places of its way.                       *)
(*                                                                         *)
(* The room is room 1, the one `recover` and GET /room always speak of.    *)
(* Everybody has an identity, as behind the proxy, and the library was     *)
(* read once.  Left out: the names and the journal, the limits of rate     *)
(* (they only refuse), the announcement of a launch, the game that runs.   *)
(***************************************************************************)
EXTENDS Integers, Sequences, SequencesExt, FiniteSets

CONSTANTS
    Guests,         \* the pages
    Away,           \* those of another room
    LoginOf,        \* page -> who is in front of it
    NoLogin,        \* nobody
    Mute,           \* the answer of a worker that does not answer
    PADS,           \* the seats of the room are 1..PADS
    MaxTasks,       \* bound: handlers of messages in flight at once
    MaxVisits,      \* bound: sessions of one page
    MaxGiven,       \* bound: seats the worker gives
    MaxProcesses,   \* bound: processes of the worker
    MaxLate,        \* bound: answers of the worker that do not come in time
    MaxBegun        \* bound: preparations, and recoveries, begun

Tables == [1..PADS -> 0..MaxGiven]

ASSUME LobbyAssumption ==
    /\ Away \subseteq Guests /\ PADS \in Nat
    /\ \A g \in Guests : LoginOf[g] # NoLogin
    /\ Mute \notin Tables \union {"ok", "no"}
    /\ {MaxTasks, MaxVisits, MaxGiven, MaxProcesses, MaxLate, MaxBegun} \subseteq Nat
    /\ MaxProcesses # 0

VARIABLES
    table,      \* the worker: seat -> the receipt it gave, 0 when free
    takers,     \* history: the page each receipt was given to, for which seat
    obeyed,     \* the seat the worker lets decide, 0 for nobody in particular
    accepted,   \* what it accepted, a launch or a stop, and its main loop has not done yet
    process,    \* the number of its process
    line,       \* the orders on its control port, served one by one, until their
                \* answer is taken
    people,     \* PeopleController: the sessions, in order of arrival, and the owner
    visits,     \* page -> sessions it has opened
    salon,      \* RoomController
    task,       \* the handlers in flight; Follow is the one that never ends
    painted,    \* the room as the pages were last told it
    said,       \* history: receipt -> the preparation it is ready for, and who said so
    late,       \* history: answers that came too late
    unsaid      \* history: a change was read and told to nobody, or was already
                \* past when it was told

workerVars == <<table, takers, obeyed, accepted, process>>
roomVars == <<people, salon, painted, said, unsaid>>
lobbyVars == <<workerVars, line, visits, task, late, roomVars>>

Follow == 0
Tasks == 0..MaxTasks
Here == Guests \ Away
Chairs == 1..PADS
Sessions == Guests \X (1..MaxVisits)
NoSession == <<NoLogin, 0>>
Login(s) == LoginOf[s[1]]
NoTable == [p \in Chairs |-> 0]

-----------------------------------------------------------------------------
(* PeopleController *)

Present == ToSet(people.present)

\* Those of a set of pages, by order of arrival.
Among(folk, pages) == {i \in DOMAIN folk.present : folk.present[i][1] \in pages}
LoginAt(folk, i) == Login(folk.present[i])

\* Mutant: the first who came.
owner_first(folk, pages) ==
    LET there == Among(folk, pages) IN IF there = {} THEN NoLogin ELSE LoginAt(folk, Min(there))

\* owner: the chosen one if they are there, else the first who is.
owner(folk, pages) ==
    LET there == Among(folk, pages)
    IN  IF \E i \in there : LoginAt(folk, i) = folk.owner THEN folk.owner
        ELSE IF there = {} THEN NoLogin ELSE LoginAt(folk, Min(there))

\* Asking for it writes it down, whichever room is asked about.
Designated(folk, pages) == [folk EXCEPT !.owner = owner(folk, pages)]

left(s) ==
    LET place == CHOOSE i \in DOMAIN people.present : people.present[i] = s
    IN  Designated([people EXCEPT !.present = RemoveAt(@, place)], Guests)

-----------------------------------------------------------------------------
(* RoomController.  Each takes the room and returns what becomes of it. *)

NoPreparation ==
    [id |-> 0, starter |-> 0, players |-> [p \in Chairs |-> [claim |-> 0, ready |-> FALSE]]]
NoRecovery == [id |-> 0, asker |-> NoSession, targets |-> {}, port |-> 0, expected |-> 0,
               age |-> 0, accepted |-> FALSE]

seat_of(room, s) == IF \E p \in Chairs : room.claims[p] = s
                    THEN CHOOSE p \in Chairs : room.claims[p] = s ELSE 0

release(room, S) ==
    [room EXCEPT !.claims = [p \in Chairs |-> IF @[p] \in S THEN NoSession ELSE @[p]],
                 !.receipts = [s \in Sessions |-> IF s \in S THEN 0 ELSE @[s]]]

\* Mutant: a name leaves only with the seat itself, whoever has taken it since.
StaleByNumber(room, seen) ==
    {s \in Sessions : \E p \in Chairs : room.claims[p] = s /\ seen[p] = 0}

\* The sessions whose receipt is no longer that of their seat.
Stale(room, seen) ==
    {s \in Sessions : \E p \in Chairs :
        room.claims[p] = s /\ (room.receipts[s] = 0 \/ room.receipts[s] # seen[p])}

Changes(room, seen) == seen # room.known \/ Stale(room, seen) # {}

\* An order that never came back reads no seat: the last table is kept.
observe_seats(room, seen) ==
    IF seen = Mute THEN room
    ELSE [release(room, Stale(room, seen)) EXCEPT
            !.known = seen, !.told = IF Changes(room, seen) THEN -1 ELSE @]

forget_absent(room) ==
    release(room, {room.claims[p] : p \in Chairs} \ (Present \union {NoSession}))

\* claim: a session has one seat; a refusal leaves the others as they are.
Claimed(room, s, port, claim) ==
    IF (room.known # Mute => claim = room.known[port]) /\ room.claims[port] \in {NoSession, s}
    THEN [room EXCEPT
            !.claims = [p \in Chairs |-> IF p = port THEN s ELSE IF @[p] = s THEN NoSession ELSE @[p]],
            !.receipts[s] = claim]
    ELSE room

announced(room, s, port, claim) == room.claims[port] = s /\ room.receipts[s] = claim

SeatsOf(room) == IF room.known = Mute THEN NoTable ELSE room.known

\* Mutant: the seat keeps the choice of whoever sat there.
Reconfirmed_by_seat(prep, known) ==
    [p \in Chairs |-> [claim |-> known[p], ready |-> known[p] # 0 /\ prep.players[p].ready]]

\* Preparation.synchronise: a new attribution confirms its own choice ...
Reconfirmed(prep, known) ==
    [p \in Chairs |->
        [claim |-> known[p],
         ready |-> known[p] # 0 /\ \E q \in Chairs : /\ prep.players[q].claim = known[p]
                                                     /\ prep.players[q].ready]]

\* ... and without the one who began it there is no preparation.
Prepared(room) ==
    IF room.prep.id # 0 /\ \E p \in Chairs : SeatsOf(room)[p] = room.prep.starter
    THEN [room EXCEPT !.prep.players = Reconfirmed(room.prep, SeatsOf(room))]
    ELSE [room EXCEPT !.prep = NoPreparation]

\* Preparation.launch: every player is ready.
EveryoneReady(prep) == \A p \in Chairs : prep.players[p].claim # 0 => prep.players[p].ready

\* What describe makes of the room for the pages: the sessions under the seats, the
\* table, the owner's seat (that of the last of their sessions), the preparation.
describe(room, folk) ==
    LET seated == {i \in Among(folk, Here) :
                      LoginAt(folk, i) = owner(folk, Here) /\ seat_of(room, folk.present[i]) # 0}
    IN  [names |-> room.claims, prep |-> room.prep.id,
         seat |-> IF seated = {} THEN 0 ELSE seat_of(room, folk.present[Max(seated)])]

-----------------------------------------------------------------------------
(* Tasks and the control port. *)

NoMessage == [act |-> "none", port |-> 0, claim |-> 0, id |-> 0]
NoTask == [op |-> "none", sid |-> NoSession, pc |-> "idle", message |-> NoMessage,
           answer |-> Mute, view |-> Mute]
Stands(t, pc) == task[t].pc = pc
Inside(op, pcs) == \E t \in Tasks : task[t].op \in op /\ task[t].pc \in pcs

\* The three locks of the room.
Syncing == Inside({"seat", "follow", "prepare"}, {"seats"})
Preparing == Inside({"prepare", "close"}, {"sync", "seats", "describe", "decides", "library",
                                            "launch", "stop", "broadcast", "owner"})
Recovering == Inside({"recover"}, {"seats", "broadcast", "owner"})

Message(act, port, claim, id) == [act |-> act, port |-> port, claim |-> claim, id |-> id]

\* The first place of `task` that is free.
Vacant == {t \in Tasks \ {Follow} : Stands(t, "idle") /\ \A u \in 1..(t - 1) : ~Stands(u, "idle")}

Begins(op, s, pc, message) ==
    \E t \in Vacant : task' = [task EXCEPT ![t] =
        [NoTask EXCEPT !.op = op, !.sid = s, !.pc = pc, !.message = message]]

Goes(t, pc) == task' = [task EXCEPT ![t].pc = pc, ![t].answer = Mute]
Ends(t) == task' = [task EXCEPT ![t] = NoTask]

\* An order sent, whose answer is awaited at `pc`; `about` is its argument.
Orders(t, pc, about, entry) ==
    /\ line' = Append(line, [by |-> t, what |-> pc, about |-> about, done |-> FALSE])
    /\ task' = [task EXCEPT ![t] = [entry EXCEPT !.pc = pc]]
Asks_seats(t, entry) == Orders(t, "seats", 0, entry)

\* synchronise: the seats are asked for at once, or when the lock is given back.
Synchronises(t, entry) ==
    IF Syncing THEN task' = [task EXCEPT ![t] = [entry EXCEPT !.pc = "sync"]] /\ UNCHANGED line
    ELSE Asks_seats(t, entry)

\* What is left to do of a handler is the broadcast.
Tells(t) == task' = [task EXCEPT ![t] = [NoTask EXCEPT !.pc = "broadcast",
                !.op = IF task[t].op = "seat" THEN "tell" ELSE task[t].op]]

\* The answers reach the handlers in the order the worker gave them; what it will
\* not answer any more is no answer.
Answered(t, pc) ==
    /\ Stands(t, pc)
    /\ \A i \in DOMAIN line : line[i].by = t => i = 1 /\ line[i].done
Taken(t) == line' = IF line # <<>> /\ Head(line).by = t THEN Tail(line) ELSE line

\* What the pages are told, and whether it is the room as it has become.
Paints(view, room, folk) == painted' = view /\ unsaid' = (view # describe(room, folk))

\* What changes the room without a broadcast to come.
Untold == unsaid' = (unsaid \/ describe(salon', people') # describe(salon, people))

NotSaid == [id |-> 0, by |-> NoLogin]

LobbyInit ==
    /\ table = NoTable /\ takers = <<>> /\ obeyed = 0 /\ accepted = "nothing" /\ process = 1
    /\ line = <<>> /\ visits = [g \in Guests |-> 0]
    /\ people = [present |-> <<>>, owner |-> NoLogin]
    /\ salon = [claims |-> [p \in Chairs |-> NoSession], receipts |-> [s \in Sessions |-> 0],
                known |-> Mute, told |-> 0,
                prep |-> NoPreparation, recovery |-> NoRecovery,
                refused |-> [p \in 0..PADS |-> 0], begun |-> 0]
    /\ task = [t \in Tasks |-> NoTask]
    /\ painted = describe(salon, people)
    /\ said = [r \in 1..MaxGiven |-> NotSaid]
    /\ late = 0 /\ unsaid = FALSE

-----------------------------------------------------------------------------
(* The worker: seats, orders, its end. *)

\* A seat somebody names, free or not, or the first that is free.  A page loaded
\* again may be given one before the one it had is let go.
worker_gives(g, p) ==
    /\ Len(takers) < MaxGiven
    /\ takers' = Append(takers, <<g, p>>)
    /\ table' = [table EXCEPT ![p] = Len(takers')]
    /\ UNCHANGED <<obeyed, accepted, process, line, visits, task, late, roomVars>>

\* The socket of a pad ends, from either side.
pad_ends(p) ==
    /\ table[p] # 0
    /\ table' = [table EXCEPT ![p] = 0]
    /\ UNCHANGED <<takers, obeyed, accepted, process, line, visits, task, late, roomVars>>

\* The process ends, for the launch it accepted or of itself: its seats, its orders
\* and the connections to its control port with it.
worker_ends ==
    /\ process < MaxProcesses
    /\ process' = process + 1
    /\ table' = NoTable /\ obeyed' = 0 /\ accepted' = "nothing"
    /\ \E n \in 0..Len(line) :
        /\ \A i \in 1..n : line[i].done
        /\ n < Len(line) => ~line[n + 1].done
        /\ line' = SubSeq(line, 1, n)
    /\ UNCHANGED <<takers, visits, task, late, roomVars>>

\* What was accepted could not be kept on disk: the game goes on without it.
worker_drops ==
    /\ accepted # "nothing" /\ accepted' = "nothing"
    /\ UNCHANGED <<table, takers, obeyed, process, line, visits, task, late, roomVars>>

\* What an order of the line may be answered (control::serve).  Whether a seat decides
\* is up to the rule of the worker, which knows who is idle, and a page may have
\* asked for a game of itself, which refuses the stop.
Answers(order) ==
    CASE order.what = "seats" -> {table}
      [] order.what = "owner" -> {"ok"}
      [] order.what = "decides" -> {"ok", "no"}
      [] order.what = "launch" ->
            IF order.about = table /\ accepted = "nothing" THEN {"ok", "no"} ELSE {"no"}
      [] order.what = "stop" ->
            IF order.about = table /\ accepted # "launch" THEN {"ok", "no"} ELSE {"no"}

\* The orders are served one by one, as they came.
Next_served(i) == ~line[i].done /\ \A j \in 1..(i - 1) : line[j].done

serves ==
    \E i \in DOMAIN line :
        LET order == line[i] IN
        /\ Next_served(i)
        /\ \E answer \in Answers(order) :
            /\ obeyed' = IF order.what = "owner" THEN order.about ELSE obeyed
            /\ accepted' = IF order.what \in {"launch", "stop"} /\ answer = "ok" THEN order.what
                           ELSE accepted
            /\ IF order.by \in Tasks
               THEN /\ task' = [task EXCEPT ![order.by].answer = answer]
                    /\ line' = [line EXCEPT ![i].done = TRUE]
               ELSE line' = RemoveAt(line, i) /\ UNCHANGED task
        /\ UNCHANGED <<table, takers, process, visits, late, roomVars>>

\* fail_after(2): the lobby gives up, the order stays in the worker's line.
times_out(t) ==
    /\ late < MaxLate /\ late' = late + 1
    /\ \E i \in DOMAIN line : line[i].by = t /\ ~line[i].done /\ line' = [line EXCEPT ![i].by = -1]
    /\ UNCHANGED <<workerVars, visits, task, roomVars>>

-----------------------------------------------------------------------------
(* Broadcast, and the loop that never ends. *)

\* describe, then the owner's seat to the worker if it is not the one told last ...
broadcast(t) ==
    /\ Stands(t, "broadcast")
    /\ salon' = Prepared(salon)
    /\ people' = Designated(people, Here)
    /\ LET view == describe(salon', people')
       IN  IF view.seat # salon.told
           THEN /\ Orders(t, "owner", view.seat, [task[t] EXCEPT !.view = view])
                /\ UNCHANGED <<painted, unsaid>>
           ELSE /\ Paints(view, salon', people')
                /\ Ends(t) /\ UNCHANGED line
    /\ UNCHANGED <<workerVars, visits, late, said>>

\* ... then the pages, of the room as it was described.
tell_owner(t) ==
    /\ Answered(t, "owner")
    /\ LET view == task[t].view
       IN  /\ salon' = IF task[t].answer = "ok" THEN [salon EXCEPT !.told = view.seat] ELSE salon
           /\ Paints(view, salon', people)
    /\ Ends(t)
    /\ Taken(t)
    /\ UNCHANGED <<workerVars, visits, late, people, said>>

\* A request of recovery outlives neither its asker nor what it aims at.
still_current(room, folk) ==
    LET request == room.recovery
    IN  /\ request.asker \in Present
        /\ IF request.port = 0 THEN owner(folk, Guests) = request.expected
           ELSE SeatsOf(room)[request.port] = request.expected
Pending(room) == room.recovery.id # 0 /\ room.recovery.age < 2 /\ still_current(room, people)
Cleared == IF Pending(salon) THEN salon ELSE [salon EXCEPT !.recovery = NoRecovery]
Consulted == IF salon.recovery.id # 0 /\ salon.recovery.port = 0 THEN Designated(people, Guests)
             ELSE people

\* follow_seats: once a second, it expires the request and reads the seats if
\* somebody is here.
follow_seats ==
    /\ Stands(Follow, "idle") /\ ~Recovering
    /\ salon' = Cleared /\ people' = Consulted
    /\ IF Among(people, Here) = {} THEN UNCHANGED <<task, line>>
       ELSE Synchronises(Follow, [NoTask EXCEPT !.op = "follow"])
    /\ UNCHANGED <<workerVars, visits, late, painted, said>>
    /\ Untold

\* synchronise, for whoever has come to it.
synchronise(t) ==
    /\ Stands(t, "sync") /\ ~Syncing
    /\ Asks_seats(t, task[t])
    /\ UNCHANGED <<workerVars, visits, late, roomVars>>

follow_reads ==
    /\ Answered(Follow, "seats")
    /\ LET seen == task[Follow].answer
       IN  /\ salon' = observe_seats(salon, seen)
           /\ IF seen # Mute /\ Changes(salon, seen) THEN Tells(Follow) ELSE Ends(Follow)
    /\ Taken(Follow)
    /\ UNCHANGED <<workerVars, visits, late, people, painted, said, unsaid>>

-----------------------------------------------------------------------------
(* Pages come, go, and say what pad they have. *)

connect(g) ==
    /\ visits[g] < MaxVisits
    /\ visits' = [visits EXCEPT ![g] = @ + 1]
    /\ people' = [people EXCEPT !.present = Append(@, <<g, visits'[g]>>)]
    /\ IF g \in Here THEN Begins("tell", NoSession, "broadcast", NoMessage)
       ELSE UNCHANGED task
    /\ UNCHANGED <<workerVars, line, late, salon, painted, said, unsaid>>

disconnect(s) ==
    /\ s \in Present
    /\ people' = left(s)
    /\ salon' = release(salon, {s})
    /\ IF s[1] \in Here THEN Begins("tell", NoSession, "broadcast", NoMessage) /\ UNCHANGED unsaid
       ELSE UNCHANGED task /\ Untold
    /\ UNCHANGED <<workerVars, line, visits, late, painted, said>>

\* A page speaks through the last session it opened.
Speaks(g) == g \in Here /\ <<g, visits[g]>> \in Present

\* seat, of a page that has none, or was loaded again: nothing is awaited.
seat_none(g) ==
    LET s == <<g, visits[g]>> IN
    /\ Speaks(g) /\ seat_of(salon, s) # 0
    /\ salon' = release(salon, {s})
    /\ Begins("tell", NoSession, "broadcast", NoMessage)
    /\ UNCHANGED <<workerVars, line, visits, late, people, painted, said, unsaid>>

\* seat, of one that was given a seat, though it may have lost it without knowing:
\* the table is read again first.
seat(g) ==
    LET s == <<g, visits[g]>>
        given == {r \in DOMAIN takers : takers[r][1] = g}
    IN
    /\ Speaks(g)
    /\ \E r \in given, t \in Vacant :
        /\ \A q \in given : q <= r
        /\ ~announced(salon, s, takers[r][2], r)
        /\ Synchronises(t, [NoTask EXCEPT !.op = "seat", !.sid = s,
                                !.message = Message("seat", takers[r][2], r, 0)])
    /\ UNCHANGED <<workerVars, visits, late, roomVars>>
seat_reads(t) ==
    /\ Answered(t, "seats") /\ task[t].op = "seat"
    /\ LET m == task[t].message
       IN  salon' = Claimed(forget_absent(observe_seats(salon, task[t].answer)),
                            task[t].sid, m.port, m.claim)
    /\ Tells(t)
    /\ Taken(t)
    /\ UNCHANGED <<workerVars, visits, late, people, painted, said, unsaid>>

\* answer: the holder, asked for the seat by another, gives the name away.
agrees(g, p) ==
    /\ Speaks(g) /\ salon.claims[p] = <<g, visits[g]>> /\ \E h \in Here \ {g} : visits[h] # 0
    /\ salon' = [salon EXCEPT !.claims[p] = NoSession]
    /\ Begins("tell", NoSession, "broadcast", NoMessage)
    /\ UNCHANGED <<workerVars, line, visits, late, people, painted, said, unsaid>>

\* GET /room describes the room to one page.
read_room ==
    /\ salon' = Prepared(salon) /\ people' = Designated(people, Here)
    /\ UNCHANGED <<workerVars, line, visits, late, task, painted, said>>
    /\ Untold

\* Another room describes itself: it asks who its owner is.
speaks_elsewhere ==
    /\ Away # {} /\ people' = Designated(people, Away)
    /\ UNCHANGED <<workerVars, line, visits, late, task, salon, painted, said>>
    /\ Untold

-----------------------------------------------------------------------------
(* A game is prepared, launched, closed: one handler of these at a time. *)

prepare(g, act) ==
    /\ Speaks(g) /\ (act = "begin" => salon.begun < MaxBegun)
    /\ Begins("prepare", <<g, visits[g]>>, "enter", Message(act, 0, 0, painted.prep))
    /\ UNCHANGED <<workerVars, line, visits, late, roomVars>>

close_game(g) ==
    /\ Speaks(g)
    /\ Begins("close", <<g, visits[g]>>, "enter", NoMessage)
    /\ UNCHANGED <<workerVars, line, visits, late, roomVars>>

\* The lock once taken, one synchronises, the other reads the seats by itself.
enters(t) ==
    /\ Stands(t, "enter") /\ ~Preparing
    /\ \/ task[t].op = "prepare" /\ Synchronises(t, task[t])
       \/ task[t].op = "close" /\ Asks_seats(t, task[t])
    /\ UNCHANGED <<workerVars, visits, late, roomVars>>

prepare_reads(t) ==
    /\ Answered(t, "seats") /\ task[t].op = "prepare"
    /\ salon' = observe_seats(salon, task[t].answer)
    /\ Goes(t, "describe")
    /\ Taken(t)
    /\ UNCHANGED <<workerVars, visits, late, people, painted, said>>
    /\ Untold

\* What the page asks, of the room as it is now described: a seat of one's own, and
\* for all but `begin` the preparation one speaks of.
prepares(t) ==
    LET m == task[t].message
        room == Prepared(salon)
        s == task[t].sid
        port == seat_of(room, s)
        claim == IF port = 0 THEN 0 ELSE SeatsOf(room)[port]
        spoken == room.prep.id # 0 /\ m.id = room.prep.id
        mine == {p \in Chairs : room.prep.players[p].claim = claim}
    IN
    /\ Stands(t, "describe")
    /\ people' = Designated(people, Here)
    /\ \/ /\ claim # 0 /\ m.act = "begin"
          /\ Orders(t, "decides", port, [task[t] EXCEPT !.message.claim = claim,
                                                        !.view = SeatsOf(room)])
          /\ salon' = room /\ UNCHANGED said
       \/ /\ claim # 0 /\ spoken /\ m.act \in {"ready", "unready"}
          /\ salon' = [room EXCEPT !.prep.players =
                [p \in Chairs |-> IF p \in mine THEN [@[p] EXCEPT !.ready = m.act = "ready"] ELSE @[p]]]
          /\ said' = [said EXCEPT ![claim] = IF m.act = "ready" THEN [id |-> m.id, by |-> s[1]]
                                             ELSE NotSaid]
          /\ Tells(t) /\ UNCHANGED line
       \/ /\ claim # 0 /\ spoken /\ m.act = "cancel" /\ claim = room.prep.starter
          /\ salon' = [room EXCEPT !.prep = NoPreparation]
          /\ Tells(t) /\ UNCHANGED <<line, said>>
       \/ /\ claim # 0 /\ spoken /\ m.act = "launch" /\ claim = room.prep.starter
          /\ EveryoneReady(room.prep)
          /\ Orders(t, "launch", SeatsOf(room), task[t])
          /\ salon' = room /\ UNCHANGED said
       \/ /\ \/ claim = 0
             \/ m.act # "begin" /\ ~spoken
             \/ m.act \in {"cancel", "launch"} /\ claim # room.prep.starter
             \/ m.act = "launch" /\ ~EveryoneReady(room.prep)
          /\ salon' = room
          /\ Ends(t) /\ UNCHANGED <<line, said>>
    /\ UNCHANGED <<workerVars, visits, late, painted>>
    /\ Untold

\* begin, once the worker said the seat decides: for those it saw seated before.
prepare_begins(t) ==
    /\ Answered(t, "decides")
    /\ IF task[t].answer = "ok" /\ salon.prep.id = 0
       THEN /\ salon' = [salon EXCEPT !.begun = @ + 1,
                            !.prep = [id |-> salon.begun + 1, starter |-> task[t].message.claim,
                                      players |-> [p \in Chairs |-> [claim |-> task[t].view[p],
                                                                     ready |-> FALSE]]]]
            /\ Tells(t)
       ELSE Ends(t) /\ UNCHANGED salon
    /\ Taken(t)
    /\ UNCHANGED <<workerVars, visits, late, people, painted, said, unsaid>>

close_reads(t) ==
    LET seen == task[t].answer
        folk == Designated(people, Guests)
    IN
    /\ Answered(t, "seats") /\ task[t].op = "close"
    /\ salon' = observe_seats(salon, seen)
    /\ people' = IF seen = Mute THEN people ELSE folk
    /\ IF seen # Mute /\ Login(task[t].sid) = folk.owner
       THEN task' = [task EXCEPT ![t].pc = "library", ![t].answer = Mute, ![t].view = seen]
       ELSE Ends(t)
    /\ Taken(t)
    /\ UNCHANGED <<workerVars, visits, late, painted, said>>
    /\ Untold
close_orders(t) ==
    /\ Stands(t, "library")
    /\ \/ Orders(t, "stop", task[t].view, task[t])
       \/ Ends(t) /\ UNCHANGED line         \* another game runs than the one the page saw
    /\ UNCHANGED <<workerVars, visits, late, roomVars>>

\* The worker took the launch, or the stop: nothing is prepared any more.
order_taken(t) ==
    /\ Answered(t, "launch") \/ Answered(t, "stop")
    /\ IF task[t].answer = "ok"
       THEN salon' = [salon EXCEPT !.prep = NoPreparation] /\ Tells(t)
       ELSE Ends(t) /\ UNCHANGED salon
    /\ Taken(t)
    /\ UNCHANGED <<workerVars, visits, late, people, painted, said, unsaid>>

-----------------------------------------------------------------------------
(* Recovery of a seat, or (seat 0) of the role of owner. *)

recover(g, act, port) ==
    /\ <<g, visits[g]>> \in Present /\ (act = "begin" => salon.begun < MaxBegun)
    /\ Begins("recover", <<g, visits[g]>>, "enter", Message(act, port, 0, salon.recovery.id))
    /\ UNCHANGED <<workerVars, line, visits, late, roomVars>>

\* The clock: twenty seconds to answer, forty more to confirm.
request_ages ==
    /\ salon.recovery.id # 0 /\ salon.recovery.age < 2
    /\ salon' = [salon EXCEPT !.recovery.age = @ + 1]
    /\ UNCHANGED <<workerVars, line, visits, late, task, people, painted, said, unsaid>>
refusal_lapses(p) ==
    /\ salon.refused[p] # 0
    /\ salon' = [salon EXCEPT !.refused[p] = 0]
    /\ UNCHANGED <<workerVars, line, visits, late, task, people, painted, said, unsaid>>

Requested(room, s, targets, port, expected) ==
    [room EXCEPT !.begun = @ + 1,
                 !.recovery = [NoRecovery EXCEPT !.id = room.begun + 1, !.asker = s,
                                !.targets = targets, !.port = port, !.expected = expected]]

\* What needs no reading of the seats is done at once.
recovers(t) ==
    LET m == task[t].message
        s == task[t].sid
        room == Cleared
        request == room.recovery
        boss == owner(Consulted, Guests)
        spoken == request.id # 0 /\ m.id = request.id
        theirs == {x \in Present : Login(x) = boss}
        begins == m.act = "begin" /\ request.id = 0
        takes == begins /\ m.port = 0 /\ boss \notin {NoLogin, Login(s), room.refused[0]}
        answers_it == m.act \in {"yes", "no"} /\ spoken /\ s \in request.targets
        cancels == m.act = "cancel" /\ spoken /\ request.asker = s
        finishes == /\ m.act = "finish" /\ spoken /\ request.asker = s
                    /\ request.accepted \/ request.age = 1
    IN
    /\ Stands(t, "enter") /\ task[t].op = "recover" /\ ~Recovering
    /\ \/ /\ takes
          /\ salon' = Requested(room, s, theirs, 0, boss)
          /\ people' = Designated(people, Guests) /\ Ends(t) /\ UNCHANGED line
       \/ /\ answers_it
          /\ salon' = IF m.act = "yes" THEN [room EXCEPT !.recovery.accepted = TRUE]
                      ELSE [room EXCEPT !.recovery = NoRecovery,
                                        !.refused[request.port] = request.expected]
          /\ people' = Consulted /\ Ends(t) /\ UNCHANGED line
       \/ /\ cancels
          /\ salon' = [room EXCEPT !.recovery = NoRecovery]
          /\ people' = Consulted /\ Ends(t) /\ UNCHANGED line
       \/ /\ finishes /\ request.port = 0
          /\ salon' = [room EXCEPT !.recovery = NoRecovery, !.told = -1]
          /\ people' = [people EXCEPT !.owner = Login(s)]
          /\ Tells(t) /\ UNCHANGED line
       \/ /\ \/ begins /\ m.port # 0
             \/ finishes /\ request.port # 0
          /\ Asks_seats(t, task[t]) /\ salon' = room /\ people' = Consulted
       \/ /\ ~(takes \/ answers_it \/ cancels \/ finishes \/ (begins /\ m.port # 0))
          /\ salon' = room
          /\ people' = IF begins THEN Designated(people, Guests) ELSE Consulted
          /\ Ends(t) /\ UNCHANGED line
    /\ UNCHANGED <<workerVars, visits, late, painted, said>>
    /\ Untold

\* The seats, read where no lock orders the reading; what has changed is told only
\* by a recovery that is finished.
recover_reads(t) ==
    LET m == task[t].message
        s == task[t].sid
        seen == task[t].answer
        room == observe_seats(salon, seen)
        holder == room.claims[m.port]
        claim == SeatsOf(room)[m.port]
    IN
    /\ Answered(t, "seats") /\ task[t].op = "recover"
    /\ \/ /\ m.act = "begin" /\ seen # Mute
          /\ holder \notin {NoSession, s} /\ claim \notin {0, room.refused[m.port]}
          /\ salon' = Requested(room, s, {holder}, m.port, claim) /\ Ends(t)
       \/ /\ m.act = "finish" /\ seen # Mute /\ still_current(room, people)
          /\ salon' = [room EXCEPT !.recovery = NoRecovery] /\ Tells(t)
       \/ /\ \/ seen = Mute
             \/ m.act = "begin" /\ (holder \in {NoSession, s} \/ claim \in {0, room.refused[m.port]})
             \/ m.act = "finish" /\ ~still_current(room, people)
          /\ salon' = room /\ Ends(t)
    /\ Taken(t)
    /\ UNCHANGED <<workerVars, visits, late, people, painted, said>>
    /\ Untold

-----------------------------------------------------------------------------
(* What runs, and the parts of it that are checked one at a time. *)

Handling ==
    \/ serves \/ follow_seats \/ follow_reads
    \/ \E t \in Tasks : broadcast(t) \/ tell_owner(t) \/ synchronise(t) \/ times_out(t)
Coming == (\E g \in Guests : connect(g)) \/ (\E s \in Sessions : disconnect(s))
Sitting ==
    \/ \E g \in Guests, p \in Chairs : worker_gives(g, p)
    \/ \E p \in Chairs : pad_ends(p)
    \/ worker_ends \/ worker_drops
Naming ==
    \/ \E g \in Here : seat_none(g) \/ seat(g) \/ \E p \in Chairs : agrees(g, p)
    \/ \E t \in Tasks : seat_reads(t)
Launching ==
    \/ \E g \in Here : \/ close_game(g)
                       \/ \E act \in {"begin", "ready", "unready", "cancel", "launch"} : prepare(g, act)
    \/ \E t \in Tasks : \/ enters(t) \/ prepare_reads(t) \/ prepares(t) \/ prepare_begins(t)
                        \/ close_reads(t) \/ close_orders(t) \/ order_taken(t)
Recoveries ==
    \/ \E g \in Guests : \/ \E p \in 0..PADS : recover(g, "begin", p)
                         \/ \E act \in {"yes", "no", "cancel", "finish"} : recover(g, act, 0)
    \/ request_ages \/ \E p \in 0..PADS : refusal_lapses(p)
    \/ \E t \in Tasks : recovers(t) \/ recover_reads(t)

LobbyNext == \/ Handling \/ Coming \/ Sitting \/ Naming \/ Launching \/ Recoveries
             \/ read_room \/ speaks_elsewhere

LobbySpec == LobbyInit /\ [][LobbyNext]_lobbyVars

-----------------------------------------------------------------------------
(* Properties. *)

LobbyTypeOK ==
    /\ table \in [Chairs -> 0..MaxGiven] /\ takers \in Seq(Guests \X Chairs) /\ Len(takers) <= MaxGiven
    /\ obeyed \in 0..PADS /\ accepted \in {"nothing", "launch", "stop"} /\ process \in 1..MaxProcesses
    /\ \A i \in DOMAIN line : line[i].by \in Tasks \union {-1}
    /\ people.present \in Seq(Sessions) /\ visits \in [Guests -> 0..MaxVisits]
    /\ salon.claims \in [Chairs -> Sessions \union {NoSession}]
    /\ salon.receipts \in [Sessions -> 0..MaxGiven]
    /\ salon.told \in -1..PADS /\ DOMAIN task = Tasks /\ painted.seat \in 0..PADS
    /\ late \in 0..MaxLate /\ unsaid \in BOOLEAN

Quiet == line = <<>> /\ \A t \in Tasks : Stands(t, "idle")

\* The name shown under a seat is that of a session of the page the worker gave that
\* very attribution to, never of who had the seat before, whichever of several
\* readings is applied last; and a session has one seat (synchronise: "jamais au
\* numéro seul", claim, release).
NamesAgree ==
    \A p \in Chairs : LET s == salon.claims[p] IN s # NoSession =>
        /\ salon.known # Mute => salon.receipts[s] = salon.known[p]
        /\ salon.receipts[s] # 0 /\ takers[salon.receipts[s]] = <<s[1], p>>
        /\ \A q \in Chairs \ {p} : salon.claims[q] # s

\* A broadcast that spares the worker its order is right to: once everything is handled
\* and the table was read from this process, the worker obeys the owner's seat if that
\* is the one told last.  A restarted worker has forgotten it (observe_seats: "Réaffirmer
\* le chef couvre donc aussi un worker redémarré").  No order was given up on: the
\* worker may obey one that was.
OwnerObeyed ==
    Quiet /\ late = 0 /\ salon.known = table /\ salon.told = describe(salon, people).seat
        => obeyed = salon.told

\* Once everything is handled the pages show the room as it is: whatever changed it
\* told them so (the broadcast every handler ends with, and follow_seats).
ShownIsSeen == Quiet /\ Among(people, Here) # {} /\ ~unsaid => painted = describe(salon, people)

\* A launch the worker accepts is of the preparation that everybody seated is ready
\* for, each under the very attribution they have as it is accepted: nobody who sat
\* down in between is taken along (Preparation.synchronise, the lock `preparing`, the
\* four receipts of the order).  An order the lobby gave up on is not spoken for.
LaunchedAsConfirmed ==
    [][accepted = "nothing" /\ accepted' = "launch" =>
        \A i \in DOMAIN line : Next_served(i) /\ line[i].by \in Tasks =>
            \A p \in Chairs : table[p] # 0 =>
                said[table[p]] = [id |-> task[line[i].by].message.id,
                                  by |-> takers[table[p]][1]]]_lobbyVars

\* An owner who is here stays the owner, whoever comes, unless a recovery of their
\* role is finished that they agreed to or had twenty seconds to refuse (owner: "L'ancien chef
\* ne repasse pas devant", recover); or unless another room asks for its own.
RoleIsKept ==
    [][people'.owner # people.owner
         /\ (\E s \in Present \intersect ToSet(people'.present) : Login(s) = people.owner /\ s[1] \in Here)
        => \/ /\ salon.recovery.port = 0 /\ salon.recovery.expected = people.owner
              /\ people'.owner = Login(salon.recovery.asker)
              /\ salon.recovery.accepted \/ salon.recovery.age = 1
           \/ speaks_elsewhere]_lobbyVars
=============================================================================
