-------------------------------- MODULE Doors --------------------------------
(***************************************************************************)
(* The one port of a room: who comes in, what a request is taken for, and  *)
(* the half-size stream a room may or may not offer (browser/mod.rs,       *)
(* accept_loop, serve_connection, half_offered; browser/route.rs;          *)
(* browser/page.rs; the joining of video_thread in browser/stream.rs).     *)
(*                                                                         *)
(* Every connection has a thread of its own from the start, which reads    *)
(* the request and then what the room offers; the frame loop changes the   *)
(* offer and clears the half-size viewers meanwhile.                       *)
(*                                                                         *)
(* classify looks once, at the first 1024 bytes of what has arrived by     *)
(* then, and what it does not see there was not sent as far as it knows.   *)
(* A request is thus a record of what that look shows (a handshake whose   *)
(* Upgrade lies further on is a plain request), with its origin twice:     *)
(* as it was sent, and as the look shows it.                               *)
(***************************************************************************)
EXTENDS Naturals, Sequences, FiniteSets

CONSTANTS
    Conns,              \* the connections ever opened
    MAX_CONNECTIONS,    \* threads at once: 64 in the code
    Requests            \* the requests pages send, and the silent one

VARIABLES
    backlog,            \* connections the kernel holds, not accepted yet
    door,               \* connection -> where it is
    req,                \* connection -> its request
    sockets,            \* the threads accept_loop still counts
    answer,             \* connection -> what it was answered
    half,               \* half_ready: "unknown", "yes", "no"
    clearing,           \* half_offered stored its no and has not cleared yet
    halfViewers,        \* connections whose sender is in half_viewers
    fullViewers,        \* connections whose sender is in viewers
    packed,             \* packing -> the page kept in that form, once asked for
    saidNo,             \* history: the room has once offered no half size
    crossed             \* history: half-size viewers that read the offer before
                        \* a no, and had not joined when the list was cleared

doorVars == <<backlog, door, req, sockets, answer, half, clearing, halfViewers,
              fullViewers, packed, saidNo, crossed>>

\* Origins are "absent", "own" (that of the Host header) or "other".
Silent == [says |-> "nothing"]
Asks(path, origin) == [says |-> "upgrade", path |-> path, origin |-> origin, shown |-> origin]
Gets(path, origin, packing, tag) ==
    [says |-> "plain", path |-> path, origin |-> origin, shown |-> origin, packing |-> packing, tag |-> tag]

\* The same request, its head going on beyond the look: an Origin that lies there is
\* absent, one cut short is another, and so is any without its whole Host.
Peeked(r, shown) == [r EXCEPT !.shown = shown]

Word(w) == [is |-> w]
Packings == {"raw", "gzip", "br"}
Living == {"classify", "half", "full", "sound", "input", "hand"}

ASSUME DoorsAssumption ==
    /\ MAX_CONNECTIONS \in Nat /\ Silent \in Requests
    /\ \A r \in Requests : /\ r.says \in {"nothing", "upgrade", "plain"}
                           /\ r.says = "plain" => r.packing \in Packings

DoorsTypeOK ==
    /\ backlog \in Seq(Conns) /\ door \in [Conns -> Living \union {"out", "backlog", "over"}]
    /\ req \in [Conns -> Requests] /\ sockets \subseteq Conns
    /\ half \in {"unknown", "yes", "no"} /\ {clearing, saidNo} \subseteq BOOLEAN
    /\ halfViewers \union fullViewers \union crossed \subseteq Conns
    /\ packed \in [Packings \ {"raw"} -> {"no", "packed", "raw"}]

DoorsInit ==
    /\ backlog = <<>> /\ door = [k \in Conns |-> "out"] /\ req = [k \in Conns |-> Silent]
    /\ sockets = {} /\ answer = [k \in Conns |-> Word("none")]
    /\ half = "unknown" /\ clearing = FALSE /\ halfViewers = {} /\ fullViewers = {}
    /\ packed = [p \in Packings \ {"raw"} |-> "no"] /\ saidNo = FALSE /\ crossed = {}

Now(k) == [door EXCEPT ![k] = "over"]

-----------------------------------------------------------------------------
(* accept_loop *)

Knock(k, r) ==
    /\ door[k] = "out" /\ door' = [door EXCEPT ![k] = "backlog"]
    /\ req' = [req EXCEPT ![k] = r] /\ backlog' = Append(backlog, k)
    /\ UNCHANGED <<sockets, answer, half, clearing, halfViewers, fullViewers, packed, saidNo, crossed>>

\* Mutant: threads that ended stay in the count.
reap_nothing == sockets

\* Threads that ended leave the count before it is looked at.
reap == {k \in sockets : door[k] \in Living}

\* A thread for the connection before anything is read from it, or the door shut
\* on it when MAX_CONNECTIONS threads are alive.
Accept ==
    LET k == Head(backlog) IN
    /\ backlog # <<>> /\ backlog' = Tail(backlog)
    /\ IF Cardinality(reap) >= MAX_CONNECTIONS
       THEN door' = Now(k) /\ sockets' = reap /\ answer' = [answer EXCEPT ![k] = Word("refused")]
       ELSE door' = [door EXCEPT ![k] = "classify"] /\ sockets' = reap \union {k} /\ UNCHANGED answer
    /\ UNCHANGED <<req, half, clearing, halfViewers, fullViewers, packed, saidNo, crossed>>

-----------------------------------------------------------------------------
(* classify *)

\* A request that shows no origin is let in: it is taken to come from no page.
same_origin(r) == r.shown \in {"absent", "own"}

\* Mutant: only the handshakes are asked where they come from.
classify_handshakes(r) ==
    CASE r.says = "plain" -> IF r.path \in {"formats", "roms", "art", "noart", "clip"} THEN r.path ELSE "page"
      [] r.says = "upgrade" /\ same_origin(r) /\ r.path \in {"video", "video?half=1", "sound", "input"} -> r.path
      [] OTHER -> "nobody"

\* What a request is for; "nobody" is hung up on without a word.
classify(r) ==
    CASE r.says = "plain" /\ r.path = "clip" -> IF same_origin(r) THEN "clip" ELSE "nobody"
      [] r.says = "plain" /\ r.path \in {"formats", "roms", "art", "noart"} -> r.path
      [] r.says = "plain" /\ r.path \notin {"clip", "formats", "roms", "art", "noart"} -> "page"
      [] r.says = "upgrade" /\ same_origin(r) /\ r.path \in {"video", "video?half=1", "sound", "input"} -> r.path
      [] OTHER -> "nobody"

-----------------------------------------------------------------------------
(* serve_connection, on the thread of the connection *)

Settle(k, a) == answer' = [answer EXCEPT ![k] = a] /\ door' = Now(k)

\* Nothing came before CLASSIFY_TIMEOUT, or nothing this room serves.
HangUp(k) ==
    /\ door[k] = "classify"
    /\ req[k].says = "nothing" \/ classify(req[k]) = "nobody"
    /\ Settle(k, Word("none"))
    /\ UNCHANGED <<backlog, req, sockets, half, clearing, halfViewers, fullViewers, packed, saidNo, crossed>>

Routed(k, routes) ==
    door[k] = "classify" /\ req[k].says # "nothing" /\ classify(req[k]) \in routes

\* The last seconds, or why there are none: too soon, too young a room, no muxer.
Clipped == {"clip", "429", "409", "500"}

ServeClip(k) ==
    /\ Routed(k, {"clip"}) /\ \E a \in Clipped : Settle(k, Word(a))
    /\ UNCHANGED <<backlog, req, sockets, half, clearing, halfViewers, fullViewers, packed, saidNo, crossed>>

\* The catalogue or a picture of a game: served and closed.
ServeBody(k) ==
    /\ Routed(k, {"roms", "art", "noart"})
    /\ Settle(k, Word(IF classify(req[k]) = "noart" THEN "404" ELSE classify(req[k])))
    /\ UNCHANGED <<backlog, req, sockets, half, clearing, halfViewers, fullViewers, packed, saidNo, crossed>>

\* Mutant: a room that does not know yet says no.
formats_guess == IF half = "yes" THEN "half" ELSE "nohalf"

\* Not known yet is said as such, never as a no.
formats == CASE half = "yes" -> "half" [] half = "no" -> "nohalf" [] OTHER -> "503"

ServeFormats(k) ==
    /\ Routed(k, {"formats"}) /\ Settle(k, Word(formats))
    /\ UNCHANGED <<backlog, req, sockets, half, clearing, halfViewers, fullViewers, packed, saidNo, crossed>>

\* Mutant: the encoding asked for is announced over whatever bytes are kept.
encoding_asked(p, kept) == p

\* What is announced follows the bytes: packing that failed kept them raw.
encoding(p, kept) == IF kept = "raw" THEN "raw" ELSE p

\* The page: nothing if the browser has it, else packed at the first request of
\* its kind and kept for all the others.
ServePage(k) ==
    LET p == req[k].packing IN
    /\ Routed(k, {"page"})
    /\ IF req[k].tag = "current"
       THEN Settle(k, Word("304")) /\ UNCHANGED packed
       ELSE \E kept \in IF p = "raw" THEN {"raw"} ELSE IF packed[p] = "no" THEN {"packed", "raw"} ELSE {packed[p]} :
              /\ Settle(k, [is |-> "page", as |-> encoding(p, kept), bytes |-> kept])
              /\ packed' = IF p = "raw" THEN packed ELSE [packed EXCEPT ![p] = kept]
    /\ UNCHANGED <<backlog, req, sockets, half, clearing, halfViewers, fullViewers, saidNo, crossed>>

\* The half size, when the room is known not to have it.
ServeMissing(k) ==
    /\ Routed(k, {"video?half=1"}) /\ half = "no" /\ Settle(k, Word("404"))
    /\ UNCHANGED <<backlog, req, sockets, half, clearing, halfViewers, fullViewers, packed, saidNo, crossed>>

\* Everything else goes on to its own thread function, the offer read only now.
HandOver(k) ==
    /\ \/ Routed(k, {"video", "sound", "input"})
       \/ Routed(k, {"video?half=1"}) /\ half # "no"
    /\ door' = [door EXCEPT ![k] = "hand"]
    /\ UNCHANGED <<backlog, req, sockets, answer, half, clearing, halfViewers, fullViewers, packed, saidNo, crossed>>

\* The handshake is done and the sender listed; or the handshake failed.
JoinStream(k) ==
    LET route == classify(req[k]) IN
    /\ door[k] = "hand"
    /\ \/ /\ door' = [door EXCEPT ![k] = CASE route = "video" -> "full" [] route = "video?half=1" -> "half"
                                           [] OTHER -> route]
          /\ halfViewers' = IF route = "video?half=1" THEN halfViewers \union {k} ELSE halfViewers
          /\ fullViewers' = IF route = "video" THEN fullViewers \union {k} ELSE fullViewers
       \/ door' = Now(k) /\ UNCHANGED <<halfViewers, fullViewers>>
    /\ UNCHANGED <<backlog, req, sockets, answer, half, clearing, packed, saidNo, crossed>>

\* The page goes, or a viewer's sender was dropped and its thread ends.
LeaveStream(k) ==
    /\ door[k] \in {"half", "full", "sound", "input"} /\ door' = Now(k)
    /\ UNCHANGED <<backlog, req, sockets, answer, half, clearing, halfViewers, fullViewers, packed, saidNo, crossed>>

-----------------------------------------------------------------------------
(* The frame loop *)

\* Mutant: the no is stored and the viewers left where they are.
half_offered_keeps(offered) ==
    /\ ~clearing /\ half' = (IF offered THEN "yes" ELSE "no")
    /\ saidNo' = (saidNo \/ ~offered)
    /\ UNCHANGED <<backlog, door, req, sockets, answer, clearing, halfViewers, fullViewers, packed, crossed>>

\* A chain of encoders was built, at the start or for a ring of another size.
half_offered(offered) ==
    /\ ~clearing /\ half' = (IF offered THEN "yes" ELSE "no")
    /\ clearing' = ~offered /\ saidNo' = (saidNo \/ ~offered)
    /\ UNCHANGED <<backlog, door, req, sockets, answer, halfViewers, fullViewers, packed, crossed>>

\* The second half of a no: the half-size viewers are cleared.
ClearHalf ==
    /\ clearing /\ clearing' = FALSE /\ halfViewers' = {}
    /\ crossed' = crossed \union {k \in Conns : door[k] = "hand"}
    /\ UNCHANGED <<backlog, door, req, sockets, answer, half, fullViewers, packed, saidNo>>

\* A picture is delivered to each list that has one to show; senders whose thread
\* ended are forgotten then, and only then.
Deliver ==
    /\ fullViewers' = {k \in fullViewers : door[k] = "full"}
    /\ halfViewers' = IF half = "yes" THEN {k \in halfViewers : door[k] = "half"} ELSE halfViewers
    /\ <<fullViewers, halfViewers>>' # <<fullViewers, halfViewers>>
    /\ UNCHANGED <<backlog, door, req, sockets, answer, half, clearing, packed, saidNo, crossed>>

DoorsNext ==
    \/ Accept \/ ClearHalf \/ Deliver \/ \E offered \in BOOLEAN : half_offered(offered)
    \/ \E k \in Conns :
         \/ HangUp(k) \/ ServeClip(k) \/ ServeBody(k) \/ ServeFormats(k) \/ ServePage(k) \/ ServeMissing(k)
         \/ HandOver(k) \/ JoinStream(k) \/ LeaveStream(k) \/ \E r \in Requests : Knock(k, r)

DoorsSpec == DoorsInit /\ [][DoorsNext]_doorVars

-----------------------------------------------------------------------------
\* A page is turned away only when MAX_CONNECTIONS others are really there, and no
\* more threads than that ever live: those that ended do not count (accept_loop).
RefusedOnlyWhenFull ==
    [][\A k \in Conns : answer'[k].is = "refused" /\ answer[k].is # "refused" =>
          Cardinality({j \in Conns : door[j] \in Living}) = MAX_CONNECTIONS]_doorVars

\* A page of another site gets no stream, no pad and no clip out of a room, unless
\* its Origin is not wholly in what was looked at (classify, same_origin).
OnlyOwnPagesComeIn ==
    \A k \in Conns :
        door[k] \in {"hand", "half", "full", "sound", "input"} \/ answer[k].is \in Clipped
            => req[k].origin \in {"absent", "own"} \/ req[k].shown # req[k].origin

\* No page is told the half size is missing while the room could not know: it
\* would settle for the full size without having asked (serve_connection).
NoEarlyNo == \A k \in Conns : answer[k].is = "nohalf" => saidNo

\* The page served can be read: the encoding announced is that of the bytes, for
\* every packing and whichever request had them packed first (packed, serve_page).
PageIsReadable ==
    \A k \in Conns : answer[k].is = "page" => ((answer[k].as = "raw") <=> (answer[k].bytes = "raw"))

\* Once a no is said and the list cleared, the only viewers left on a stream that
\* never comes are those who read the offer before it (half_offered).
DarkOnlyByCrossing == half = "no" /\ ~clearing => halfViewers \subseteq crossed
=============================================================================
