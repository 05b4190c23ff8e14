------------------------------- MODULE Stream -------------------------------
(***************************************************************************)
(* One picture stream of a room, from the encoder to the pages that paint  *)
(* it: the frame loop of the worker (core/crates/worker/src/main.rs, run), *)
(* the delivery to the viewers' bounded queues and the thread that serves  *)
(* one viewer (core/crates/transport/src/browser/stream.rs), and the half  *)
(* of the page that receives, decodes and reconnects                       *)
(* (front/src/media/video.ts, VideoStream).                                *)
(*                                                                         *)
(* A picture that is not a key frame refers to the one encoded just before *)
(* it, so what matters of a message is whether a decoder can start on it   *)
(* and, if not, whether the page was sent the picture it refers to.  The   *)
(* code only tells "key" from the rest; the three other marks record, when *)
(* a picture enters a queue, what it is worth to whoever reads that queue: *)
(*    "early"  no key frame has entered this queue yet                     *)
(*    "next"   the picture it refers to is the previous one of this queue  *)
(*    "gap"    the picture it refers to was kept from this queue           *)
(*                                                                         *)
(* A member of Conns is a place for one socket and its thread; it is used  *)
(* again once the worker and the page have both forgotten it.              *)
(***************************************************************************)
EXTENDS Naturals, Sequences

CONSTANTS
    Pages,      \* browsers that watch this stream
    Conns,      \* sockets
    NoConn,     \* a page without a socket
    DEPTH,      \* OUTGOING_DEPTH: messages that may wait for the socket
    WIRE,       \* messages the network holds before a write blocks
    GOP,        \* pictures from one scheduled key frame to the next
    MaxFaults   \* bound: what the outside does to the pages and to the links

ASSUME SizeAssumption == /\ DEPTH \in Nat \ {0} /\ WIRE \in Nat \ {0}
                         /\ GOP \in Nat \ {0} /\ MaxFaults \in Nat
ASSUME NoConnAssumption == NoConn \notin Conns

VARIABLES
    at,         \* where the frame loop is
    wanted,     \* wanted_full, as read at the top of the frame
    forced,     \* the encoder's force_key
    sinceKey,   \* pictures encoded since the last key frame
    joined,     \* somebody joined and no key frame was ordered for it yet
    wantsKey,   \* wants_key: a request the limiter let through
    recent,     \* the limiter granted a request less than KEY_FRAME_EVERY ago
    pc,         \* connection -> where its thread is
    listed,     \* connection -> it is in the list of viewers
    resyncing,  \* connection -> a picture was refused to it: wait for a key
    queue,      \* connection -> its channel
    wire,       \* connection -> what was written and not received yet
    asks,       \* connection -> a KEY_FRAME_PLEASE on its way to the thread
    bye,        \* connection -> a Close on its way to the thread
    cut,        \* connection -> the link swallows everything, silently
    keyed,      \* connection -> a key frame has entered its queue (history)
    chained,    \* connection -> so has the last picture encoded (history)
    sock,       \* page -> the socket it listens to, or NoConn
    closing,    \* page -> it closed that socket and waits for the answer
    painting,   \* page -> the screen asks for pictures
    decoding,   \* page -> it has a decoder
    own,        \* page -> that decoder was opened on this socket (history)
    awaitingKey,\* page -> it threw pictures away: wait for a key frame
    linked,     \* page -> the decoder was given the last message (history)
    garbled,    \* page -> since its last key frame, the decoder was given a
                \*         picture whose reference it does not have (history)
    goneSince,  \* page -> decoderGoneSince is set
    asking,     \* page -> lastAsk is less than half a second old
    faults      \* how often the outside interfered (bound)

workerVars == <<at, wanted, forced, sinceKey>>
flagVars == <<joined, wantsKey, recent>>
viewerVars == <<listed, resyncing, keyed, chained>>
linkVars == <<wire, asks, bye, cut>>
connVars == <<pc, queue, viewerVars, linkVars>>
decoderVars == <<decoding, own, awaitingKey, linked, garbled, goneSince>>
pageVars == <<sock, closing, painting, decoderVars, asking>>
vars == <<workerVars, flagVars, connVars, pageVars, faults>>

Marks == {"key", "early", "next", "gap"}

\* The thread of a connection: "free" no socket, "hello" the page has opened
\* one, "joining" it is in the list and has not said so, "write" and "read"
\* the two halves of its loop, "gone" it has left.
PCs == {"free", "hello", "joining", "write", "read", "gone"}

WorkerOK ==
    /\ at \in {"look", "take", "send"}
    /\ wanted \in BOOLEAN /\ forced \in BOOLEAN
    /\ sinceKey \in 0..GOP
FlagsOK == joined \in BOOLEAN /\ wantsKey \in BOOLEAN /\ recent \in BOOLEAN
ViewersOK ==
    /\ pc \in [Conns -> PCs]
    /\ listed \in [Conns -> BOOLEAN] /\ resyncing \in [Conns -> BOOLEAN]
    /\ keyed \in [Conns -> BOOLEAN] /\ chained \in [Conns -> BOOLEAN]
    /\ queue \in [Conns -> Seq(Marks)]
LinksOK ==
    /\ wire \in [Conns -> Seq(Marks)]
    /\ asks \in [Conns -> BOOLEAN] /\ bye \in [Conns -> BOOLEAN]
    /\ cut \in [Conns -> BOOLEAN]
PagesOK ==
    /\ sock \in [Pages -> Conns \union {NoConn}]
    /\ closing \in [Pages -> BOOLEAN] /\ painting \in [Pages -> BOOLEAN]
    /\ decoding \in [Pages -> BOOLEAN] /\ own \in [Pages -> BOOLEAN]
    /\ awaitingKey \in [Pages -> BOOLEAN] /\ linked \in [Pages -> BOOLEAN]
    /\ garbled \in [Pages -> BOOLEAN] /\ goneSince \in [Pages -> BOOLEAN]
    /\ asking \in [Pages -> BOOLEAN]

\* What every variable may hold.
TypeOK == WorkerOK /\ FlagsOK /\ ViewersOK /\ LinksOK /\ PagesOK /\ faults \in Nat

None(S) == [x \in S |-> FALSE]
Empty == [c \in Conns |-> <<>>]

Init ==
    /\ at = "look" /\ wanted = FALSE /\ forced = FALSE /\ sinceKey = GOP
    /\ joined = FALSE /\ wantsKey = FALSE /\ recent = FALSE
    /\ pc = [c \in Conns |-> "free"]
    /\ listed = None(Conns) /\ resyncing = None(Conns)
    /\ keyed = None(Conns) /\ chained = None(Conns)
    /\ queue = Empty /\ wire = Empty
    /\ asks = None(Conns) /\ bye = None(Conns) /\ cut = None(Conns)
    /\ sock = [p \in Pages |-> NoConn]
    /\ closing = None(Pages) /\ painting = [p \in Pages |-> TRUE]
    /\ decoding = None(Pages) /\ own = None(Pages)
    /\ awaitingKey = None(Pages) /\ linked = None(Pages)
    /\ garbled = None(Pages) /\ goneSince = None(Pages)
    /\ asking = None(Pages)
    /\ faults = 0

-----------------------------------------------------------------------------
(***************************************************************************)
(* The limiter of key frame requests.                                      *)
(***************************************************************************)

\* Honours a request, at most one every KEY_FRAME_EVERY; the others are lost.
ask_for_key_frame(asked) ==
    /\ wantsKey' = (wantsKey \/ (asked /\ ~recent))
    /\ recent' = (recent \/ asked)

\* KEY_FRAME_EVERY has passed since the last request that was granted.
LimiterCools ==
    /\ recent
    /\ recent' = FALSE
    /\ UNCHANGED <<workerVars, joined, wantsKey, connVars, pageVars, faults>>

-----------------------------------------------------------------------------
(***************************************************************************)
(* The frame loop.                                                         *)
(***************************************************************************)

\* Is anybody watching?  Read once a frame, before the conversion.
watchers ==
    /\ at = "look"
    /\ wanted' = (\E c \in Conns : listed[c])
    /\ at' = "take"
    /\ UNCHANGED <<forced, sinceKey, flagVars, connVars, pageVars, faults>>

\* Somebody came, or somebody asked: the next picture encoded is a key frame.
\* The second request is not even looked at when the first stands.
TakeRequests ==
    /\ at = "take"
    /\ forced' = (forced \/ joined \/ wantsKey)
    /\ joined' = FALSE
    /\ wantsKey' = (wantsKey /\ joined)
    /\ at' = "send"
    /\ UNCHANGED <<wanted, sinceKey, recent, connVars, pageVars, faults>>

\* Mutant: the scheduled key frame comes one picture too late.
LateKey == forced \/ sinceKey > GOP

\* What the encoder makes of the next picture: a key frame when one was ordered,
\* or when the last one is GOP pictures old.
IsKey == forced \/ sinceKey >= GOP

\* The mark of a picture that enters the queue of connection c.
Mark(c, key) == IF key THEN "key"
                ELSE IF ~keyed[c] THEN "early"
                ELSE IF chained[c] THEN "next"
                ELSE "gap"

\* A viewer that waits for a key frame is offered nothing else.
Offered(c, key) == listed[c] /\ (key \/ ~resyncing[c])
Takes(c, key) == Offered(c, key) /\ pc[c] # "gone" /\ Len(queue[c]) < DEPTH
Refuses(c, key) == Offered(c, key) /\ pc[c] # "gone" /\ Len(queue[c]) >= DEPTH
Departed(c, key) == Offered(c, key) /\ pc[c] = "gone"

\* Mutant: a key frame the queue refuses does not count as a break.
DeliverForgivesKeys(key) ==
    /\ queue' = [c \in Conns |-> IF Takes(c, key) THEN Append(queue[c], Mark(c, key))
                                 ELSE queue[c]]
    /\ listed' = [c \in Conns |-> listed[c] /\ ~Departed(c, key)]
    /\ resyncing' = [c \in Conns |-> IF Offered(c, key) THEN Refuses(c, key) /\ ~key
                                     ELSE resyncing[c]]
    /\ keyed' = [c \in Conns |-> (keyed[c] /\ ~Departed(c, key)) \/ (key /\ Takes(c, key))]
    /\ chained' = [c \in Conns |-> Takes(c, key)]
    /\ ask_for_key_frame(\E c \in Conns : Refuses(c, key))

\* Hands one picture to every viewer of the stream, under the lock of the list.
deliver(key) ==
    /\ queue' = [c \in Conns |-> IF Takes(c, key) THEN Append(queue[c], Mark(c, key))
                                 ELSE queue[c]]
    /\ listed' = [c \in Conns |-> listed[c] /\ ~Departed(c, key)]
    /\ resyncing' = [c \in Conns |-> IF Offered(c, key) THEN Refuses(c, key)
                                     ELSE resyncing[c]]
    /\ keyed' = [c \in Conns |-> (keyed[c] /\ ~Departed(c, key)) \/ (key /\ Takes(c, key))]
    /\ chained' = [c \in Conns |-> Takes(c, key)]
    /\ ask_for_key_frame(\E c \in Conns : Refuses(c, key))

\* Mutant: the encoder never schedules a key frame of its own.
NoScheduledKey ==
    /\ at = "send"
    /\ at' = "look"
    /\ IF wanted THEN /\ forced' = FALSE
                      /\ sinceKey' = IF forced THEN 1 ELSE GOP
                      /\ deliver(forced)
                 ELSE UNCHANGED <<forced, sinceKey, queue, viewerVars, wantsKey, recent>>
    /\ UNCHANGED <<wanted, joined, pc, linkVars, pageVars, faults>>

\* The picture is encoded and offered, or skipped when nobody was watching: the
\* frame loop goes on either way and an order given to the encoder stays.
send ==
    /\ at = "send"
    /\ at' = "look"
    /\ IF wanted THEN /\ forced' = FALSE
                      /\ sinceKey' = IF IsKey THEN 1 ELSE sinceKey + 1
                      /\ deliver(IsKey)
                 ELSE UNCHANGED <<forced, sinceKey, queue, viewerVars, wantsKey, recent>>
    /\ UNCHANGED <<wanted, joined, pc, linkVars, pageVars, faults>>

-----------------------------------------------------------------------------
(***************************************************************************)
(* The thread of one viewer.                                               *)
(***************************************************************************)

\* The handshake is done: the viewer is in the list, with an empty channel.
Push(c) ==
    /\ pc[c] = "hello"
    /\ pc' = [pc EXCEPT ![c] = "joining"]
    /\ listed' = [listed EXCEPT ![c] = TRUE]
    /\ resyncing' = [resyncing EXCEPT ![c] = FALSE]
    /\ keyed' = [keyed EXCEPT ![c] = FALSE]
    /\ chained' = [chained EXCEPT ![c] = FALSE]
    /\ UNCHANGED <<workerVars, flagVars, queue, linkVars, pageVars, faults>>

\* Only then does it say that somebody joined: a picture may get in between.
Announce(c) ==
    /\ pc[c] = "joining"
    /\ joined' = TRUE
    /\ pc' = [pc EXCEPT ![c] = "write"]
    /\ UNCHANGED <<workerVars, wantsKey, recent, viewerVars, queue, linkVars,
                   pageVars, faults>>

\* Somebody behind the socket of connection c still wants what it brings.
Heard(c) == ~cut[c] /\ \E p \in Pages : sock[p] = c /\ ~closing[p]

\* The oldest message of the channel is written.  A cut link swallows it, and so
\* does the browser when its page has closed the socket.
Write(c) ==
    /\ pc[c] = "write"
    /\ queue[c] # <<>>
    /\ Heard(c) => Len(wire[c]) < WIRE
    /\ queue' = [queue EXCEPT ![c] = Tail(@)]
    /\ wire' = IF Heard(c) THEN [wire EXCEPT ![c] = Append(@, Head(queue[c]))] ELSE wire
    /\ pc' = [pc EXCEPT ![c] = "read"]
    /\ UNCHANGED <<workerVars, flagVars, viewerVars, asks, bye, cut, pageVars, faults>>

\* Nothing for KEEP_ALIVE: an empty message, which the page only hears.
KeepAlive(c) ==
    /\ pc[c] = "write"
    /\ queue[c] = <<>>
    /\ pc' = [pc EXCEPT ![c] = "read"]
    /\ UNCHANGED <<workerVars, flagVars, viewerVars, queue, linkVars, pageVars, faults>>

\* The thread ends, its receiver with it, and nobody reads that socket again.
Quit(c) ==
    /\ pc' = [pc EXCEPT ![c] = "gone"]
    /\ queue' = [queue EXCEPT ![c] = <<>>]
    /\ asks' = [asks EXCEPT ![c] = FALSE]
    /\ bye' = [bye EXCEPT ![c] = FALSE]

\* A write that does not finish within WRITE_TIMEOUT, or that the socket
\* refuses: the link is cut, or (a fault) the page has stopped taking bytes.
WriteFails(c) ==
    /\ pc[c] = "write"
    /\ cut[c] \/ (Len(wire[c]) = WIRE /\ faults < MaxFaults)
    /\ faults' = IF cut[c] THEN faults ELSE faults + 1
    /\ Quit(c)
    /\ UNCHANGED <<workerVars, flagVars, viewerVars, wire, cut, pageVars>>

\* What the page said meanwhile: a key frame please, goodbye, or nothing.
Read(c) ==
    /\ pc[c] = "read"
    /\ ask_for_key_frame(asks[c])
    /\ IF bye[c] /\ ~asks[c] THEN Quit(c)
                             ELSE /\ pc' = [pc EXCEPT ![c] = "write"]
                                  /\ asks' = [asks EXCEPT ![c] = FALSE]
                                  /\ UNCHANGED <<queue, bye>>
    /\ UNCHANGED <<workerVars, joined, viewerVars, wire, cut, pageVars, faults>>

\* A link stops carrying anything without telling either end.
Cut(c) ==
    /\ pc[c] \in {"joining", "write", "read"} /\ ~cut[c] /\ faults < MaxFaults
    /\ cut' = [cut EXCEPT ![c] = TRUE]
    /\ wire' = [wire EXCEPT ![c] = <<>>]
    /\ asks' = [asks EXCEPT ![c] = FALSE]
    /\ bye' = [bye EXCEPT ![c] = FALSE]
    /\ faults' = faults + 1
    /\ UNCHANGED <<workerVars, flagVars, pc, queue, viewerVars, pageVars>>

-----------------------------------------------------------------------------
(***************************************************************************)
(* The page.                                                               *)
(***************************************************************************)

\* A place nobody uses any more, the worker's list included.
Free(c) == /\ pc[c] \in {"free", "gone"} /\ ~listed[c]
           /\ \A p \in Pages : sock[p] # c

\* The page opens a socket on a free place.
Open(p, c) ==
    /\ Free(c)
    /\ sock' = [sock EXCEPT ![p] = c]
    /\ closing' = [closing EXCEPT ![p] = FALSE]
    /\ pc' = [pc EXCEPT ![c] = "hello"]
    /\ wire' = [wire EXCEPT ![c] = <<>>]
    /\ asks' = [asks EXCEPT ![c] = FALSE]
    /\ bye' = [bye EXCEPT ![c] = FALSE]
    /\ cut' = [cut EXCEPT ![c] = FALSE]

\* At the start, and half a second after the previous socket closed.
connect(p, c) ==
    /\ sock[p] = NoConn
    /\ Open(p, c)
    /\ UNCHANGED <<workerVars, flagVars, queue, viewerVars, painting, decoderVars, asking,
                   faults>>

\* onclose: the worker's end is closed and the page is told.
onclose(p) ==
    /\ sock[p] # NoConn
    /\ LET c == sock[p] IN pc[c] = "gone" /\ ~cut[c] /\ wire[c] = <<>>
    /\ sock' = [sock EXCEPT ![p] = NoConn]
    /\ closing' = [closing EXCEPT ![p] = FALSE]
    /\ decoding' = [decoding EXCEPT ![p] = FALSE]
    /\ own' = [own EXCEPT ![p] = FALSE]
    /\ linked' = [linked EXCEPT ![p] = FALSE]
    /\ garbled' = [garbled EXCEPT ![p] = FALSE]
    /\ goneSince' = [goneSince EXCEPT ![p] = FALSE]
    /\ UNCHANGED <<workerVars, flagVars, connVars, painting, awaitingKey, asking, faults>>

\* giveUp: the socket is asked to close, and delivers nothing more meanwhile.
GiveUp(p) ==
    /\ closing' = [closing EXCEPT ![p] = TRUE]
    /\ bye' = [bye EXCEPT ![sock[p]] = ~cut[sock[p]] /\ pc[sock[p]] # "gone"]
    /\ wire' = [wire EXCEPT ![sock[p]] = <<>>]

\* giveUp, CLOSING_LIMIT later: the answer has not come, another socket is
\* opened and the decoder stays as it was.
Replace(p, c) ==
    /\ sock[p] # NoConn /\ closing[p]
    /\ Open(p, c)
    /\ own' = [own EXCEPT ![p] = FALSE]
    /\ linked' = [linked EXCEPT ![p] = FALSE]
    /\ UNCHANGED <<workerVars, flagVars, queue, viewerVars, painting, decoding,
                   awaitingKey, garbled, goneSince, asking, faults>>

\* A page with an open socket.
Listens(p) == sock[p] # NoConn /\ ~closing[p] /\ pc[sock[p]] # "hello"

\* askForKeyFrame: at most one every half second, on a socket that is open.
Ask(p, why) ==
    LET says == why /\ ~asking[p]
    IN  /\ asking' = [asking EXCEPT ![p] = @ \/ why]
        /\ asks' = IF says /\ ~cut[sock[p]] /\ pc[sock[p]] # "gone"
                 THEN [asks EXCEPT ![sock[p]] = TRUE] ELSE asks

PageCools(p) ==
    /\ asking[p]
    /\ asking' = [asking EXCEPT ![p] = FALSE]
    /\ UNCHANGED <<workerVars, flagVars, connVars, sock, closing, painting, decoderVars,
                   faults>>

\* A message the decoder does not get.
Skips(p, awaits, asksNow) ==
    /\ awaitingKey' = [awaitingKey EXCEPT ![p] = awaits]
    /\ linked' = [linked EXCEPT ![p] = FALSE]
    /\ Ask(p, asksNow)
    /\ UNCHANGED <<decoding, own, garbled>>

\* A message the decoder gets; a decoder is made for a key frame when there is
\* none.
Feeds(p, mark) ==
    /\ awaitingKey' = [awaitingKey EXCEPT ![p] = FALSE]
    /\ linked' = [linked EXCEPT ![p] = TRUE]
    /\ decoding' = [decoding EXCEPT ![p] = TRUE]
    /\ own' = [own EXCEPT ![p] = @ \/ mark = "key"]
    /\ garbled' = [garbled EXCEPT ![p] =
                     mark # "key" /\ (@ \/ mark # "next" \/ ~linked[p])]
    /\ UNCHANGED <<asks, asking>>

\* Mutant: pictures thrown away while nobody paints leave no trace.
HandleForgets(p, mark, busy) ==
    IF ~painting[p] \/ busy THEN Skips(p, FALSE, FALSE)
    ELSE IF mark = "key" THEN Feeds(p, mark)
    ELSE IF awaitingKey[p] THEN Skips(p, TRUE, TRUE)
    ELSE IF decoding[p] THEN Feeds(p, mark)
    ELSE Skips(p, FALSE, FALSE)

\* What onMessage does with one message: throws it away when nobody paints or
\* the decoder is behind, waits for a key frame, or decodes.
Handle(p, mark, busy) ==
    IF ~painting[p] \/ busy THEN Skips(p, TRUE, FALSE)
    ELSE IF mark = "key" THEN Feeds(p, mark)
    ELSE IF awaitingKey[p] THEN Skips(p, TRUE, TRUE)
    ELSE IF decoding[p] THEN Feeds(p, mark)
    ELSE Skips(p, FALSE, FALSE)

\* A message arrives.  The decode queue may be over MAX_BACKLOG (a fault).
onMessage(p) ==
    /\ Listens(p) /\ wire[sock[p]] # <<>>
    /\ \E busy \in BOOLEAN :
          /\ busy => decoding[p] /\ faults < MaxFaults
          /\ faults' = IF busy THEN faults + 1 ELSE faults
          /\ Handle(p, Head(wire[sock[p]]), busy)
    /\ wire' = [wire EXCEPT ![sock[p]] = Tail(@)]
    /\ UNCHANGED <<workerVars, flagVars, pc, queue, viewerVars, bye, cut, sock, closing,
                   painting, goneSince>>

\* The tab is hidden, or shown again.
Hide(p) ==
    /\ painting[p] /\ faults < MaxFaults
    /\ painting' = [painting EXCEPT ![p] = FALSE]
    /\ faults' = faults + 1
    /\ UNCHANGED <<workerVars, flagVars, connVars, sock, closing, decoderVars, asking>>
Show(p) ==
    /\ ~painting[p]
    /\ painting' = [painting EXCEPT ![p] = TRUE]
    /\ UNCHANGED <<workerVars, flagVars, connVars, sock, closing, decoderVars, asking, faults>>

\* The decoder fails, refuses a picture, or produces nothing for SILENCE_LIMIT.
restartDecoder(p) ==
    /\ decoding[p] /\ Listens(p) /\ faults < MaxFaults
    /\ decoding' = [decoding EXCEPT ![p] = FALSE]
    /\ own' = [own EXCEPT ![p] = FALSE]
    /\ garbled' = [garbled EXCEPT ![p] = FALSE]
    /\ goneSince' = [goneSince EXCEPT ![p] = TRUE]
    /\ Ask(p, TRUE)
    /\ faults' = faults + 1
    /\ UNCHANGED <<workerVars, flagVars, pc, queue, viewerVars, wire, bye, cut, sock,
                   closing, painting, awaitingKey, linked>>

\* watchDecoder: KEY_FRAME_PATIENCE without a decoder, on a socket that talks
\* and a page that paints.
watchDecoder(p) ==
    /\ Listens(p) /\ ~cut[sock[p]] /\ painting[p]
    /\ ~decoding[p] /\ goneSince[p]
    /\ goneSince' = [goneSince EXCEPT ![p] = FALSE]
    /\ GiveUp(p)
    /\ UNCHANGED <<workerVars, flagVars, pc, queue, viewerVars, asks, cut, sock,
                   painting, decoding, own, awaitingKey, linked, garbled, asking, faults>>

\* Mutant: silence is watched only once pictures were decoded.
SilenceNeedsDecoder(p) ==
    /\ Listens(p) /\ cut[sock[p]] /\ decoding[p]
    /\ GiveUp(p)
    /\ UNCHANGED <<workerVars, flagVars, pc, queue, viewerVars, asks, cut, sock,
                   painting, decoderVars, asking, faults>>

\* watchSilence: not a byte for SILENCE_LIMIT, keep-alives included.
watchSilence(p) ==
    /\ Listens(p) /\ cut[sock[p]]
    /\ GiveUp(p)
    /\ UNCHANGED <<workerVars, flagVars, pc, queue, viewerVars, asks, cut, sock,
                   painting, decoderVars, asking, faults>>

-----------------------------------------------------------------------------
Frame == watchers \/ TakeRequests \/ send
Serve(c) == Push(c) \/ Announce(c) \/ Write(c) \/ KeepAlive(c) \/ Read(c)
Reconnect(p) == \E c \in Conns : connect(p, c) \/ Replace(p, c)

Next ==
    \/ watchers \/ TakeRequests \/ send \/ LimiterCools
    \/ \E c \in Conns : \/ Push(c) \/ Announce(c) \/ Write(c) \/ KeepAlive(c)
                        \/ WriteFails(c) \/ Read(c) \/ Cut(c)
    \/ \E p \in Pages : \/ onclose(p) \/ PageCools(p) \/ onMessage(p)
                        \/ Hide(p) \/ Show(p) \/ restartDecoder(p)
                        \/ watchDecoder(p) \/ watchSilence(p)
                        \/ \E c \in Conns : connect(p, c) \/ Replace(p, c)

Spec == Init /\ [][Next]_vars

(***************************************************************************)
(* The frame loop and the threads of the worker run; a write on a cut link *)
(* times out; a page that is open paints, is told of a closed socket, and  *)
(* its timers fire.                                                        *)
(***************************************************************************)
FairSpec ==
    /\ Spec
    /\ WF_vars(Frame) /\ WF_vars(LimiterCools)
    /\ \A c \in Conns : WF_vars(Serve(c)) /\ WF_vars(cut[c] /\ WriteFails(c))
    /\ \A p \in Pages : /\ WF_vars(Reconnect(p)) /\ WF_vars(onclose(p))
                        /\ WF_vars(onMessage(p))
                        /\ WF_vars(PageCools(p)) /\ WF_vars(Show(p))
                        /\ WF_vars(watchDecoder(p)) /\ WF_vars(watchSilence(p))

-----------------------------------------------------------------------------
(***************************************************************************)
(* Safety.                                                                 *)
(***************************************************************************)

NoGapIn(s) == \A i \in 1..Len(s) : s[i] # "gap"

\* What deliver promises of each viewer's own stream: once a key frame has been
\* put in its queue, every later picture that enters it refers to the picture
\* that entered just before, whatever the queue refused in between, the key
\* frame meant to repair it included.  (Pictures that arrive before the first
\* key frame, between the push and the announcement, are not promised.)
ChainUnbroken == \A c \in Conns : NoGapIn(queue[c]) /\ NoGapIn(wire[c])

\* What onMessage adds to it: a decoder that was given a key frame of the
\* connection the page listens to never decodes a picture whose reference it
\* did not get, hidden tabs, a decoder that falls behind or dies, refused
\* pictures and reconnections included.
OwnStreamReadable == \A p \in Pages : own[p] /\ decoding[p] => ~garbled[p]

(***************************************************************************)
(* Liveness, under FairSpec.                                               *)
(***************************************************************************)

\* A viewer whose chain is broken gets a key frame or leaves, although the
\* limiter loses requests: the key frame GOP schedules is what ends the wait.
BrokenChainHeals ==
    \A c \in Conns : listed[c] /\ resyncing[c] ~> ~(listed[c] /\ resyncing[c])

\* Once the outside leaves it alone, a page never stays without a picture: its
\* decoder is given pictures in sequence again and again, whatever socket or
\* decoder it lost on the way.
PictureReturns == \A p \in Pages : []<>(decoding[p] /\ linked[p] /\ ~garbled[p])

(***************************************************************************)
(* What a comment says and the code does not do.                           *)
(***************************************************************************)

\* "On n'attend pas CELLE-LÀ, qui n'existe plus, on attend la SUIVANTE, et on la
\* demande tout de suite": while a viewer waits, a key frame is on order.
BrokenChainIsAsked ==
    \A c \in Conns : listed[c] /\ resyncing[c] /\ pc[c] # "gone" => forced \/ wantsKey
=============================================================================
