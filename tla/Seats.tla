------------------------------- MODULE Seats -------------------------------
(***************************************************************************)
(* The controllers of a room: who holds which port, and what reaches the   *)
(* emulator's pads.  One thread of the worker serves one controller socket *)
(* (core/crates/transport/src/browser/pad.rs, input_thread); all of them   *)
(* share the array of claims and the array of pad slots, each behind its   *)
(* own mutex, and the pad thread of the worker drains the slots.           *)
(*                                                                         *)
(* A step of this module is what one thread does under one lock, so the    *)
(* moments between two locks (still_ours and the next pad frame, the       *)
(* release of the seat and the neutral state) are states other threads run *)
(* in.  A connection is used once: a page that comes back is another       *)
(* member of Conns.                                                        *)
(***************************************************************************)
EXTENDS Naturals

CONSTANTS
    PORTS,      \* the ports a room can have (four in the code)
    Players,    \* the ports this room serves, 1..Players
    Conns,      \* controller sockets
    Frames,     \* pad states a page can send
    Neutral,    \* the pad state of a hand that touches nothing
    NoFrame,    \* an empty slot
    PING_EVERY, \* ticks a read waits before it times out and the thread pings
    GONE_AFTER, \* ticks of silence that mean nobody is there
    ANSWER      \* ticks within which the pong of a browser that is there has come

ASSUME RoomAssumption == /\ PORTS \in Nat /\ Players \in 1..PORTS

\* Five seconds and fifteen in the code: a browser that is there has ten to
\* answer a ping, which is all that is assumed of it.
ASSUME ClockAssumption == /\ PING_EVERY \in Nat \ {0} /\ GONE_AFTER \in Nat /\ ANSWER \in Nat
                          /\ PING_EVERY + ANSWER < GONE_AFTER
ASSUME FrameAssumption == Neutral \in Frames /\ NoFrame \notin Frames

VARIABLES
    nextClaim,  \* the counter behind next_claim
    seats,      \* port -> claim of its holder, 0 when free
    incoming,   \* port -> newest pad state not yet drained, or NoFrame
    pad,        \* port -> last state handed to the emulator
    pc,         \* connection -> where its thread is
    seat,       \* connection -> the port it was given, 0 before
    claim,      \* connection -> the claim that proves it, 0 before
    asked,      \* connection -> the port a grant just insisted on, 0 otherwise
    told,       \* connection -> the port the last room message said is the
                \*               page's own, 0 for none
    silent,     \* connection -> ticks since it was last heard from (heard_from)
    waited,     \* connection -> ticks its thread has been in the current read, 0
                \*               outside one
    owed,       \* connection -> ticks its browser has left to answer the oldest
                \*               ping it owes a pong for, or NoPing
    peer,       \* connection -> "here" while somebody is behind the socket
    why,        \* connection -> why it is over, "open" before; "ended" when its
                \*               page closed it or the socket failed
    stray       \* connection -> pad frames it applied after losing its port
                \*               (history: no code reads it)

roomVars == <<nextClaim, seats, incoming, pad>>
timing == <<silent, waited, owed>>
vars == <<nextClaim, seats, incoming, pad, pc, seat, claim, asked, told,
          silent, waited, owed, peer, why, stray>>

NoPing == ANSWER + 1

Ports == 1..PORTS
PortOrNone == 0..PORTS

\* The places of a thread at which it may still apply a pad frame or still
\* owes its port a neutral state.
Serving == {"check", "tell", "read", "release", "neutral"}

\* The places at which the thread may be the holder of its port.
Holding == {"granted", "check", "tell", "read", "release"}

PCs == {"new", "granted", "closed"} \union Serving

Reasons == {"open", "refused", "replaced", "gone", "ended"}

TypeOK ==
    /\ nextClaim \in Nat \ {0}
    /\ seats \in [Ports -> Nat]
    /\ incoming \in [Ports -> Frames \union {NoFrame}]
    /\ pad \in [Ports -> Frames]
    /\ pc \in [Conns -> PCs]
    /\ seat \in [Conns -> PortOrNone]
    /\ claim \in [Conns -> Nat]
    /\ asked \in [Conns -> PortOrNone]
    /\ told \in [Conns -> PortOrNone]
    /\ silent \in [Conns -> 0..(GONE_AFTER + PING_EVERY - 1)]
    /\ waited \in [Conns -> 0..PING_EVERY]
    /\ owed \in [Conns -> 0..NoPing]
    /\ peer \in [Conns -> {"here", "gone"}]
    /\ why \in [Conns -> Reasons]
    /\ stray \in [Conns -> Nat]

Init ==
    /\ nextClaim = 1
    /\ seats = [p \in Ports |-> 0]
    /\ incoming = [p \in Ports |-> NoFrame]
    /\ pad = [p \in Ports |-> Neutral]
    /\ pc = [c \in Conns |-> "new"]
    /\ seat = [c \in Conns |-> 0]
    /\ claim = [c \in Conns |-> 0]
    /\ asked = [c \in Conns |-> 0]
    /\ told = [c \in Conns |-> 0]
    /\ silent = [c \in Conns |-> 0]
    /\ waited = [c \in Conns |-> 0]
    /\ owed = [c \in Conns |-> NoPing]
    /\ peer = [c \in Conns |-> "here"]
    /\ why = [c \in Conns |-> "open"]
    /\ stray = [c \in Conns |-> 0]

-----------------------------------------------------------------------------
(* The operations on the array of claims, each under its lock. *)

still_ours(c) == seats[seat[c]] = claim[c]

\* Mutant: the departing thread frees its port number, whoever holds it now.
ReleaseAnyHolder(c) == [seats EXCEPT ![seat[c]] = 0]

release_seat(c) == IF still_ours(c) THEN [seats EXCEPT ![seat[c]] = 0] ELSE seats

LowestFree(p) ==
    /\ p \in 1..Players /\ seats[p] = 0
    /\ \A q \in 1..Players : seats[q] = 0 => p <= q

\* Whether take_seat answers port p.  `take` and `prefer` are 0 and `expected`
\* is 0 when the request does not carry them.
take_seat(p, take, prefer, expected) ==
    /\ expected # 0 => take # 0 /\ seats[take] = expected
    /\ \/ take = 0 /\ prefer # 0 /\ prefer <= Players /\ seats[prefer] = 0 /\ p = prefer
       \/ take \in 1..Players /\ p = take
       \/ (take > Players \/ (take = 0 /\ prefer = 0)) /\ LowestFree(p)

-----------------------------------------------------------------------------
(* One controller socket, from the handshake to the close. *)

\* next_claim, then take_seat under the lock.  A receipt is any claim the
\* worker ever handed out: the page may have read it long ago.
Claim(c) ==
    /\ pc[c] = "new"
    /\ \E take, prefer \in PortOrNone, expected \in 0..(nextClaim - 1) :
        \/ \E p \in Ports :
            /\ take_seat(p, take, prefer, expected)
            /\ seats' = [seats EXCEPT ![p] = nextClaim]
            /\ seat' = [seat EXCEPT ![c] = p]
            /\ claim' = [claim EXCEPT ![c] = nextClaim]
            /\ asked' = [asked EXCEPT ![c] = take]
            /\ pc' = [pc EXCEPT ![c] = "granted"]
            /\ UNCHANGED <<told, why>>
        \/ /\ ~ \E p \in Ports : take_seat(p, take, prefer, expected)
           /\ told' = [told EXCEPT ![c] = 0]
           /\ pc' = [pc EXCEPT ![c] = "closed"]
           /\ why' = [why EXCEPT ![c] = "refused"]
           /\ UNCHANGED <<seats, seat, claim, asked>>
    /\ nextClaim' = nextClaim + 1
    /\ UNCHANGED <<incoming, pad, timing, peer, stray>>

\* The rest of claim_a_port: the first room message, and for a page that
\* reads them its assignment and its device.
Announce(c) ==
    /\ pc[c] = "granted"
    /\ told' = [told EXCEPT ![c] = seat[c]]
    /\ asked' = [asked EXCEPT ![c] = 0]
    /\ pc' = [pc EXCEPT ![c] = "check"]
    /\ UNCHANGED <<roomVars, seat, claim, timing, peer, why, stray>>

\* Mutant: the failed first send closes the socket and keeps the port.
AnnounceFailsKeepingPort(c) ==
    /\ pc[c] = "granted"
    /\ pc' = [pc EXCEPT ![c] = "closed"]
    /\ why' = [why EXCEPT ![c] = "ended"]
    /\ UNCHANGED <<roomVars, seat, claim, asked, told, timing, peer, stray>>

\* A send that fails there gives the port back and applies nothing to the pad.
AnnounceFails(c) ==
    /\ pc[c] = "granted"
    /\ seats' = release_seat(c)
    /\ pc' = [pc EXCEPT ![c] = "closed"]
    /\ why' = [why EXCEPT ![c] = "ended"]
    /\ UNCHANGED <<nextClaim, incoming, pad, seat, claim, asked, told, timing, peer, stray>>

\* The head of the loop: a replaced page is told it holds nothing.
CheckSeat(c) ==
    /\ pc[c] = "check"
    /\ IF still_ours(c)
       THEN /\ pc' = [pc EXCEPT ![c] = "tell"]
            /\ UNCHANGED <<told, why>>
       ELSE /\ told' = [told EXCEPT ![c] = 0]
            /\ why' = [why EXCEPT ![c] = "replaced"]
            /\ pc' = [pc EXCEPT ![c] = "release"]
    /\ UNCHANGED <<roomVars, seat, claim, asked, timing, peer, stray>>

\* send_room: the page hears of the room only when it changed; sending the
\* same message again is the same state.
SendRoom(c) ==
    /\ pc[c] = "tell"
    /\ \/ /\ told' = [told EXCEPT ![c] = seat[c]]
          /\ pc' = [pc EXCEPT ![c] = "read"]
          /\ UNCHANGED why
       \/ /\ pc' = [pc EXCEPT ![c] = "release"]
          /\ why' = [why EXCEPT ![c] = "ended"]
          /\ UNCHANGED told
    /\ UNCHANGED <<roomVars, seat, claim, asked, timing, peer, stray>>

\* Mutant: pad frames are read in a loop of their own, without the check.
ApplyPadWithoutCheck(c, frame) ==
    /\ pc[c] = "read" /\ peer[c] = "here"
    /\ silent' = [silent EXCEPT ![c] = 0]
    /\ incoming' = [incoming EXCEPT ![seat[c]] = frame]
    /\ stray' = [stray EXCEPT ![c] = @ + (IF still_ours(c) THEN 0 ELSE 1)]
    /\ UNCHANGED <<nextClaim, seats, pad, pc, seat, claim, asked, told, waited, owed, peer, why>>

\* apply_pad: the frame is stamped with the socket's port, whatever it names.
ApplyPad(c, frame) ==
    /\ pc[c] = "read" /\ peer[c] = "here"
    /\ silent' = [silent EXCEPT ![c] = 0]
    /\ incoming' = [incoming EXCEPT ![seat[c]] = frame]
    /\ stray' = [stray EXCEPT ![c] = @ + (IF still_ours(c) THEN 0 ELSE 1)]
    /\ pc' = [pc EXCEPT ![c] = "check"]
    /\ waited' = [waited EXCEPT ![c] = 0]
    /\ UNCHANGED <<nextClaim, seats, pad, seat, claim, asked, told, owed, peer, why>>

\* A text, an echo that is bounced or a command that is obeyed: it proves
\* somebody is there and leaves seats and pads alone.
ReadOther(c) ==
    /\ pc[c] = "read" /\ peer[c] = "here"
    /\ silent' = [silent EXCEPT ![c] = 0]
    /\ pc' = [pc EXCEPT ![c] = "check"]
    /\ waited' = [waited EXCEPT ![c] = 0]
    /\ UNCHANGED <<roomVars, seat, claim, asked, told, owed, peer, why, stray>>

\* Mutant: only what the page itself sends refreshes heard_from.
PongUnheard(c) ==
    /\ pc[c] = "read" /\ peer[c] = "here" /\ owed[c] # NoPing
    /\ owed' = [owed EXCEPT ![c] = NoPing]
    /\ pc' = [pc EXCEPT ![c] = "check"]
    /\ waited' = [waited EXCEPT ![c] = 0]
    /\ UNCHANGED <<roomVars, seat, claim, asked, told, silent, peer, why, stray>>

\* The browser's own answer to a ping, which counts as any frame does.
Pong(c) ==
    /\ pc[c] = "read" /\ peer[c] = "here" /\ owed[c] # NoPing
    /\ silent' = [silent EXCEPT ![c] = 0]
    /\ owed' = [owed EXCEPT ![c] = NoPing]
    /\ pc' = [pc EXCEPT ![c] = "check"]
    /\ waited' = [waited EXCEPT ![c] = 0]
    /\ UNCHANGED <<roomVars, seat, claim, asked, told, peer, why, stray>>

\* A close, a malformed pad frame, an unknown command, a socket error.
ReadEnds(c) ==
    /\ pc[c] = "read"
    /\ pc' = [pc EXCEPT ![c] = "release"]
    /\ why' = [why EXCEPT ![c] = "ended"]
    /\ waited' = [waited EXCEPT ![c] = 0]
    /\ UNCHANGED <<roomVars, seat, claim, asked, told, silent, owed, peer, stray>>

\* Mutants of the deadline: a read that times out refreshes heard_from; no
\* silence is ever long enough; a replaced page is dropped here, without the
\* message of the loop's head.
TimeoutIsNews(c) ==
    /\ pc[c] = "read" /\ waited[c] = PING_EVERY
    /\ silent' = [silent EXCEPT ![c] = 0]
    /\ pc' = [pc EXCEPT ![c] = "check"]
    /\ waited' = [waited EXCEPT ![c] = 0]
    /\ UNCHANGED <<roomVars, seat, claim, asked, told, owed, peer, why, stray>>

TimeoutNever(c) ==
    /\ pc[c] = "read" /\ waited[c] = PING_EVERY
    /\ pc' = [pc EXCEPT ![c] = "check"]
    /\ waited' = [waited EXCEPT ![c] = 0]
    /\ UNCHANGED <<roomVars, seat, claim, asked, told, silent, owed, peer, why, stray>>

TimeoutDropsReplaced(c) ==
    /\ pc[c] = "read" /\ waited[c] = PING_EVERY
    /\ silent' = [silent EXCEPT ![c] = 0]
    /\ pc' = [pc EXCEPT ![c] = IF still_ours(c) THEN "check" ELSE "release"]
    /\ waited' = [waited EXCEPT ![c] = 0]
    /\ UNCHANGED <<roomVars, seat, claim, asked, told, owed, peer, why, stray>>

\* The read deadline passed: the silence is measured first, and only a thread
\* that stays sends its ping, which may fail.
Timeout(c) ==
    /\ pc[c] = "read" /\ waited[c] = PING_EVERY
    /\ \/ /\ silent[c] >= GONE_AFTER
          /\ pc' = [pc EXCEPT ![c] = "release"]
          /\ why' = [why EXCEPT ![c] = "gone"]
          /\ UNCHANGED owed
       \/ /\ silent[c] < GONE_AFTER
          /\ pc' = [pc EXCEPT ![c] = "check"]
          /\ owed' = [owed EXCEPT ![c] = IF peer[c] = "here" /\ @ = NoPing
                                      THEN ANSWER ELSE @]
          /\ UNCHANGED why
       \/ /\ silent[c] < GONE_AFTER
          /\ pc' = [pc EXCEPT ![c] = "release"]
          /\ why' = [why EXCEPT ![c] = "ended"]
          /\ UNCHANGED owed
    /\ waited' = [waited EXCEPT ![c] = 0]
    /\ UNCHANGED <<roomVars, seat, claim, asked, told, silent, peer, stray>>

\* After the loop, first half: the seat goes back, if it is still ours.  The
\* loop's clock is not read any more.
Release(c) ==
    /\ pc[c] = "release"
    /\ seats' = release_seat(c)
    /\ pc' = [pc EXCEPT ![c] = "neutral"]
    /\ silent' = [silent EXCEPT ![c] = 0]
    /\ owed' = [owed EXCEPT ![c] = NoPing]
    /\ UNCHANGED <<nextClaim, incoming, pad, seat, claim, asked, told, waited, peer, why, stray>>

\* Mutants: a replaced thread leaves the pad to its replacement; the pad is
\* never let go.
LetGoUnlessReplaced(c) ==
    /\ pc[c] = "neutral"
    /\ incoming' = IF why[c] = "replaced" THEN incoming
                   ELSE [incoming EXCEPT ![seat[c]] = Neutral]
    /\ pc' = [pc EXCEPT ![c] = "closed"]
    /\ UNCHANGED <<nextClaim, seats, pad, seat, claim, asked, told, timing, peer, why, stray>>

LetGoNothing(c) ==
    /\ pc[c] = "neutral"
    /\ pc' = [pc EXCEPT ![c] = "closed"]
    /\ UNCHANGED <<roomVars, seat, claim, asked, told, timing, peer, why, stray>>

\* After the loop, second half, under the other lock: the pad goes neutral.
LetGo(c) ==
    /\ pc[c] = "neutral"
    /\ incoming' = [incoming EXCEPT ![seat[c]] = Neutral]
    /\ pc' = [pc EXCEPT ![c] = "closed"]
    /\ UNCHANGED <<nextClaim, seats, pad, seat, claim, asked, told, timing, peer, why, stray>>

-----------------------------------------------------------------------------

\* A tick of the clock inside a blocking read, until its deadline; sends and
\* locks take no time.  A browser that is there has answered by its last tick.
Tick(c) ==
    /\ pc[c] = "read" /\ waited[c] < PING_EVERY
    /\ owed[c] # 0
    /\ silent' = [silent EXCEPT ![c] = @ + 1]
    /\ waited' = [waited EXCEPT ![c] = @ + 1]
    /\ owed' = [owed EXCEPT ![c] = IF @ \in 1..ANSWER THEN @ - 1 ELSE @]
    /\ UNCHANGED <<roomVars, pc, seat, claim, asked, told, peer, why, stray>>

\* Nobody is behind the socket any more and nothing says so: a proxy holds it.
Vanish(c) ==
    /\ peer[c] = "here"
    /\ pc[c] \in {"granted", "check", "tell", "read"}
    /\ peer' = [peer EXCEPT ![c] = "gone"]
    /\ owed' = [owed EXCEPT ![c] = NoPing]
    /\ UNCHANGED <<roomVars, pc, seat, claim, asked, told, silent, waited, why, stray>>

\* wait_controller_input in the pad thread: the newest state of every port is
\* taken, the slots are emptied, and the states go to the emulator in turn.
Drain ==
    /\ \E p \in Ports : incoming[p] # NoFrame
    /\ pad' = [p \in Ports |-> IF incoming[p] = NoFrame THEN pad[p] ELSE incoming[p]]
    /\ incoming' = [p \in Ports |-> NoFrame]
    /\ UNCHANGED <<nextClaim, seats, pc, seat, claim, asked, told, timing, peer, why, stray>>

ReadPad(c) == \E frame \in Frames : ApplyPad(c, frame)

\* The steps nothing but the thread and the browser's own answer to a ping is
\* needed for: every send and every lock returns.
Runs(c) ==
    \/ Announce(c) \/ AnnounceFails(c) \/ CheckSeat(c) \/ SendRoom(c)
    \/ Pong(c) \/ Timeout(c) \/ Release(c) \/ LetGo(c)

\* Those and what the page chooses to send.
ThreadStep(c) == Runs(c) \/ ReadPad(c) \/ ReadOther(c) \/ ReadEnds(c)

Next ==
    \/ \E c \in Conns : Claim(c) \/ ThreadStep(c) \/ Tick(c) \/ Vanish(c)
    \/ Drain

Spec == Init /\ [][Next]_vars

FairSpec == Spec /\ (\A c \in Conns : WF_vars(Runs(c) \/ Tick(c))) /\ WF_vars(Drain)

-----------------------------------------------------------------------------
(* Safety. *)

\* A port that is held is held by exactly one connection whose thread is alive
\* and will give it back: no path of input_thread leaks a seat (the failed
\* first send, the failed assignment, every break of the loop).
HeldPortHasItsThread ==
    \A p \in Ports : seats[p] # 0 =>
        \E c \in Conns :
            /\ claim[c] = seats[p] /\ seat[c] = p /\ pc[c] \in Holding
            /\ \A d \in Conns : claim[d] = claim[c] => d = c

\* A button stays down on a port, in its slot or in the emulator, only while a
\* thread that can still write that port is alive: "a stuck direction" is never
\* left behind, even when the threads of a replaced and of a replacing page end
\* in any order (pad.rs, the neutral state after the loop).
NoStuckPad ==
    \A p \in Ports :
        (incoming[p] \notin {Neutral, NoFrame} \/ (incoming[p] = NoFrame /\ pad[p] # Neutral))
            => \E c \in Conns : seat[c] = p /\ pc[c] \in Serving

\* A replaced page moves the new holder's pad at most once: the check at the
\* head of the loop comes before every read.
OneStrayFrame == \A c \in Conns : stray[c] <= 1

\* "A controller stopped answering" is said only of a socket with nobody behind
\* it.  The thread does not know which one that is: a player who presses nothing
\* for ever keeps the port because the ping goes out before the silence counts
\* and the pong that comes back, at any moment of any read, ends the silence.
QuietPlayerKeepsPort == \A c \in Conns : why[c] = "gone" => peer[c] = "gone"

\* A port changes hands only for a page that named it; it becomes free only by
\* the thread of its holder, never by the thread of a page it was taken from.
SeatMovesAreLegal ==
    [][\A p \in Ports : seats'[p] # seats[p] =>
        \/ seats[p] # 0 /\ seats'[p] = 0
           /\ \E c \in Conns : claim[c] = seats[p] /\ pc'[c] # pc[c]
        \/ seats'[p] # 0
           /\ \E c \in Conns : /\ pc[c] = "new" /\ claim'[c] = seats'[p]
                               /\ seats[p] # 0 => asked'[c] = p]_vars

(* Liveness, under FairSpec. *)

\* A socket held open for a browser that is gone gives its port back.
GhostGivesPortBack ==
    \A c \in Conns : (peer[c] = "gone") ~> (pc[c] = "closed" /\ \A p \in Ports : seats[p] # claim[c])

\* A page that lost its port hears it, unless its socket is dead.
ReplacedIsTold ==
    \A c \in Conns :
        (pc[c] \in {"check", "tell", "read"} /\ ~still_ours(c))
            ~> (told[c] = 0 \/ peer[c] = "gone" \/ why[c] = "ended")

\* Once no thread serves a port any more, the emulator's pad goes neutral.
PadGoesNeutral ==
    \A p \in 1..Players :
        ([](\A c \in Conns : ~(seat[c] = p /\ pc[c] \in Serving))) ~> (pad[p] = Neutral)
=============================================================================
