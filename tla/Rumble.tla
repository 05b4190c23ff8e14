------------------------------- MODULE Rumble -------------------------------
(***************************************************************************)
(* The shakes of the controllers, from the emulator to the pages           *)
(* (emulator/src/rumble.rs; browser/mod.rs, rumble; browser/pad.rs,        *)
(* send_rumble; docker/dolphin-patches/0003, ExportRumble).                *)
(*                                                                         *)
(* The emulator writes two bytes, a pad counted from zero and a level, and *)
(* only when the level changes; the pipe says nothing of where a read      *)
(* ends.  The worker keeps one level per port, and the thread of a page    *)
(* sends it on when it differs from what that page last heard.             *)
(***************************************************************************)
EXTENDS Slots, Sequences

CONSTANTS
    Levels,      \* the forces used, 0 among them
    FifoRoom,    \* bound: bytes the pipe holds
    READS        \* the buffer of one read: 256 in the code

ASSUME RumbleAssumption ==
    0 \in Levels /\ Levels \subseteq Nat /\ FifoRoom \in Nat /\ READS \in Nat \ {0}

VARIABLES
    force,       \* pad -> s_rumble_last of the emulator
    fifo,        \* the bytes in the pipe
    odd,         \* RumbleTap.odd: a sequence of at most one byte
    rumbles,     \* port -> BrowserServer.rumbles
    shook,       \* port -> what the page of that port last heard
    unheard      \* history: pads whose last change found the pipe full

rumbleVars == <<force, fifo, odd, rumbles, shook, unheard>>

Pads == {p - 1 : p \in Ports}

RumbleInit ==
    /\ force = [q \in Pads |-> 0] /\ fifo = <<>> /\ odd = <<>>
    /\ rumbles = [p \in Ports |-> 0] /\ shook = [p \in Ports |-> 0] /\ unheard = {}

-----------------------------------------------------------------------------
\* The emulator remembers the level before it knows whether the write passed.
ExportRumble(q, level) ==
    /\ force[q] # level /\ force' = [force EXCEPT ![q] = level]
    /\ IF Len(fifo) + 2 <= FifoRoom
       THEN fifo' = fifo \o <<q, level>> /\ unheard' = unheard \ {q}
       ELSE UNCHANGED fifo /\ unheard' = unheard \union {q}
    /\ UNCHANGED <<odd, rumbles, shook>>

\* The whole pairs of a string of bytes.
Pairs(bytes) == [i \in 1..(Len(bytes) \div 2) |-> <<bytes[2 * i - 1], bytes[2 * i]>>]

\* The level of a port once these pairs are applied; a pad the machine does not
\* have is passed over.
Shaken(p, level, pairs) ==
    LET mine == {i \in 1..Len(pairs) : pairs[i][1] + 1 = p}
    IN IF mine = {} THEN level ELSE pairs[CHOOSE i \in mine : \A j \in mine : j <= i][2]

Rest(bytes) == IF Len(bytes) % 2 = 1 THEN <<bytes[Len(bytes)]>> ELSE <<>>

\* Mutant: a byte left over is forgotten.
drain_whole(n) ==
    LET bytes == SubSeq(fifo, 1, n) IN
    /\ n \in 1..Len(fifo) /\ n <= READS
    /\ fifo' = SubSeq(fifo, n + 1, Len(fifo))
    /\ rumbles' = [p \in Ports |-> Shaken(p, rumbles[p], Pairs(bytes))]
    /\ odd' = <<>> /\ UNCHANGED <<force, shook, unheard>>

\* One read per picture, of n bytes, and the shakes handed to the server.
drain(n) ==
    LET bytes == odd \o SubSeq(fifo, 1, n) IN
    /\ n \in 1..Len(fifo) /\ n <= READS
    /\ fifo' = SubSeq(fifo, n + 1, Len(fifo))
    /\ rumbles' = [p \in Ports |-> Shaken(p, rumbles[p], Pairs(bytes))]
    /\ odd' = Rest(bytes) /\ UNCHANGED <<force, shook, unheard>>

\* Mutant: an end of shaking is not worth a message.
send_rumble_up(p) ==
    /\ shook[p] # rumbles[p] /\ rumbles[p] # 0 /\ shook' = [shook EXCEPT ![p] = rumbles[p]]
    /\ UNCHANGED <<force, fifo, odd, rumbles, unheard>>

\* At every message of the page, if the level is not what it heard.
send_rumble(p) ==
    /\ shook[p] # rumbles[p] /\ shook' = [shook EXCEPT ![p] = rumbles[p]]
    /\ UNCHANGED <<force, fifo, odd, rumbles, unheard>>

\* Another page takes the pad: it has heard nothing.
NewPage(p) ==
    /\ shook' = [shook EXCEPT ![p] = 0]
    /\ UNCHANGED <<force, fifo, odd, rumbles, unheard>>

RumbleNext ==
    \/ \E q \in Pads, level \in Levels : ExportRumble(q, level)
    \/ \E n \in 1..READS : drain(n)
    \/ \E p \in Ports : send_rumble(p) \/ NewPage(p)

\* Pictures keep coming, and a page that holds a pad speaks sixty times a
\* second or answers the ping.
RumbleFairness ==
    /\ WF_rumbleVars(\E n \in 1..READS : drain(n))
    /\ \A p \in Ports : WF_rumbleVars(send_rumble(p))

RumbleSpec == RumbleInit /\ [][RumbleNext]_rumbleVars /\ RumbleFairness

-----------------------------------------------------------------------------
(* Properties *)

RumbleTypeOK ==
    /\ force \in [Pads -> Levels] /\ Len(fifo) <= FifoRoom /\ Len(odd) <= 1
    /\ rumbles \in [Ports -> Levels] /\ shook \in [Ports -> Levels] /\ unheard \subseteq Pads

\* However the reads fall, what is applied and what is on its way add up to
\* the levels of the emulator, pad by pad: no shake ever moves to a neighbour,
\* and only a pad whose own last change found the pipe full is behind.
ShakesLandHome ==
    \A q \in Pads \ unheard : Shaken(q + 1, rumbles[q + 1], Pairs(odd \o fifo)) = force[q]

\* A page feels the level its pad settles at: a controller does not go on
\* shaking after the game has stopped it.
PageFeelsTheLevel ==
    \A q \in Pads, level \in Levels :
        <>[](force[q] = level /\ q \notin unheard) => []<>(shook[q + 1] = level)
=============================================================================
