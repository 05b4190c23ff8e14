----------------------------- MODULE FrameRing -----------------------------
(***************************************************************************)
(* How the emulator lends its pictures to the worker.  The emulator draws  *)
(* into a ring of images it shares with the worker as dma-bufs, and the    *)
(* two talk over one stream socket: descriptors of the images when a ring  *)
(* is made, "slot s is ready" when a picture is finished, and "slot s is   *)
(* released" back.  The emulator's half is the patch to Dolphin            *)
(* (docker/dolphin-patches/0001-nel3ab-frame-export.patch, OnFrame), the   *)
(* worker's is core/crates/encoder/src/frame_source.rs and the frame loop. *)
(*                                                                         *)
(* A game that changes the size of its picture gets a new ring while       *)
(* pictures of the old one are still lent.  Messages name a slot and not a *)
(* ring; the ring numbers carried here are history, except that the        *)
(* descriptors of a ring really are that ring's.                           *)
(***************************************************************************)
EXTENDS Naturals, Sequences

CONSTANTS
    RING_SIZE,   \* images of a ring (three in the code)
    Wire,        \* messages the socket holds towards the worker
    MaxRings,    \* bound: rings made
    None         \* no picture

ASSUME RingAssumption ==
    RING_SIZE \in Nat \ {0} /\ Wire \in Nat \ {0} /\ MaxRings \in Nat

Slots == 0..(RING_SIZE - 1)

VARIABLES
    at,          \* where OnFrame is; "off" once the export is disabled
    ring,        \* the ring the emulator draws into, 0 before the first
    made,        \* images of that ring made and announced so far
    lent,        \* slot -> it was lent and not given back
    index,       \* the slot OnFrame draws into
    toWorker,    \* the socket towards the worker
    toDolphin,   \* the socket back: released slots
    adopted,     \* the ring the worker has imported, 0 before the first
    collected,   \* slots of a ring whose descriptors it has received, while
                 \* it collects one
    reading,     \* the picture the worker holds, or None
    alive,       \* the worker has its end of the socket open
    crossed      \* history: a release of an earlier ring has freed a slot of
                 \* the present one that was lent

dolphinVars == <<at, ring, made, lent, index, crossed>>
workerVars == <<adopted, collected, reading, alive>>
vars == <<at, ring, made, lent, index, toWorker, toDolphin, adopted, collected,
          reading, alive, crossed>>

Header(r, s) == [kind |-> "header", ring |-> r, slot |-> s]
Ready(r, s) == [kind |-> "ready", ring |-> r, slot |-> s]
Messages == [kind : {"header", "ready"}, ring : 1..MaxRings, slot : Slots]
Pictures == (1..MaxRings) \X Slots

ASSUME NoneAssumption == None \notin Nat \X Nat

TypeOK ==
    /\ at \in {"wait", "ring", "collect", "draw", "send", "off"}
    /\ ring \in 0..MaxRings /\ made \in 0..RING_SIZE
    /\ lent \in [Slots -> BOOLEAN] /\ index \in Slots
    /\ toWorker \in Seq(Messages) /\ toDolphin \in Seq(Pictures)
    /\ adopted \in 0..MaxRings /\ collected \subseteq Slots
    /\ reading \in Pictures \union {None}
    /\ alive \in BOOLEAN /\ crossed \in BOOLEAN

Init ==
    /\ at = "wait" /\ ring = 0 /\ made = 0
    /\ lent = [s \in Slots |-> FALSE] /\ index = 0
    /\ toWorker = <<>> /\ toDolphin = <<>>
    /\ adopted = 0 /\ collected = {} /\ reading = None
    /\ alive = TRUE /\ crossed = FALSE

-----------------------------------------------------------------------------
(* The emulator: OnFrame, called for every picture the game presents. *)

\* A picture of the same size as the last.
OnFrame ==
    /\ at = "wait" /\ ring # 0
    /\ at' = "collect"
    /\ UNCHANGED <<ring, made, lent, index, crossed, toWorker, toDolphin, workerVars>>

\* The first picture, or one of another size: the old images go, and with them
\* every mark of what was lent.
CreateRing ==
    /\ at = "wait" /\ ring < MaxRings
    /\ at' = "ring" /\ ring' = ring + 1 /\ made' = 0
    /\ lent' = [s \in Slots |-> FALSE] /\ crossed' = FALSE
    /\ UNCHANGED <<index, toWorker, toDolphin, workerVars>>

\* Mutant: one slot more than the ring has.
CreateOneMore ==
    /\ at = "ring" /\ alive /\ Len(toWorker) < Wire
    /\ toWorker' = Append(toWorker, Header(ring, made))
    /\ made' = made + 1
    /\ at' = IF made = RING_SIZE THEN "collect" ELSE "ring"
    /\ UNCHANGED <<ring, lent, index, crossed, toDolphin, workerVars>>

\* CreateSlot for the next slot; the send waits for room.
CreateSlot ==
    /\ at = "ring" /\ alive /\ Len(toWorker) < Wire
    /\ toWorker' = Append(toWorker, Header(ring, made))
    /\ made' = made + 1
    /\ at' = IF made' = RING_SIZE THEN "collect" ELSE "ring"
    /\ UNCHANGED <<ring, lent, index, crossed, toDolphin, workerVars>>

\* The export is off for good and the socket closed.
Disable ==
    /\ at' = "off" /\ lent' = [s \in Slots |-> FALSE]
    /\ UNCHANGED <<ring, made, index, crossed, toWorker, toDolphin, workerVars>>

\* No modifier, no memory, no descriptor, or nobody left to send it to.
CreateSlotFails == at = "ring" /\ Disable

FirstFree(busy) == CHOOSE s \in Slots : ~busy[s] /\ \A q \in Slots : ~busy[q] => s <= q

\* The slots the worker has given back, and those of them that were a picture of
\* an earlier ring (the message does not say).
Returned == {toDolphin[i][2] : i \in 1..Len(toDolphin)}
ReturnedLate == {toDolphin[i][2] : i \in {j \in 1..Len(toDolphin) : toDolphin[j][1] # ring}}

\* Mutants: a picture that finds every slot lent takes the first one; or is
\* dropped before the releases are read.
OverwritesWhenFull ==
    /\ at = "collect" /\ alive /\ at' = "draw"
    /\ lent' = [s \in Slots |-> lent[s] /\ s \notin Returned]
    /\ index' = IF \A s \in Slots : lent'[s] THEN 0 ELSE FirstFree(lent')
    /\ toDolphin' = <<>>
    /\ UNCHANGED <<ring, made, crossed, toWorker, workerVars>>

DropsBeforeCollecting ==
    /\ at = "collect" /\ alive
    /\ IF \A s \in Slots : lent[s]
       THEN at' = "wait" /\ UNCHANGED <<lent, index, crossed, toDolphin>>
       ELSE /\ lent' = [s \in Slots |-> lent[s] /\ s \notin Returned]
            /\ crossed' = (crossed \/ \E s \in ReturnedLate : lent[s])
            /\ at' = "draw" /\ index' = FirstFree(lent') /\ toDolphin' = <<>>
    /\ UNCHANGED <<ring, made, toWorker, workerVars>>

\* CollectReleases, then the lowest slot that is not lent; when all are, the
\* picture is dropped.
CollectReleases ==
    /\ at = "collect" /\ alive
    /\ lent' = [s \in Slots |-> lent[s] /\ s \notin Returned]
    /\ crossed' = (crossed \/ \E s \in ReturnedLate : lent[s])
    /\ IF \A s \in Slots : lent'[s]
       THEN at' = "wait" /\ UNCHANGED index
       ELSE at' = "draw" /\ index' = FirstFree(lent')
    /\ toDolphin' = <<>>
    /\ UNCHANGED <<ring, made, toWorker, workerVars>>

\* Mutant: an end of stream is taken for nothing to read.
EndIsNothing ==
    /\ at = "collect" /\ ~alive
    /\ at' = "wait"
    /\ UNCHANGED <<ring, made, lent, index, crossed, toWorker, toDolphin, workerVars>>

\* CollectReleases at the end of the stream: the worker closed the connection.
CollectEnd == at = "collect" /\ ~alive /\ Disable

\* The blit is submitted and waited for: at = "draw" is the time the GPU writes.
Draw ==
    /\ at = "draw"
    /\ at' = "send"
    /\ UNCHANGED <<ring, made, lent, index, crossed, toWorker, toDolphin, workerVars>>

\* Mutant: the slot is lent although the worker could not be told.
SendLendsAnyway ==
    /\ at = "send" /\ alive
    /\ at' = "wait"
    /\ toWorker' = IF Len(toWorker) < Wire THEN Append(toWorker, Ready(ring, index)) ELSE toWorker
    /\ lent' = [lent EXCEPT ![index] = TRUE]
    /\ UNCHANGED <<ring, made, index, crossed, toDolphin, workerVars>>

\* The notification, which does not wait for room: without it the slot stays
\* free and the next picture takes it.
SendReady ==
    /\ at = "send" /\ alive
    /\ at' = "wait"
    /\ IF Len(toWorker) < Wire
       THEN /\ toWorker' = Append(toWorker, Ready(ring, index))
            /\ lent' = [lent EXCEPT ![index] = TRUE]
       ELSE UNCHANGED <<toWorker, lent>>
    /\ UNCHANGED <<ring, made, index, crossed, toDolphin, workerVars>>

\* The worker went away.
SendFails == at = "send" /\ ~alive /\ Disable

-----------------------------------------------------------------------------
(* The worker: one picture at a time. *)

\* Mutant: the descriptors of a ring announced on the way are passed over.
KeepOldRing ==
    /\ alive /\ reading = None /\ toWorker # <<>> /\ Head(toWorker).kind = "header"
    /\ toWorker' = Tail(toWorker)
    /\ adopted' = IF adopted = 0 THEN Head(toWorker).ring ELSE adopted
    /\ UNCHANGED <<dolphinVars, toDolphin, collected, reading, alive>>

\* collect_ring, one descriptor at a time; the last one makes the ring the
\* worker's own and closes the images of the one before (receive_ring, adopt).
collect_ring ==
    /\ alive /\ reading = None /\ toWorker # <<>> /\ Head(toWorker).kind = "header"
    /\ toWorker' = Tail(toWorker)
    /\ LET got == collected \union {Head(toWorker).slot}
       IN IF got = Slots THEN collected' = {} /\ adopted' = Head(toWorker).ring
                         ELSE collected' = got /\ UNCHANGED adopted
    /\ UNCHANGED <<dolphinVars, toDolphin, reading, alive>>

\* next_frame on a notification: the slot is looked up in the ring the worker
\* has, and the picture is held until it is dropped.
next_frame ==
    /\ alive /\ reading = None /\ toWorker # <<>> /\ Head(toWorker).kind = "ready"
    /\ toWorker' = Tail(toWorker)
    /\ reading' = <<adopted, Head(toWorker).slot>>
    /\ UNCHANGED <<dolphinVars, toDolphin, adopted, collected, alive>>

\* LentFrame::drop, on every way out of the loop's body.
release ==
    /\ reading # None
    /\ reading' = None
    /\ toDolphin' = Append(toDolphin, reading)
    /\ UNCHANGED <<dolphinVars, toWorker, adopted, collected, alive>>

\* The loop is left between two pictures and the socket closed: the emulator's end
\* is shut and everything read, or the worker has its own reasons (a restart that
\* was asked for, thirty seconds without a picture, a descriptor that comes too
\* late, an encoder that fails).
LoopEnds ==
    /\ alive /\ reading = None
    /\ alive' = FALSE
    /\ UNCHANGED <<dolphinVars, toWorker, toDolphin, adopted, collected, reading>>

ProducerGone == at = "off" /\ toWorker = <<>> /\ LoopEnds

Next ==
    \/ OnFrame \/ CreateRing \/ CreateSlot \/ CreateSlotFails \/ CollectReleases
    \/ CollectEnd \/ Draw \/ SendReady \/ SendFails
    \/ collect_ring \/ next_frame \/ release \/ LoopEnds

Spec == Init /\ [][Next]_vars

\* The game goes on presenting pictures, and the worker goes on taking them.
FairSpec ==
    /\ Spec
    /\ WF_vars(OnFrame \/ CreateRing) /\ WF_vars(CreateSlot) /\ WF_vars(~alive /\ CreateSlotFails)
    /\ WF_vars(CollectReleases \/ CollectEnd) /\ WF_vars(Draw) /\ WF_vars(SendReady \/ SendFails)
    /\ WF_vars(collect_ring) /\ WF_vars(next_frame) /\ WF_vars(release) /\ WF_vars(ProducerGone)

-----------------------------------------------------------------------------

\* A notification is looked up in the ring it was sent for, however many rings
\* were announced since: the worker never reads one picture for another, and
\* never a ring it has only half of.
RightPicture ==
    toWorker # <<>> /\ Head(toWorker).kind = "ready" =>
        Head(toWorker).ring = adopted /\ collected = {}

\* A slot the emulator counts as lent is on its way to the worker, with it, or on
\* its way back: no slot is lost, whatever notifications the socket refused and
\* whatever rings came and went.
NoSlotIsLost ==
    \A s \in Slots : lent[s] =>
        \/ \E i \in 1..Len(toWorker) : toWorker[i] = Ready(ring, s)
        \/ reading = <<ring, s>>
        \/ \E i \in 1..Len(toDolphin) : toDolphin[i] = <<ring, s>>

\* The emulator draws into the image the worker reads only after a release of an
\* earlier ring has freed a slot of the present one.
TornOnlyByCrossing ==
    at = "draw" /\ reading = <<ring, index>> => crossed

\* Pictures keep coming for as long as the export is on.
PicturesKeepComing == []<>(reading # None \/ at = "off")

\* Neither end outlives the other: an export that is off ends the worker's loop,
\* and a worker that went away ends the export, even one whose slots are all lent.
EndTogether == (at = "off" ~> ~alive) /\ (~alive ~> at = "off")

\* frame_source.rs: "Dolphin will not reuse a slot until we release it".
NoTornPicture == ~(at = "draw" /\ reading = <<ring, index>>)
=============================================================================
