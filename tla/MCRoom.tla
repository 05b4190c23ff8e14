------------------------------ MODULE MCRoom ------------------------------
(***************************************************************************)
(* The parts of a room that are threads and processes: those that freeze   *)
(* it, close it, start and stop its emulator, carry its sound and its      *)
(* shakes, and the Switch games.  They share nothing but the process they  *)
(* run in, so a behaviour here is one of a single part, as in MCParts.     *)
(***************************************************************************)
EXTENDS Nap, IdleRule, Session, Rumble, Sound, SwitchRoom, SwitchSeats

VARIABLE part

One(S) == CHOOSE x \in S : TRUE

Parts == {"nap", "idle", "session", "rumble", "sound", "switch room", "switch seats"}

RoomInit ==
    /\ part \in Parts
    /\ NapInit /\ RumbleInit /\ SoundInit /\ SwitchSeatsInit
    /\ IdleInit /\ (part # "idle" => ~playing)
    /\ SessInit /\ (part # "session" => wrapped)
    /\ SwitchInit /\ (part # "switch room" => slotOf = [r \in Rooms |-> One(SaveSlots)])

Keeps(p, vars) == IF part = p THEN TRUE ELSE UNCHANGED vars

RoomNext ==
    /\ \/ part = "nap" /\ NapNext
       \/ part = "idle" /\ IdleNext
       \/ part = "session" /\ SessNext
       \/ part = "rumble" /\ RumbleNext
       \/ part = "sound" /\ SoundNext
       \/ part = "switch room" /\ SwitchNext
       \/ part = "switch seats" /\ SwitchSeatsNext
    /\ UNCHANGED part
    /\ Keeps("nap", napVars) /\ Keeps("idle", idleVars) /\ Keeps("session", sessVars)
    /\ Keeps("rumble", rumbleVars) /\ Keeps("sound", soundVars)
    /\ Keeps("switch room", switchVars) /\ Keeps("switch seats", switchSeatVars)

\* The fairness of each part, which is about its own behaviours only: the module
\* of the part says why the code justifies it.
RoomFairness ==
    /\ WF_napVars(part = "nap" /\ NapThread) /\ WF_napVars(part = "nap" /\ MainThread)
    /\ SF_napVars(part = "nap" /\ Tick)
    /\ WF_idleVars(part = "idle" /\ IdleThread) /\ WF_idleVars(part = "idle" /\ Refused)
    /\ SF_idleVars(part = "idle" /\ HalfMinute)
    /\ \A w \in Workers : WF_sessVars(part = "session" /\ WorkerStep(w))
    /\ WF_rumbleVars(part = "rumble" /\ \E n \in 1..READS : drain(n))
    /\ \A p \in Ports : WF_rumbleVars(part = "rumble" /\ send_rumble(p))
    /\ WF_soundVars(part = "sound" /\ ChunkDue) /\ WF_soundVars(part = "sound" /\ ReadPipe)
    /\ WF_soundVars(part = "sound" /\ NextChunk)
    /\ \A g \in Pages : /\ WF_soundVars(part = "sound" /\ Receive(g))
                        /\ WF_soundVars(part = "sound" /\ Handshake(g))
                        /\ WF_soundVars(part = "sound" /\ WriteChunk(g))
    /\ \A r \in Rooms : /\ WF_switchVars(part = "switch room" /\ AdapterMoves(r))
                        /\ WF_switchVars(part = "switch room" /\ AdapterWaited(r))
    /\ WF_switchSeatVars(part = "switch seats" /\ LookAtSeats(TRUE))

RoomSpec ==
    /\ RoomInit
    /\ [][RoomNext]_<<part, napVars, idleVars, sessVars, rumbleVars, soundVars, switchVars,
                      switchSeatVars>>
    /\ RoomFairness

-----------------------------------------------------------------------------
(* What the run checks.  Each is the conjunction of properties its modules   *)
(* state one by one, with the code they are about.                           *)

\* The emulator of a room is awake for whoever stays and leaves with its worker
\* (nap.rs), is alone in its room, and a Switch game is alone on its saves,
\* whatever was killed in between (lock.rs, process.rs, switch-room.py).
EmulatorsOK ==
    /\ NapTypeOK /\ AwakeWhenSomebodyStays /\ LeavesNothingBehind
    /\ SessTypeOK /\ OneEmulatorPerRoom /\ SavesMoveAlone /\ OwnEmulatorReads
    /\ SwitchTypeOK /\ OneSwitchGame /\ SlotPlayedAlone /\ CopiedWhenStill /\ SlotIsWhole

\* What comes out of the emulator's pipes byte by byte stays whole: a shake goes
\* to the pad it is for (rumble.rs), a chunk starts on a whole sample and the
\* emulator stays paced by its full pipe (sound.rs).
TapsOK ==
    /\ RumbleTypeOK /\ ShakesLandHome
    /\ SoundTypeOK /\ EmulatorIsPaced /\ ChunksAreWholeSamples

\* What no interleaving of these threads and processes may reach.
ThreadsOK == EmulatorsOK /\ TapsOK

\* A room comes back or goes away: an unexplained silence ends, a deserted game
\* is closed and no other, the session directory and the Switch place are given
\* back (nap.rs, main.rs, lock.rs, external.rs).
RoomsComeBack ==
    /\ SilenceIsBounded /\ [](IdleTypeOK) /\ DesertedRoomCloses /\ ClosesOnlyForgotten
    /\ LockComesBack /\ PlaceComesBack

\* What is owed to those who are there comes: the level a shake settles at, the
\* controllers of the seated and of nobody else, kept by who only reloads, an end
\* to a listener that left (rumble.rs, ingress.rs, browser/stream.rs).
WhatIsOwedComes ==
    /\ PageFeelsTheLevel /\ GoneListenersAreForgotten
    /\ [](SwitchSeatsTypeOK) /\ SeatedArePlugged /\ OthersAreUnplugged /\ ReloadKeepsItsPad
=============================================================================
