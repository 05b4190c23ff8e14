------------------------------- MODULE Slots --------------------------------
(***************************************************************************)
(* The controller ports of the machine and those a room serves             *)
(* (emulator/src/slots.rs; protocol/src/lib.rs, MAX_PLAYERS).              *)
(***************************************************************************)
EXTENDS Naturals

CONSTANTS
    MAX_PLAYERS,   \* ports of the machine: 4 in the code
    Players        \* settings.players, how many of them the room serves

ASSUME SlotsAssumption ==
    MAX_PLAYERS \in Nat \ {0} /\ Players \in 1..MAX_PLAYERS

Ports == 1..MAX_PLAYERS

\* The SlotSet of the session: every port up to the size of the room.
Served == {p \in Ports : p <= Players}
=============================================================================
