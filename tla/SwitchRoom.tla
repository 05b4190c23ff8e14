----------------------------- MODULE SwitchRoom -----------------------------
(***************************************************************************)
(* The rooms that play a Switch game: one place for the whole machine, one *)
(* adapter per game with the slot of its saves (worker/src/main.rs, run;   *)
(* emulator/src/lock.rs, take_switch; emulator/src/external.rs;            *)
(* docker/switch-room.py).                                                 *)
(*                                                                         *)
(* The worker holds the place until its adapter is gone.  The adapter      *)
(* holds its slot, stops the container before it copies the saves, and     *)
(* knows of the end of its worker by the end of its input.  A worker that  *)
(* dies frees the place at once, whatever its adapter is still doing, and  *)
(* systemd kills that adapter before it restarts the worker                *)
(* (KillMode=mixed); a container outlives them both.                       *)
(***************************************************************************)
EXTENDS Naturals, FiniteSets

CONSTANTS
    Rooms,          \* the rooms of the machine
    SaveSlots,      \* the slots of a title
    NoRoom,         \* the place, or a slot, is free
    MaxDeaths       \* bound: workers that die

ASSUME SwitchAssumption == NoRoom \notin Rooms /\ MaxDeaths \in Nat

VARIABLES
    room,           \* room -> where its worker is
    kept,           \* room -> what it boots on: "switch" or "idle"
    slotOf,         \* room -> the slot of its game
    switchPlace,    \* the room that holds switch_lock, or NoRoom
    adapter,        \* room -> where its adapter is
    slotLock,       \* slot -> the room whose adapter holds running.lock
    data,           \* slot -> its data: "none", "half" (unfinished copy), "whole"
    engine,         \* room -> its container runs
    hungCapture,    \* rooms whose capture no longer answers
    orphans,        \* slots on which a container runs that nobody will stop
    deaths,         \* workers that died
    refusals        \* history: docker once refused to stop a container

switchVars == <<room, kept, slotOf, switchPlace, adapter, slotLock, data, engine, hungCapture,
                orphans, deaths, refusals>>
adapterVars == <<adapter, slotLock, data, engine, hungCapture, orphans, refusals>>
workerSide == <<room, kept, slotOf, switchPlace, deaths>>

Steps == {"none", "lock", "copy", "rename", "saved", "start", "serve", "stop", "backup", "done"}

SwitchTypeOK ==
    /\ room \in [Rooms -> {"off", "lock", "bind", "run", "eof", "menu", "dead"}]
    /\ kept \in [Rooms -> {"switch", "idle"}] /\ slotOf \in [Rooms -> SaveSlots]
    /\ switchPlace \in Rooms \union {NoRoom} /\ adapter \in [Rooms -> Steps]
    /\ slotLock \in [SaveSlots -> Rooms \union {NoRoom}]
    /\ data \in [SaveSlots -> {"none", "half", "whole"}] /\ engine \in [Rooms -> BOOLEAN]
    /\ hungCapture \subseteq Rooms /\ orphans \subseteq SaveSlots
    /\ deaths \in 0..MaxDeaths /\ refusals \in BOOLEAN

SwitchInit ==
    /\ room = [r \in Rooms |-> "menu"] /\ kept = [r \in Rooms |-> "idle"]
    /\ slotOf \in [Rooms -> SaveSlots] /\ switchPlace = NoRoom
    /\ adapter = [r \in Rooms |-> "none"] /\ slotLock = [s \in SaveSlots |-> NoRoom]
    /\ data = [s \in SaveSlots |-> "none"] /\ engine = [r \in Rooms |-> FALSE]
    /\ hungCapture = {} /\ orphans = {} /\ deaths = 0 /\ refusals = FALSE

Step(r, from, to) == adapter[r] = from /\ adapter' = [adapter EXCEPT ![r] = to]
Proceed(r, from, to) == room[r] = from /\ room' = [room EXCEPT ![r] = to]
Release(r) == IF switchPlace = r THEN NoRoom ELSE switchPlace
Unlocked(r) == [s \in SaveSlots |-> IF slotLock[s] = r THEN NoRoom ELSE slotLock[s]]

-----------------------------------------------------------------------------
(* The worker *)

\* From the menu of a room, a Switch game and a slot.
ChooseSwitch(r, s) ==
    /\ Proceed(r, "menu", "off") /\ kept' = [kept EXCEPT ![r] = "switch"]
    /\ slotOf' = [slotOf EXCEPT ![r] = s] /\ UNCHANGED <<switchPlace, deaths, adapterVars>>

Restart(r) ==
    /\ adapter[r] = "none" /\ Proceed(r, "off", IF kept[r] = "switch" THEN "lock" ELSE "menu")
    /\ UNCHANGED <<kept, slotOf, switchPlace, deaths, adapterVars>>

\* The place, or the menu: the refusal is kept first, so that the room does not
\* restart on the same refused game.
TakeSwitch(r) ==
    /\ \/ switchPlace = NoRoom /\ Proceed(r, "lock", "bind") /\ switchPlace' = r /\ UNCHANGED kept
       \/ switchPlace # NoRoom /\ Proceed(r, "lock", "menu") /\ kept' = [kept EXCEPT ![r] = "idle"] /\ UNCHANGED switchPlace
    /\ UNCHANGED <<slotOf, deaths, adapterVars>>

\* Ingress::bind and External::start; an error of either ends the worker.
StartAdapter(r) ==
    /\ \/ Proceed(r, "bind", "run") /\ adapter' = [adapter EXCEPT ![r] = "lock"] /\ UNCHANGED switchPlace
       \/ Proceed(r, "bind", "off") /\ switchPlace' = Release(r) /\ UNCHANGED adapter
    /\ UNCHANGED <<kept, slotOf, deaths, slotLock, data, engine, hungCapture, orphans, refusals>>

\* Mutant: the place is given back with the game, the adapter still stopping.
SwitchEndsEarly(r, next) ==
    /\ Proceed(r, "run", "eof") /\ kept' = [kept EXCEPT ![r] = next] /\ switchPlace' = Release(r)
    /\ UNCHANGED <<slotOf, deaths, adapterVars>>

\* A stop, another game, a signal, or an adapter found dead: its input is closed.
SwitchEnds(r, next) ==
    /\ Proceed(r, "run", "eof") /\ kept' = [kept EXCEPT ![r] = next]
    /\ adapter[r] = "done" => next = "idle"
    /\ UNCHANGED <<slotOf, switchPlace, deaths, adapterVars>>

\* External::shutdown waits for the adapter, and the place goes last of all.
AdapterWaited(r) ==
    /\ adapter[r] = "done" /\ Proceed(r, "eof", "off") /\ switchPlace' = Release(r)
    /\ adapter' = [adapter EXCEPT ![r] = "none"]
    /\ UNCHANGED <<kept, slotOf, deaths, slotLock, data, engine, hungCapture, orphans, refusals>>

SwitchWorkerDies(r) ==
    /\ deaths < MaxDeaths /\ deaths' = deaths + 1
    /\ room[r] \in {"lock", "bind", "run", "eof"} /\ room' = [room EXCEPT ![r] = "dead"]
    /\ switchPlace' = Release(r) /\ UNCHANGED <<kept, slotOf, adapterVars>>

\* systemd kills what is left of the unit, and starts it again.
UnitCleared(r) ==
    /\ Proceed(r, "dead", "off") /\ adapter' = [adapter EXCEPT ![r] = "none"]
    /\ slotLock' = Unlocked(r) /\ engine' = [engine EXCEPT ![r] = FALSE]
    /\ orphans' = IF engine[r] THEN orphans \union {slotOf[r]} ELSE orphans
    /\ hungCapture' = hungCapture \ {r}
    /\ UNCHANGED <<kept, slotOf, switchPlace, deaths, data, refusals>>

-----------------------------------------------------------------------------
(* The adapter *)

InputClosed(r) == room[r] # "run"

\* Mutant: the slot is taken whoever holds it.
TakeSlotAnyway(r) ==
    /\ Step(r, "lock", "copy") /\ slotLock' = [slotLock EXCEPT ![slotOf[r]] = r]
    /\ UNCHANGED <<workerSide, data, engine, hungCapture, orphans, refusals>>

\* running.lock, or an end with an error.
TakeSlot(r) ==
    /\ IF slotLock[slotOf[r]] = NoRoom
       THEN Step(r, "lock", "copy") /\ slotLock' = [slotLock EXCEPT ![slotOf[r]] = r]
       ELSE Step(r, "lock", "done") /\ UNCHANGED slotLock
    /\ UNCHANGED <<workerSide, data, engine, hungCapture, orphans, refusals>>

\* Mutant: the template is copied where the game will look for it.
InitialiseInPlace(r) ==
    /\ IF data[slotOf[r]] = "none"
       THEN Step(r, "copy", "rename") /\ data' = [data EXCEPT ![slotOf[r]] = "half"]
       ELSE Step(r, "copy", "saved") /\ UNCHANGED data
    /\ UNCHANGED <<workerSide, slotLock, engine, hungCapture, orphans, refusals>>

\* initialise: a slot that has data is left alone, another is copied beside.
Initialise(r) ==
    /\ Step(r, "copy", IF data[slotOf[r]] = "none" THEN "rename" ELSE "saved")
    /\ UNCHANGED <<workerSide, slotLock, data, engine, hungCapture, orphans, refusals>>

RenamePending(r) ==
    /\ Step(r, "rename", "saved") /\ data' = [data EXCEPT ![slotOf[r]] = "whole"]
    /\ UNCHANGED <<workerSide, slotLock, engine, hungCapture, orphans, refusals>>

\* backup, before the game.
BackupFirst(r) ==
    /\ Step(r, "saved", "start")
    /\ UNCHANGED <<workerSide, slotLock, data, engine, hungCapture, orphans, refusals>>

\* The pads, then the container; without either, the end.
StartEngine(r) ==
    /\ \/ Step(r, "start", "serve") /\ engine' = [engine EXCEPT ![r] = TRUE] /\ UNCHANGED slotLock
       \/ Step(r, "start", "done") /\ slotLock' = Unlocked(r) /\ UNCHANGED engine
    /\ UNCHANGED <<workerSide, data, hungCapture, orphans, refusals>>

EngineExits(r) ==
    /\ engine[r] /\ engine' = [engine EXCEPT ![r] = FALSE]
    /\ UNCHANGED <<workerSide, adapter, slotLock, data, hungCapture, orphans, refusals>>

CaptureHangs(r) ==
    /\ adapter[r] = "serve" /\ hungCapture' = hungCapture \union {r}
    /\ UNCHANGED <<workerSide, adapter, slotLock, data, engine, orphans, refusals>>

\* The input closed, the container gone, or three captures failed in a minute.
LeaveServe(r) ==
    /\ Step(r, "serve", "stop") /\ (InputClosed(r) \/ ~engine[r] \/ r \in hungCapture)
    /\ UNCHANGED <<workerSide, slotLock, data, engine, hungCapture, orphans, refusals>>

\* Mutant: a capture is waited for until it ends.
StopEnginePatient(r) ==
    /\ r \notin hungCapture /\ Step(r, "stop", "backup") /\ engine' = [engine EXCEPT ![r] = FALSE]
    /\ UNCHANGED <<workerSide, slotLock, data, hungCapture, orphans, refusals>>

\* Mutant: the saves are copied and the container stopped afterwards.
StopEngineLater(r) ==
    /\ Step(r, "stop", "backup")
    /\ UNCHANGED <<workerSide, slotLock, data, engine, hungCapture, orphans, refusals>>

\* stop_engine: the capture is given fifteen seconds, the container is stopped
\* whatever became of it.
StopEngine(r) ==
    /\ Step(r, "stop", "backup") /\ engine' = [engine EXCEPT ![r] = FALSE]
    /\ hungCapture' = hungCapture \ {r}
    /\ UNCHANGED <<workerSide, slotLock, data, orphans, refusals>>

\* docker stop itself fails: nothing is copied, and the container stays.
StopRefused(r) ==
    /\ engine[r] /\ ~refusals /\ refusals' = TRUE
    /\ Step(r, "stop", "done") /\ slotLock' = Unlocked(r)
    /\ engine' = [engine EXCEPT ![r] = FALSE] /\ orphans' = orphans \union {slotOf[r]}
    /\ hungCapture' = hungCapture \ {r}
    /\ UNCHANGED <<workerSide, data>>

\* backup, the removal of the container, the pads, and the end of the process.
BackupLast(r) ==
    /\ Step(r, "backup", "done") /\ slotLock' = Unlocked(r)
    /\ UNCHANGED <<workerSide, data, engine, hungCapture, orphans, refusals>>

AdapterMoves(r) ==
    TakeSlot(r) \/ Initialise(r) \/ RenamePending(r) \/ BackupFirst(r) \/ StartEngine(r)
    \/ LeaveServe(r) \/ StopEngine(r) \/ StopRefused(r) \/ BackupLast(r)

SwitchNext ==
    \E r \in Rooms :
        \/ (\E s \in SaveSlots : ChooseSwitch(r, s)) \/ Restart(r) \/ TakeSwitch(r) \/ StartAdapter(r)
        \/ (\E next \in {"switch", "idle"} : SwitchEnds(r, next)) \/ AdapterWaited(r)
        \/ SwitchWorkerDies(r) \/ UnitCleared(r)
        \/ AdapterMoves(r) \/ EngineExits(r) \/ CaptureHangs(r)

SwitchSpec == SwitchInit /\ [][SwitchNext]_switchVars

-----------------------------------------------------------------------------
\* One room plays a Switch game at a time, containers still stopping included, as
\* long as no worker died and docker stops what it is told to (take_switch, run).
OneSwitchGame ==
    deaths = 0 /\ ~refusals => Cardinality({r \in Rooms : engine[r]}) <= 1 /\ orphans = {}

\* Two adapters never play on the saves of one slot, even when the place of a dead
\* worker was given away while its adapter still ran (running.lock, serve).
SlotPlayedAlone ==
    \A q, r \in Rooms : q # r /\ engine[q] /\ engine[r] => slotOf[q] # slotOf[r]

\* The saves are copied while no adapter's container writes them (backup).
CopiedWhenStill ==
    \A q, r \in Rooms : adapter[q] \in {"saved", "backup"} /\ engine[r] => slotOf[q] # slotOf[r]

\* A game never starts on a copy of the template that was cut short (initialise).
SlotIsWhole == \A r \in Rooms : engine[r] => data[slotOf[r]] = "whole"

\* A room that ends its game gives the place back, even with a hung capture
\* (External::shutdown, stop_engine).
PlaceComesBack == \A r \in Rooms : room[r] = "eof" ~> switchPlace # r
=============================================================================
