------------------------------- MODULE Launch -------------------------------
(***************************************************************************)
(* How a room changes game, closes its game and closes itself.             *)
(*                                                                         *)
(* A room is one worker process.  It has no "load another game" operation: *)
(* it writes the wanted game down in the session directory, exits, and the *)
(* service manager starts it again on what the files say.  Exit code 42    *)
(* tells the service manager to leave it down.  Four parties meet here:    *)
(*   - the main thread, in one of three loops (worker/src/main.rs, run);   *)
(*   - the control thread, which serves the lobby's orders one at a time   *)
(*     (transport/src/control.rs, serve);                                  *)
(*   - the controller sockets, whose players ask for a game themselves     *)
(*     (transport/src/browser/pad.rs, obey);                               *)
(*   - the idle thread, which closes an untouched room (watch_idle).       *)
(* They share the fields of BrowserServer, each behind its own lock, so a  *)
(* step below is what one thread does under one lock.                      *)
(***************************************************************************)
EXTENDS Naturals, FiniteSets

CONSTANTS
    PORTS,        \* the ports of a room (four in the code)
    Games,        \* the library
    SwitchGames,  \* its games that run on the Switch adapter, not on Dolphin
    WiiGames,     \* its discs recognised as a Wii's; the others are GameCube discs
    DefaultGame,  \* settings.rom, booted when no readable choice is kept
    NoGame,       \* a position the library does not have; an empty choice file
    Saves,        \* save slots; "fresh" and "person" are among them
    Persons,      \* identities the lobby certifies
    NoOne,        \* an empty person file
    Kinds,        \* the devices of a place (PadKind)
    GameCube,     \* the one a GameCube disc has, and the default
    Pro,          \* what the pages of a Switch room are told, in no set-up
    Launches,     \* the collective launches the lobby may order
    Wishes,       \* the positions a player may ask for over the socket
    Owners,       \* the seats the lobby may name as the owner, 0 for nobody
    Nothing,      \* an empty Option
    MaxBoots,     \* bound: worker processes
    MaxClaims,    \* bound: seats taken per process
    MaxFaults,    \* bound: failed file operations
    MaxCrashes    \* bound: deaths of the process outside its own exit

\* One device per place: PadSetup.
Places == 1..4
Pads == [Places -> Kinds]
AllOf(kind) == [place \in Places |-> kind]

Choices == [game : Games \union {NoGame}, save : Saves,
            person : Persons \union {NoOne}, pads : Pads]

ASSUME LibraryAssumption ==
    /\ DefaultGame \in Games /\ NoGame \notin Games
    /\ SwitchGames \subseteq Games /\ WiiGames \subseteq Games
    /\ SwitchGames \intersect WiiGames = {}
    /\ {"fresh", "person"} \subseteq Saves
    /\ NoOne \notin Persons /\ GameCube \in Kinds /\ Pro \notin Kinds
    /\ Launches \subseteq Choices /\ Wishes \subseteq Games \union {NoGame}
    /\ Nothing \notin Choices \union Games \union {NoGame} \union Pads
ASSUME BoundAssumption ==
    /\ PORTS \in Nat /\ Owners \subseteq 0..PORTS
    /\ MaxBoots \in Nat \ {0} /\ MaxClaims \in Nat
    /\ MaxFaults \in Nat /\ MaxCrashes \in Nat

VARIABLES
    disk,         \* the session directory: it survives the process
    prepared,     \* the lobby's accepted launch, or Nothing
    wants_rom,    \* the game a player asked for, or Nothing
    wants_save,   \* the save slot kept for the next socket request
    wants_pad,    \* the device kept for the next socket request
    closing,      \* a stop was accepted
    room_closing, \* the stop closes the room and not only its game
    lock,         \* who holds the mutex of `prepared` across two steps
    held,         \* port -> claim of its holder in this process, 0 when free
    nextClaim,    \* the counter behind next_claim
    owner,        \* the seat that decides, 0 for nobody
    recent,       \* the ports that played less than AWAY_AFTER ago, among those
                  \* that may be the owner's (nobody looks at the others)
    main,         \* where the main thread is
    mode,         \* which loop it runs: "menu", "refused", "dolphin", "switch"
    job,          \* the choice being written down, or Nothing
    source,       \* where the job came from: "prepared" or "rom"
    code,         \* exit code
    control,      \* where the control thread is
    idle,         \* where the idle thread is
    closed,       \* Idle.closed: Close was already said for this last gesture
    lobby,        \* the receipts the lobby last read, or Nothing
    boots,        \* processes so far; also the epoch in a receipt
    faults,       \* failed file operations so far
    crashes,      \* crashes so far
    promise,      \* history: the choice remember_choice last said was kept
    over,         \* history: the game ended for good and none was kept since
    unbroken      \* history: whoever the lobby saw seated kept the seat since

requestVars == <<prepared, wants_rom, wants_save, wants_pad>>
closeVars == <<closing, room_closing, lock>>
seatVars == <<held, nextClaim, owner, recent>>
loopVars == <<main, mode, job, source, code>>
boundVars == <<boots, faults, crashes>>
historyVars == <<promise, over, unbroken>>
vars == <<disk, prepared, wants_rom, wants_save, wants_pad, closing, room_closing,
          lock, held, nextClaim, owner, recent, main, mode, job, source,
          code, control, idle, closed, lobby, boots, faults, crashes, promise,
          over, unbroken>>

Ports == 1..PORTS
FERMEE == 42

\* Where the main thread writes a choice down, in the order of the writes.
Writing == {"pads", "choice", "pad", "save", "person", "playing"}
MainPCs == {"down", "take_switch", "loop", "prepared", "rom", "engine",
            "exit", "leaving"} \union Writing
Modes == {"menu", "refused", "dolphin", "switch"}
Receipts == [Ports -> (0..MaxBoots) \X (0..MaxClaims)]

Disks == [playback : {"playing", "idle"}, choice : Games \union {NoGame},
          setup : [game : Games \union {NoGame}, pads : Pads],
          pad : Kinds, save : Saves, person : Persons \union {NoOne}]

ServerOK ==
    /\ prepared \in Choices \union {Nothing}
    /\ wants_rom \in Games \union {NoGame, Nothing}
    /\ wants_save \in Saves /\ wants_pad \in Kinds
    /\ closing \in BOOLEAN /\ room_closing \in BOOLEAN
    /\ lock \in {"free", "control", "idle"}

SeatsOK ==
    /\ held \in [Ports -> 0..MaxClaims] /\ nextClaim \in 1..(MaxClaims + 1)
    /\ owner \in 0..PORTS /\ recent \subseteq Ports
    /\ lobby \in Receipts \union {Nothing}
    /\ boots \in 0..MaxBoots

ThreadsOK ==
    /\ main \in MainPCs /\ mode \in Modes
    /\ job \in Choices \union {Nothing} /\ source \in {"prepared", "rom"}
    /\ code \in {0, 1, FERMEE}
    /\ control \in {"wait", "check", "set"}
    /\ idle \in {"watch", "check", "set", "mark"} /\ closed \in BOOLEAN
    /\ faults \in 0..MaxFaults /\ crashes \in 0..MaxCrashes

HistoryOK ==
    promise \in Choices \union {Nothing} /\ over \in BOOLEAN /\ unbroken \in BOOLEAN

TypeOK == disk \in Disks /\ ServerOK /\ SeatsOK /\ ThreadsOK /\ HistoryOK

Up == main # "down"

-----------------------------------------------------------------------------
(* The session directory. *)

EmptyDisk == [playback |-> "playing", choice |-> NoGame,
              setup |-> [game |-> NoGame, pads |-> AllOf(GameCube)],
              pad |-> GameCube, save |-> "fresh", person |-> NoOne]

chosen_rom == IF disk.choice \in Games THEN disk.choice ELSE DefaultGame

\* The kept set-up, if it was kept for this game and not for an earlier one.
load_for(game) == IF disk.setup.game = game THEN disk.setup.pads ELSE Nothing

\* Mutant: a Wii game takes the device of the first place for everybody.
OneDeviceForAll(game) ==
    CASE game \in SwitchGames -> AllOf(Pro)
      [] game \in WiiGames -> AllOf(disk.pad)
      [] OTHER -> AllOf(GameCube)

\* The devices the pages are told of at boot, and for a disc those the emulator
\* is configured with: what was kept counts for a Wii disc only, and a set-up
\* kept for another game gives way to the one device of the older file.
chosen_pads(game) ==
    CASE game \in SwitchGames -> AllOf(Pro)
      [] game \in WiiGames ->
           IF load_for(game) # Nothing THEN load_for(game) ELSE AllOf(disk.pad)
      [] OTHER -> AllOf(GameCube)

\* What the files say to boot.
Chosen == [game |-> chosen_rom, save |-> disk.save, person |-> disk.person,
           pads |-> chosen_pads(chosen_rom)]

\* The folder a choice plays on: the person counts for the personal slot only,
\* and a personal slot without a person is the fresh one.
folder_for(c) ==
    IF c.save # "person" THEN <<c.save, NoOne>>
    ELSE IF c.person = NoOne THEN <<"fresh", NoOne>> ELSE <<"person", c.person>>

MayFail == faults < MaxFaults
Fails == MayFail /\ faults' = faults + 1
Works == faults' = faults

-----------------------------------------------------------------------------
(* The process: started by the service manager, gone with all its memory. *)

FreshServer ==
    /\ prepared' = Nothing /\ wants_rom' = Nothing
    /\ wants_save' = "fresh" /\ wants_pad' = GameCube
    /\ closing' = FALSE /\ room_closing' = FALSE /\ lock' = "free"
    /\ held' = [p \in Ports |-> 0] /\ nextClaim' = 1
    /\ owner' = 0 /\ recent' = {}
    /\ control' = "wait" /\ idle' = "watch" /\ closed' = FALSE
    /\ mode' = "menu" /\ job' = Nothing /\ source' = "prepared"

Init ==
    /\ disk = EmptyDisk
    /\ prepared = Nothing /\ wants_rom = Nothing
    /\ wants_save = "fresh" /\ wants_pad = GameCube
    /\ closing = FALSE /\ room_closing = FALSE /\ lock = "free"
    /\ held = [p \in Ports |-> 0] /\ nextClaim = 1
    /\ owner = 0 /\ recent = {}
    /\ main = "down" /\ mode = "menu" /\ job = Nothing /\ source = "prepared"
    /\ code = 0
    /\ control = "wait" /\ idle = "watch" /\ closed = FALSE
    /\ lobby = Nothing
    /\ boots = 0 /\ faults = 0 /\ crashes = 0
    /\ promise = Nothing /\ over = FALSE /\ unbroken = FALSE

\* run, down to its three loops.  The service manager starts the worker again
\* after any exit but 42; after 42 somebody opens the room from the lobby.
Boot ==
    /\ main = "down" /\ boots < MaxBoots
    /\ boots' = boots + 1 /\ unbroken' = FALSE
    /\ mode' = IF disk.playback = "idle" THEN "menu"
               ELSE IF chosen_rom \in SwitchGames THEN "switch" ELSE "dolphin"
    /\ main' = IF mode' = "switch" THEN "take_switch" ELSE "loop"
    /\ code' = 0
    /\ UNCHANGED <<disk, prepared, wants_rom, wants_save, wants_pad, closing,
                   room_closing, lock, held, nextClaim, owner, recent, job, source,
                   control, idle, closed, lobby, faults, crashes, promise, over>>

\* The process ends with this code and forgets everything but its files.
Die(exit) ==
    /\ main' = "down" /\ code' = exit /\ FreshServer
    /\ UNCHANGED <<lobby, boots, unbroken>>

\* SIGKILL, a panic, an error `?` carries out of run, a power cut.
Crash ==
    /\ Up /\ crashes < MaxCrashes /\ crashes' = crashes + 1
    /\ Die(1)
    /\ UNCHANGED <<disk, faults, promise, over>>

-----------------------------------------------------------------------------
(* Seats, the owner, and what a controller socket asks for. *)

\* Mutant: a receipt without the instant its process started.
ReceiptWithoutEpoch(c) == <<0, c>>

\* Identifies an attribution, across processes too.  <<0, 0>> is the dash.
receipt(c) == <<boots, c>>

seat_receipts == [p \in Ports |-> IF held[p] = 0 THEN <<0, 0>> ELSE receipt(held[p])]

decides(p) == owner = 0 \/ owner = p \/ owner \notin recent

\* Whether an attribution the lobby read has ended with this change of port p.
LobbySees(p) == unbroken' = (unbroken /\ lobby[p] = <<0, 0>>)

\* take_seat of the Seats module, as this module needs it: any port, free or
\* taken from its holder, gets a claim no other attribution of the process had.
Sit(p) ==
    /\ Up /\ nextClaim <= MaxClaims
    /\ held' = [held EXCEPT ![p] = nextClaim]
    /\ nextClaim' = nextClaim + 1 /\ LobbySees(p)
    /\ UNCHANGED <<disk, requestVars, closeVars, owner, recent, loopVars, control,
                   idle, closed, lobby, boundVars, promise, over>>

Leave(p) ==
    /\ held[p] # 0
    /\ held' = [held EXCEPT ![p] = 0] /\ LobbySees(p)
    /\ UNCHANGED <<disk, requestVars, closeVars, nextClaim, owner, recent, loopVars,
                   control, idle, closed, lobby, boundVars, promise, over>>

\* A pad frame that is not neutral stamps its port; the idle rule sees another
\* last gesture and may say Close again.
Gesture(p) ==
    /\ held[p] # 0
    /\ recent' = recent \union ({p} \intersect Owners) /\ closed' = FALSE
    /\ UNCHANGED <<disk, requestVars, closeVars, held, nextClaim, owner, loopVars,
                   control, idle, lobby, boundVars, historyVars>>

\* AWAY_AFTER passes without a gesture on this port.
Lapse(p) ==
    /\ recent' = recent \ {p} /\ p \in recent
    /\ UNCHANGED <<disk, requestVars, closeVars, held, nextClaim, owner, loopVars,
                   control, idle, closed, lobby, boundVars, historyVars>>

\* Command::ChooseSave and Command::ChoosePad: kept, nothing more.
Choose(p) ==
    /\ held[p] # 0
    /\ \/ wants_save' \in Saves /\ wants_pad' = wants_pad
       \/ wants_pad' \in Kinds /\ wants_save' = wants_save
    /\ UNCHANGED <<disk, prepared, wants_rom, closeVars, seatVars, loopVars, control,
                   idle, closed, lobby, boundVars, historyVars>>

\* Command::SwitchRom.  It looks at neither `prepared` nor `closing`.
SwitchRom(p, index) ==
    /\ held[p] # 0 /\ decides(p)
    /\ wants_rom' = index
    /\ UNCHANGED <<disk, prepared, wants_save, wants_pad, closeVars, seatVars,
                   loopVars, control, idle, closed, lobby, boundVars, historyVars>>

-----------------------------------------------------------------------------
(* The control port: one order at a time. *)

\* Order::SetOwner.
SetOwner(o) ==
    /\ Up /\ control = "wait" /\ o # owner
    /\ owner' = o
    /\ UNCHANGED <<disk, requestVars, closeVars, held, nextClaim, recent, loopVars,
                   control, idle, closed, lobby, boundVars, historyVars>>

\* Order::Seats: the lobby keeps the answer and builds its next orders on it,
\* however late, and even for a worker that has been restarted since.
ReadSeats ==
    /\ Up /\ control = "wait"
    /\ lobby' = seat_receipts /\ unbroken' = TRUE
    /\ UNCHANGED <<disk, requestVars, closeVars, seatVars, loopVars, control, idle,
                   closed, boundVars, promise, over>>

\* Order::Launch.  The lock of the seats is held from the comparison to the
\* end, the lock of `prepared` over the last three conjuncts; a refusal answers
\* "no" and changes nothing.  Launches have a known save slot and known devices.
prepare_launch(p, c) ==
    /\ Up /\ control = "wait" /\ lock = "free" /\ lobby # Nothing
    /\ held[p] # 0 /\ receipt(held[p]) = lobby[p]
    /\ seat_receipts = lobby
    /\ decides(p)
    /\ prepared = Nothing /\ ~closing
    /\ prepared' = c
    /\ UNCHANGED <<disk, wants_rom, wants_save, wants_pad, closeVars, seatVars,
                   loopVars, control, idle, closed, lobby, boundVars, historyVars>>

\* Order::Stop: the receipts are compared, their lock is given back, and only
\* then does close_now start.
request_stop ==
    /\ Up /\ control = "wait" /\ lobby # Nothing
    /\ seat_receipts = lobby
    /\ control' = "check"
    /\ UNCHANGED <<disk, requestVars, closeVars, seatVars, loopVars, idle, closed,
                   lobby, boundVars, historyVars>>

-----------------------------------------------------------------------------
(* close_now, run by the control thread and by the idle thread. *)

\* Mutant: the mutex of `prepared` is given back before `closing` is stored.
LooksWithoutLock(who) ==
    /\ lock = "free" /\ prepared = Nothing /\ wants_rom = Nothing
    /\ UNCHANGED lock

\* Both requests are looked at; the mutex of `prepared` stays taken.
LooksForWork(who) ==
    /\ lock = "free" /\ prepared = Nothing /\ wants_rom = Nothing
    /\ lock' = who

HasWork == lock = "free" /\ (prepared # Nothing \/ wants_rom # Nothing)

ControlCloses ==
    /\ \/ control = "check" /\ HasWork /\ control' = "wait" /\ UNCHANGED closeVars
       \/ /\ control = "check" /\ LooksForWork("control") /\ control' = "set"
          /\ UNCHANGED <<closing, room_closing>>
       \/ /\ control = "set" /\ control' = "wait"
          /\ closing' = TRUE /\ lock' = "free" /\ UNCHANGED room_closing
    /\ UNCHANGED <<disk, requestVars, seatVars, loopVars, idle, closed, lobby,
                   boundVars, historyVars>>

rom_wanted == wants_rom # Nothing \/ prepared # Nothing \/ closing

\* watch_idle: the rule says Close at most once per last gesture, in a room
\* that has booted a game and has no work, once nobody has played for `after`
\* or nobody has been there for `empty`.
IdleSaysClose ==
    /\ Up /\ idle = "watch"
    /\ mode # "menu" /\ ~rom_wanted /\ ~closed /\ lock = "free"
    /\ closed' = TRUE /\ idle' = "check"
    /\ UNCHANGED <<disk, requestVars, closeVars, seatVars, loopVars, control, lobby,
                   boundVars, historyVars>>

\* close_idle: close_now, then the flag that makes the exit final.
close_idle ==
    /\ \/ idle = "check" /\ HasWork /\ idle' = "watch" /\ UNCHANGED closeVars
       \/ /\ idle = "check" /\ LooksForWork("idle") /\ idle' = "set"
          /\ UNCHANGED <<closing, room_closing>>
       \/ /\ idle = "set" /\ idle' = "mark"
          /\ closing' = TRUE /\ lock' = "free" /\ UNCHANGED room_closing
       \/ /\ idle = "mark" /\ idle' = "watch"
          /\ room_closing' = TRUE /\ UNCHANGED <<closing, lock>>
    /\ UNCHANGED <<disk, requestVars, seatVars, loopVars, control, closed, lobby,
                   boundVars, historyVars>>

-----------------------------------------------------------------------------
(* The main thread. *)

AllButMain == <<prepared, wants_rom, wants_save, wants_pad, room_closing, lock, held,
                nextClaim, owner, recent, control, idle, closed, lobby, boots,
                crashes, unbroken>>

\* Playback::Idle.store: from here on a restart serves the menus only.
StoreIdle ==
    /\ Works
    /\ disk' = [disk EXCEPT !.playback = "idle"]
    /\ over' = TRUE /\ promise' = Nothing

\* The same call when the marker cannot be written.
StoreIdleFails == Fails /\ UNCHANGED <<disk, over, promise>>

Goto(place) == main' = place /\ UNCHANGED <<mode, job, source, code>>

\* Mutant: a refused room waits without writing down that it plays nothing.
RefusedKeepsPlaying ==
    /\ main = "take_switch"
    /\ \/ Goto("loop") /\ UNCHANGED <<disk, faults, over, promise>>
       \/ /\ main' = "loop" /\ mode' = "refused"
          /\ Works /\ over' = TRUE /\ promise' = Nothing
          /\ UNCHANGED <<disk, job, source, code>>
    /\ UNCHANGED <<AllButMain, closing>>

\* One room of the machine plays on the Switch.  A room that finds it taken
\* writes that down first, then serves its menus.
take_switch ==
    /\ main = "take_switch"
    /\ \/ Goto("loop") /\ UNCHANGED <<disk, faults, over, promise, AllButMain, closing>>
       \/ /\ StoreIdle /\ main' = "loop" /\ mode' = "refused"
          /\ UNCHANGED <<job, source, code, AllButMain, closing>>
       \/ StoreIdleFails /\ Die(1) /\ UNCHANGED crashes

\* SIGTERM, and for Dolphin a frame source that ended or thirty seconds of
\* silence from an awake emulator: the loop is left with nothing written.
GivesUp ==
    /\ main = "loop" /\ Goto("exit")
    /\ UNCHANGED <<disk, faults, over, promise, AllButMain, closing>>

\* Mutant: the loop never looks at `closing`.
NeverStops ==
    /\ main = "loop" /\ closing /\ Goto("prepared")
    /\ UNCHANGED <<disk, faults, over, promise, AllButMain, closing>>

\* An accepted stop, as each loop treats it.  Dolphin's loop takes the stop
\* back when the marker cannot be written, the Switch's leaves with the error,
\* and the menus have nothing to write.
Stops ==
    /\ main = "loop" /\ closing
    /\ \/ /\ mode \in {"menu", "refused"} /\ Goto("exit")
          /\ UNCHANGED <<disk, faults, over, promise, AllButMain, closing>>
       \/ /\ mode \in {"dolphin", "switch"} /\ StoreIdle /\ Goto("exit")
          /\ UNCHANGED <<AllButMain, closing>>
       \/ /\ mode = "dolphin" /\ StoreIdleFails
          /\ closing' = FALSE /\ Goto("prepared")
          /\ UNCHANGED AllButMain
       \/ mode = "switch" /\ StoreIdleFails /\ Die(1) /\ UNCHANGED crashes

GoesOn ==
    /\ main = "loop" /\ ~closing /\ Goto("prepared")
    /\ UNCHANGED <<disk, faults, over, promise, AllButMain, closing>>

\* remember_choice starts on this choice, or refuses a game the library does
\* not have and goes on as after any other failure.
Remember(c, from, otherwise) ==
    /\ job' = IF c.game \in Games THEN c ELSE Nothing
    /\ main' = IF c.game \in Games THEN "pads" ELSE otherwise
    /\ source' = IF c.game \in Games THEN from ELSE "prepared"
    /\ UNCHANGED <<mode, code>>

AfterRom == IF mode = "switch" THEN "engine" ELSE "loop"

take_prepared_launch ==
    /\ main = "prepared" /\ lock = "free"
    /\ prepared' = Nothing
    /\ IF prepared = Nothing THEN Goto("rom") ELSE Remember(prepared, "prepared", "rom")
    /\ UNCHANGED <<disk, wants_rom, wants_save, wants_pad, closeVars, seatVars, control,
                   idle, closed, lobby, boundVars, historyVars>>

\* The request of a socket takes the slot kept at this moment, the device kept at
\* this moment for all four places, and nobody's name: no identity is certified on this path.
take_rom_request ==
    /\ main = "rom"
    /\ wants_rom' = Nothing
    /\ IF wants_rom = Nothing THEN Goto(AfterRom)
       ELSE Remember([game |-> wants_rom, save |-> wants_save, person |-> NoOne,
                      pads |-> AllOf(wants_pad)], "rom", AfterRom)
    /\ UNCHANGED <<disk, prepared, wants_save, wants_pad, closeVars, seatVars, control,
                   idle, closed, lobby, boundVars, historyVars>>

\* The adapter is still running, or it died: then the game is over.
engine_status ==
    /\ main = "engine"
    /\ \/ Goto("loop") /\ UNCHANGED <<disk, faults, over, promise, AllButMain, closing>>
       \/ StoreIdle /\ Goto("exit") /\ UNCHANGED <<AllButMain, closing>>
       \/ StoreIdleFails /\ Die(1) /\ UNCHANGED crashes

(* remember_choice, one file after the other. *)

GiveUpJob ==
    /\ job' = Nothing /\ source' = "prepared"
    /\ main' = IF source = "prepared" THEN "rom" ELSE AfterRom
    /\ UNCHANGED <<mode, code>>

\* The set-up is written aside and renamed: a failure leaves the old one.
WritePads ==
    /\ main = "pads"
    /\ \/ /\ Works /\ Goto("choice") /\ promise' = Nothing
          /\ disk' = [disk EXCEPT !.setup = [game |-> job.game, pads |-> job.pads]]
       \/ Fails /\ GiveUpJob /\ UNCHANGED <<disk, promise>>
    /\ UNCHANGED <<AllButMain, closing, over>>

\* Mutant: a choice that could not be written does not cancel the launch.
UnwrittenChoiceGoesOn ==
    /\ main = "choice" /\ Goto("pad")
    /\ \/ Works /\ disk' = [disk EXCEPT !.choice = job.game]
       \/ Fails /\ disk' \in {disk, [disk EXCEPT !.choice = NoGame]}
    /\ UNCHANGED <<AllButMain, closing, over, promise>>

\* A plain write that fails leaves the file as it was, or emptied.
WriteChoice ==
    /\ main = "choice"
    /\ \/ Works /\ Goto("pad") /\ disk' = [disk EXCEPT !.choice = job.game]
       \/ /\ Fails /\ GiveUpJob
          /\ disk' \in {disk, [disk EXCEPT !.choice = NoGame]}
    /\ UNCHANGED <<AllButMain, closing, over, promise>>

\* The device of the first place, for a set-up file that cannot be read: a
\* failure does not cancel the launch, and leaves the old one or GameCube.
WritePad ==
    /\ main = "pad" /\ Goto("save")
    /\ \/ Works /\ disk' = [disk EXCEPT !.pad = job.pads[1]]
       \/ Fails /\ disk' \in {disk, [disk EXCEPT !.pad = GameCube]}
    /\ UNCHANGED <<AllButMain, closing, over, promise>>

\* Mutant: the name goes to the file of the slot.
SaveGetsPerson ==
    /\ main = "save" /\ Goto("person")
    /\ Works /\ disk' = [disk EXCEPT !.save = job.person]
    /\ UNCHANGED <<AllButMain, closing, over, promise>>

\* A slot that cannot be written does not cancel the launch.
WriteSave ==
    /\ main = "save" /\ Goto("person")
    /\ \/ Works /\ disk' = [disk EXCEPT !.save = job.save]
       \/ Fails /\ disk' \in {disk, [disk EXCEPT !.save = "fresh"]}
    /\ UNCHANGED <<AllButMain, closing, over, promise>>

\* Mutant: an empty name is not worth a write.
WritePersonIfNamed ==
    /\ main = "person" /\ Goto("playing")
    /\ Works
    /\ disk' = IF job.person = NoOne THEN disk ELSE [disk EXCEPT !.person = job.person]
    /\ UNCHANGED <<AllButMain, closing, over, promise>>

\* Written even when empty, to erase the previous one.
WritePerson ==
    /\ main = "person" /\ Goto("playing")
    /\ \/ Works /\ disk' = [disk EXCEPT !.person = job.person]
       \/ Fails /\ disk' \in {disk, [disk EXCEPT !.person = NoOne]}
    /\ UNCHANGED <<AllButMain, closing, over, promise>>

\* Playback::Playing.store, the last of the six.  `remember_choice` answers
\* true and the loop is left.  Without a marker there is nothing to remove, so
\* the call cannot fail.
WritePlaying ==
    /\ main = "playing"
    /\ \/ /\ Works /\ main' = "exit" /\ job' = Nothing /\ source' = "prepared"
          /\ disk' = [disk EXCEPT !.playback = "playing"]
          /\ promise' = job /\ over' = FALSE
          /\ UNCHANGED <<mode, code>>
       \/ /\ disk.playback = "idle" /\ Fails /\ GiveUpJob
          /\ UNCHANGED <<disk, promise, over>>
    /\ UNCHANGED <<AllButMain, closing>>

\* The code is decided here; the emulator is still to be shut down, and the
\* control thread still answers.
ReadRoomClosing ==
    /\ main = "exit"
    /\ main' = "leaving" /\ code' = IF room_closing THEN FERMEE ELSE 0
    /\ UNCHANGED <<mode, job, source, disk, faults, over, promise,
                   AllButMain, closing>>

\* The idle thread is joined before the process ends.
EndProcess ==
    /\ main = "leaving" /\ idle = "watch"
    /\ Die(code)
    /\ UNCHANGED <<disk, faults, crashes, promise, over>>

MainStep ==
    \/ take_switch \/ Stops \/ GoesOn \/ take_prepared_launch \/ take_rom_request
    \/ engine_status \/ WritePads \/ WriteChoice \/ WritePad \/ WriteSave
    \/ WritePerson \/ WritePlaying \/ ReadRoomClosing \/ EndProcess

Players ==
    \E p \in Ports : \/ Sit(p) \/ Leave(p) \/ Gesture(p) \/ Lapse(p) \/ Choose(p)
                     \/ \E g \in Wishes : SwitchRom(p, g)

Lobby ==
    \/ ReadSeats \/ request_stop
    \/ \E o \in Owners : SetOwner(o)
    \/ \E p \in Ports, c \in Launches : prepare_launch(p, c)

Next ==
    \/ Boot \/ Crash \/ GivesUp \/ MainStep \/ Players \/ Lobby
    \/ ControlCloses \/ IdleSaysClose \/ close_idle

Spec == Init /\ [][Next]_vars

\* The threads of a running worker run, and a thread that waits for the mutex of
\* `prepared` gets it in the end even if the lobby keeps sending orders: hence
\* strong fairness.  People, the lobby, the clock of the idle rule, failures and
\* the service manager owe nothing.
FairSpec == Spec /\ SF_vars(MainStep) /\ WF_vars(ControlCloses) /\ SF_vars(close_idle)

-----------------------------------------------------------------------------
(* Properties. *)

\* prepare_launch and close_now exclude each other through the mutex of
\* `prepared`: a launch is never waiting in a room that has accepted to close,
\* so no lobby is told "ok" for a launch the main loop will never look at.
LaunchExcludesClose == closing => prepared = Nothing

\* What remember_choice said it kept is what the next process boots, whatever
\* file operations failed on the way: the game, and for a Wii disc the device of
\* each place.  A GameCube disc has GameCube pads whatever was asked for, and
\* the pages of a Switch game are told of its own.
KeptGameBoots ==
    promise # Nothing =>
        /\ disk.playback = "playing" /\ Chosen.game = promise.game
        /\ promise.game \in WiiGames => Chosen.pads = promise.pads

\* ... and, when no write failed, on the save folder that was asked for: never
\* on the slot or the person of an earlier launch.
KeptSaveBoots ==
    promise # Nothing /\ faults = 0 => folder_for(Chosen) = folder_for(promise)

\* A game that was closed, refused or found dead stays closed through every
\* exit, crash and restart, until another launch is written down completely.
ClosedUntilRelaunched == over => disk.playback = "idle"

\* An accepted launch was ordered for the room as it is: everyone the lobby saw
\* seated has kept that seat of that process without a break, and nobody else
\* is seated.  A receipt is never worn twice, by a rejoining player or by a
\* restarted worker whose counter starts again.
NoStaleLaunch ==
    [][prepared = Nothing /\ prepared' # Nothing =>
        unbroken /\ \A p \in Ports : held[p] # 0 <=> lobby[p] # <<0, 0>>]_vars

\* Every order the worker accepted is picked up: the main loop hears a stop, a
\* collective launch and a player's wish, or the process ends.
OrdersAreHeard ==
    /\ closing ~> ~closing
    /\ prepared # Nothing ~> prepared = Nothing
    /\ wants_rom # Nothing ~> wants_rom = Nothing

(* A sentence of the repository that the code does not keep. *)

\* mod.rs, room_closing: "false for a change of game, which exits too but wants
\* to be started again".
ClosesOnlyWithoutGame ==
    main = "leaving" /\ code = FERMEE => promise = Nothing
=============================================================================
