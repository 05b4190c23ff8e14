---------------------------- MODULE LaunchProofs ----------------------------
(***************************************************************************)
(* What Launch keeps true for every library, every number of ports, seats, *)
(* processes, failed writes and crashes.                                   *)
(*                                                                         *)
(* Three strengthenings carry the proofs.  MutexInv says who holds the     *)
(* mutex of `prepared` and that nothing is prepared meanwhile: without it  *)
(* the thread that has looked for work and is about to store `closing`     *)
(* could be overtaken.  FilesInv says how far the files agree with the job *)
(* being written at each of the six writes.  TypeOK is used for both.     *)
(***************************************************************************)
EXTENDS Launch, TLAPS

\* close_now: whoever is between the look and the store holds the mutex, and as
\* long as it is held no launch is waiting.
MutexInv ==
    /\ control = "set" <=> lock = "control"
    /\ idle = "set" <=> lock = "idle"
    /\ lock # "free" => prepared = Nothing
    /\ closing => prepared = Nothing

\* The mutex is taken and given back by the two closers alone.
THEOREM MutexInvariant == Spec => []MutexInv
<1>1. Init => MutexInv
  BY DEF Init, MutexInv
<1>2. MutexInv /\ [Next]_vars => MutexInv'
  <2> SUFFICES ASSUME MutexInv, [Next]_vars PROVE MutexInv'
    OBVIOUS
  <2> USE DEF MutexInv
  <2>1. ASSUME Boot PROVE MutexInv'
    BY <2>1 DEF Boot
  <2>2. ASSUME NEW exit, Die(exit) PROVE MutexInv'
    BY <2>2 DEF Die, FreshServer
  <2>3. ASSUME Crash PROVE MutexInv'
    BY <2>3, <2>2 DEF Crash
  <2>4. ASSUME GivesUp PROVE MutexInv'
    BY <2>4 DEF GivesUp, AllButMain
  <2>5. ASSUME MainStep PROVE MutexInv'
    <3>1. CASE take_switch
      BY <3>1, <2>2 DEF take_switch, AllButMain
    <3>2. CASE Stops
      BY <3>2, <2>2 DEF Stops, AllButMain
    <3>3. CASE GoesOn
      BY <3>3 DEF GoesOn, AllButMain
    <3>4. CASE take_prepared_launch
      BY <3>4 DEF take_prepared_launch, closeVars
    <3>5. CASE take_rom_request
      BY <3>5 DEF take_rom_request, closeVars
    <3>6. CASE engine_status
      BY <3>6, <2>2 DEF engine_status, AllButMain
    <3>7. CASE WritePads
      BY <3>7 DEF WritePads, AllButMain
    <3>8. CASE WriteChoice
      BY <3>8 DEF WriteChoice, AllButMain
    <3>9. CASE WritePad \/ WriteSave
      BY <3>9 DEF WritePad, WriteSave, AllButMain
    <3>10. CASE WritePerson
      BY <3>10 DEF WritePerson, AllButMain
    <3>11. CASE WritePlaying
      BY <3>11 DEF WritePlaying, AllButMain
    <3>12. CASE ReadRoomClosing
      BY <3>12 DEF ReadRoomClosing, AllButMain
    <3>13. CASE EndProcess
      BY <3>13, <2>2 DEF EndProcess
    <3> QED
      BY <2>5, <3>1, <3>2, <3>3, <3>4, <3>5, <3>6, <3>7, <3>8, <3>9, <3>10, <3>11,
         <3>12, <3>13 DEF MainStep
  <2>6. ASSUME Players PROVE MutexInv'
    <3> PICK p \in Ports : \/ Sit(p) \/ Leave(p) \/ Gesture(p) \/ Lapse(p) \/ Choose(p)
                           \/ \E g \in Wishes : SwitchRom(p, g)
      BY <2>6 DEF Players
    <3> QED
      BY DEF Sit, Leave, Gesture, Lapse, Choose, SwitchRom, requestVars, closeVars
  <2>7. ASSUME Lobby PROVE MutexInv'
    BY <2>7 DEF Lobby, ReadSeats, request_stop, SetOwner, prepare_launch, requestVars,
       closeVars
  <2>8. ASSUME ControlCloses PROVE MutexInv'
    BY <2>8 DEF ControlCloses, HasWork, LooksForWork, requestVars, closeVars
  <2>9. ASSUME IdleSaysClose PROVE MutexInv'
    BY <2>9 DEF IdleSaysClose, requestVars, closeVars
  <2>10. ASSUME close_idle PROVE MutexInv'
    BY <2>10 DEF close_idle, HasWork, LooksForWork, requestVars, closeVars
  <2>11. ASSUME UNCHANGED vars PROVE MutexInv'
    BY <2>11 DEF vars
  <2> QED
    BY <2>1, <2>3, <2>4, <2>5, <2>6, <2>7, <2>8, <2>9, <2>10, <2>11 DEF Next
<1> QED
  BY <1>1, <1>2, PTL DEF Spec

\* prepare_launch and close_now exclude each other: no launch waits in a room
\* that has accepted to close.
THEOREM NoLaunchIntoAClosingRoom == Spec => []LaunchExcludesClose
<1>1. MutexInv => LaunchExcludesClose
  BY DEF MutexInv, LaunchExcludesClose
<1> QED
  BY <1>1, MutexInvariant, PTL

-----------------------------------------------------------------------------
(* Types. *)

USE DEF MainPCs, Writing, Modes, FERMEE

LEMMA InitTypes == Init => TypeOK
<1> SUFFICES ASSUME Init PROVE TypeOK
  OBVIOUS
<1>1. disk \in Disks
  <2>1. AllOf(GameCube) \in Pads /\ GameCube \in Kinds
    BY LibraryAssumption DEF AllOf, Pads
  <2> QED
    BY <2>1, LibraryAssumption DEF Init, EmptyDisk, Disks
<1>2. ServerOK
  BY LibraryAssumption DEF Init, ServerOK
<1>3. SeatsOK
  BY BoundAssumption DEF Init, SeatsOK
<1>4. ThreadsOK
  <2>1. faults \in 0..MaxFaults /\ crashes \in 0..MaxCrashes
    BY BoundAssumption DEF Init
  <2> QED
    BY <2>1 DEF Init, ThreadsOK
<1>5. HistoryOK
  BY DEF Init, HistoryOK
<1> QED
  BY <1>1, <1>2, <1>3, <1>4, <1>5 DEF TypeOK

\* A process that ends leaves well-typed memory behind, whatever its code.
LEMMA DieTypes ==
    ASSUME TypeOK, NEW exit \in {0, 1, FERMEE}, Die(exit),
           disk' = disk, faults' \in 0..MaxFaults, crashes' \in 0..MaxCrashes,
           promise' = promise, over' = over
    PROVE  TypeOK'
<1> USE DEF TypeOK, Die, FreshServer
<1>1. disk' \in Disks
  OBVIOUS
<1>2. ServerOK'
  BY LibraryAssumption DEF ServerOK
<1>3. SeatsOK'
  BY BoundAssumption DEF SeatsOK
<1>4. ThreadsOK'
  BY DEF ThreadsOK
<1>5. HistoryOK'
  BY DEF HistoryOK
<1> QED
  BY <1>1, <1>2, <1>3, <1>4, <1>5

LEMMA CountTypes ==
    ASSUME ThreadsOK
    PROVE  /\ Works => faults' \in 0..MaxFaults
           /\ Fails => faults' \in 0..MaxFaults
BY BoundAssumption DEF ThreadsOK, Works, Fails, MayFail

LEMMA StoreTypes ==
    ASSUME TypeOK
    PROVE  /\ StoreIdle => disk' \in Disks /\ faults' \in 0..MaxFaults
                             /\ over' \in BOOLEAN /\ promise' \in Choices \union {Nothing}
           /\ StoreIdleFails => disk' = disk /\ faults' \in 0..MaxFaults
                                  /\ over' = over /\ promise' = promise
BY CountTypes DEF TypeOK, StoreIdle, StoreIdleFails, Disks

\* The choices a job may be: what the lobby prepared, or a wish with the slot
\* and the devices kept for it.
LEMMA RememberTypes ==
    ASSUME ThreadsOK, NEW c \in Choices, NEW from \in {"prepared", "rom"},
           NEW otherwise \in MainPCs, Remember(c, from, otherwise)
    PROVE  /\ main' \in MainPCs /\ mode' = mode /\ code' = code
           /\ job' \in Choices \union {Nothing} /\ source' \in {"prepared", "rom"}
BY DEF ThreadsOK, Remember

LEMMA SeatTypes ==
    ASSUME TypeOK, NEW p \in Ports,
           Sit(p) \/ Leave(p) \/ Gesture(p) \/ Lapse(p) \/ Choose(p)
    PROVE  TypeOK'
<1> USE DEF TypeOK, requestVars, closeVars, loopVars, boundVars, historyVars, seatVars
<1>1. CASE Sit(p)
  <2>1. held' \in [Ports -> 0..MaxClaims] /\ nextClaim' \in 1..(MaxClaims + 1)
    BY <1>1, BoundAssumption DEF Sit, SeatsOK
  <2>2. unbroken' \in BOOLEAN
    BY <1>1 DEF Sit, LobbySees
  <2> QED
    BY <1>1, <2>1, <2>2 DEF Sit, ServerOK, SeatsOK, ThreadsOK, HistoryOK
<1>2. CASE Leave(p)
  <2>1. held' \in [Ports -> 0..MaxClaims]
    BY <1>2, BoundAssumption DEF Leave, SeatsOK
  <2>2. unbroken' \in BOOLEAN
    BY <1>2 DEF Leave, LobbySees
  <2> QED
    BY <1>2, <2>1, <2>2 DEF Leave, ServerOK, SeatsOK, ThreadsOK, HistoryOK
<1>3. CASE Gesture(p)
  <2>1. recent' \subseteq Ports
    BY <1>3 DEF Gesture, SeatsOK
  <2>2. closed' \in BOOLEAN
    BY <1>3 DEF Gesture
  <2> QED
    BY <1>3, <2>1, <2>2 DEF Gesture, ServerOK, SeatsOK, ThreadsOK, HistoryOK
<1>4. CASE Lapse(p)
  BY <1>4 DEF Lapse, ServerOK, SeatsOK, ThreadsOK, HistoryOK
<1>5. CASE Choose(p)
  BY <1>5 DEF Choose, ServerOK, SeatsOK, ThreadsOK, HistoryOK
<1> QED
  BY <1>1, <1>2, <1>3, <1>4, <1>5

LEMMA OrderTypes ==
    ASSUME TypeOK, Lobby \/ ControlCloses \/ IdleSaysClose \/ close_idle
                     \/ \E p \in Ports, g \in Wishes : SwitchRom(p, g)
    PROVE  TypeOK'
<1> USE DEF TypeOK, requestVars, closeVars, loopVars, boundVars, historyVars, seatVars
<1>1. CASE Lobby
  <2>1. CASE ReadSeats
    <3>1. seat_receipts \in Receipts
      BY BoundAssumption DEF seat_receipts, receipt, Receipts, SeatsOK
    <3> QED
      BY <2>1, <3>1 DEF ReadSeats, ServerOK, SeatsOK, ThreadsOK, HistoryOK
  <2>2. CASE request_stop
    BY <2>2 DEF request_stop, ServerOK, SeatsOK, ThreadsOK, HistoryOK
  <2>3. CASE \E o \in Owners : SetOwner(o)
    BY <2>3, BoundAssumption DEF SetOwner, ServerOK, SeatsOK, ThreadsOK, HistoryOK
  <2>4. CASE \E p \in Ports, c \in Launches : prepare_launch(p, c)
    BY <2>4, LibraryAssumption
       DEF prepare_launch, ServerOK, SeatsOK, ThreadsOK, HistoryOK
  <2> QED
    BY <1>1, <2>1, <2>2, <2>3, <2>4 DEF Lobby
<1>2. CASE ControlCloses
  <2>1. closing' \in BOOLEAN /\ room_closing' = room_closing
    BY <1>2 DEF ControlCloses, ServerOK
  <2>2. control' \in {"wait", "check", "set"} /\ lock' \in {"free", "control", "idle"}
    BY <1>2 DEF ControlCloses, LooksForWork, ServerOK
  <2> QED
    BY <1>2, <2>1, <2>2 DEF ControlCloses, ServerOK, SeatsOK, ThreadsOK, HistoryOK
<1>3. CASE IdleSaysClose
  BY <1>3 DEF IdleSaysClose, ServerOK, SeatsOK, ThreadsOK, HistoryOK
<1>4. CASE close_idle
  <2>1. closing' \in BOOLEAN /\ room_closing' \in BOOLEAN
    BY <1>4 DEF close_idle, ServerOK
  <2>2. /\ idle' \in {"watch", "check", "set", "mark"}
        /\ lock' \in {"free", "control", "idle"}
    BY <1>4 DEF close_idle, LooksForWork, ServerOK
  <2> QED
    BY <1>4, <2>1, <2>2 DEF close_idle, ServerOK, SeatsOK, ThreadsOK, HistoryOK
<1>5. CASE \E p \in Ports, g \in Wishes : SwitchRom(p, g)
  BY <1>5, LibraryAssumption DEF SwitchRom, ServerOK, SeatsOK, ThreadsOK, HistoryOK
<1> QED
  BY <1>1, <1>2, <1>3, <1>4, <1>5

\* What every step of the main thread but an end of the process leaves alone.
LEMMA MainTypes ==
    ASSUME TypeOK, UNCHANGED AllButMain, closing' \in BOOLEAN, disk' \in Disks,
           main' \in MainPCs, mode' \in Modes, job' \in Choices \union {Nothing},
           source' \in {"prepared", "rom"}, code' \in {0, 1, FERMEE},
           faults' \in 0..MaxFaults, over' \in BOOLEAN,
           promise' \in Choices \union {Nothing}
    PROVE  TypeOK'
<1> USE DEF TypeOK, AllButMain
<1>1. ServerOK'
  BY DEF ServerOK
<1>2. SeatsOK'
  BY DEF SeatsOK
<1>3. ThreadsOK'
  BY DEF ThreadsOK
<1>4. HistoryOK'
  BY DEF HistoryOK
<1> QED
  BY <1>1, <1>2, <1>3, <1>4

LEMMA WriteTypes ==
    ASSUME TypeOK,
           WritePads \/ WriteChoice \/ WritePad \/ WriteSave \/ WritePerson \/ WritePlaying,
           main \in Writing => job \in Choices /\ job.game \in Games
    PROVE  TypeOK'
<1>0. /\ disk \in Disks /\ closing \in BOOLEAN /\ main \in MainPCs /\ mode \in Modes
      /\ job \in Choices \union {Nothing} /\ source \in {"prepared", "rom"}
      /\ code \in {0, 1, FERMEE} /\ over \in BOOLEAN /\ ThreadsOK
      /\ promise \in Choices \union {Nothing}
  BY DEF TypeOK, ServerOK, ThreadsOK, HistoryOK
<1>1. faults' \in 0..MaxFaults
  BY <1>0, CountTypes DEF WritePads, WriteChoice, WritePad, WriteSave, WritePerson,
     WritePlaying
<1>2. /\ main' \in MainPCs /\ mode' \in Modes /\ job' \in Choices \union {Nothing}
      /\ source' \in {"prepared", "rom"} /\ code' \in {0, 1, FERMEE}
  BY <1>0 DEF WritePads, WriteChoice, WritePad, WriteSave, WritePerson,
     WritePlaying, Goto, GiveUpJob, AfterRom
<1>3. job \in Choices /\ job.game \in Games
  BY DEF WritePads, WriteChoice, WritePad, WriteSave, WritePerson,
     WritePlaying
<1>4. disk' \in Disks
  <2>1. /\ job.game \in Games \union {NoGame} /\ job.pads \in Pads /\ job.save \in Saves
        /\ job.person \in Persons \union {NoOne}
    BY <1>3 DEF Choices
  <2>2. CASE WritePads
    BY <1>0, <2>1, <2>2 DEF WritePads, Disks
  <2>3. CASE WriteChoice
    BY <1>0, <2>1, <2>3 DEF WriteChoice, Disks
  <2>4. CASE WriteSave
    BY <1>0, <2>1, <2>4, LibraryAssumption DEF WriteSave, Disks
  <2>7. CASE WritePad
    <3>1. job.pads[1] \in Kinds /\ GameCube \in Kinds
      BY <2>1, LibraryAssumption DEF Pads, Places
    <3> QED
      BY <1>0, <2>7, <3>1 DEF WritePad, Disks
  <2>5. CASE WritePerson
    BY <1>0, <2>1, <2>5 DEF WritePerson, Disks
  <2>6. CASE WritePlaying
    BY <1>0, <2>6 DEF WritePlaying, Disks
  <2> QED
    BY <2>2, <2>3, <2>4, <2>5, <2>6, <2>7
<1>5. over' \in BOOLEAN /\ promise' \in Choices \union {Nothing}
  BY <1>0, <1>3 DEF WritePads, WriteChoice, WritePad, WriteSave, WritePerson,
     WritePlaying
<1>6. UNCHANGED AllButMain /\ closing' \in BOOLEAN
  BY <1>0 DEF WritePads, WriteChoice, WritePad, WriteSave, WritePerson,
     WritePlaying
<1> QED
  BY <1>1, <1>2, <1>4, <1>5, <1>6, MainTypes

LEMMA LoopTypes ==
    ASSUME TypeOK, take_switch \/ GivesUp \/ Stops \/ GoesOn \/ engine_status
                     \/ ReadRoomClosing \/ EndProcess
    PROVE  TypeOK'
<1>0. /\ disk \in Disks /\ closing \in BOOLEAN /\ main \in MainPCs /\ mode \in Modes
      /\ job \in Choices \union {Nothing} /\ source \in {"prepared", "rom"}
      /\ code \in {0, 1, FERMEE} /\ over \in BOOLEAN /\ promise \in Choices \union {Nothing}
      /\ faults \in 0..MaxFaults /\ crashes \in 0..MaxCrashes
  BY DEF TypeOK, ServerOK, ThreadsOK, HistoryOK
<1> DEFINE Dies == \E exit \in {0, 1, FERMEE} :
                     /\ Die(exit) /\ disk' = disk /\ promise' = promise /\ over' = over
                     /\ faults' \in 0..MaxFaults /\ crashes' \in 0..MaxCrashes
           Stays == /\ UNCHANGED AllButMain /\ closing' \in BOOLEAN /\ disk' \in Disks
                    /\ main' \in MainPCs /\ mode' \in Modes
                    /\ job' \in Choices \union {Nothing}
                    /\ source' \in {"prepared", "rom"} /\ code' \in {0, 1, FERMEE}
                    /\ faults' \in 0..MaxFaults /\ over' \in BOOLEAN
                    /\ promise' \in Choices \union {Nothing}
<1>1. Dies => TypeOK'
  BY DieTypes
<1>2. Stays => TypeOK'
  BY MainTypes
<1>3. CASE take_switch
  BY <1>0, <1>1, <1>2, <1>3, StoreTypes DEF take_switch, Goto
<1>4. CASE GivesUp
  BY <1>0, <1>2, <1>4 DEF GivesUp, Goto
<1>5. CASE Stops
  BY <1>0, <1>1, <1>2, <1>5, StoreTypes DEF Stops, Goto
<1>6. CASE GoesOn
  BY <1>0, <1>2, <1>6 DEF GoesOn, Goto
<1>7. CASE engine_status
  BY <1>0, <1>1, <1>2, <1>7, StoreTypes DEF engine_status, Goto
<1>8. CASE ReadRoomClosing
  BY <1>0, <1>2, <1>8 DEF ReadRoomClosing
<1>9. CASE EndProcess
  BY <1>0, <1>1, <1>9 DEF EndProcess
<1> QED
  BY <1>3, <1>4, <1>5, <1>6, <1>7, <1>8, <1>9

LEMMA TakeTypes ==
    ASSUME TypeOK, take_prepared_launch \/ take_rom_request
    PROVE  TypeOK'
<1> USE DEF closeVars, seatVars, boundVars, historyVars
<1>0. /\ main \in MainPCs /\ mode \in Modes /\ job \in Choices \union {Nothing}
      /\ source \in {"prepared", "rom"} /\ code \in {0, 1, FERMEE} /\ ThreadsOK
      /\ prepared \in Choices \union {Nothing}
      /\ wants_rom \in Games \union {NoGame, Nothing}
      /\ wants_save \in Saves /\ wants_pad \in Kinds
  BY DEF TypeOK, ServerOK, ThreadsOK
<1> DEFINE Moves == /\ main' \in MainPCs /\ mode' = mode /\ code' = code
                    /\ job' \in Choices \union {Nothing} /\ source' \in {"prepared", "rom"}
<1>1. CASE take_prepared_launch
  <2>1. Moves
    BY <1>0, <1>1, RememberTypes DEF take_prepared_launch, Goto
  <2> QED
    BY <1>1, <2>1 DEF take_prepared_launch, TypeOK, ServerOK, SeatsOK, ThreadsOK, HistoryOK
<1>2. CASE take_rom_request
  <2> DEFINE wish == [game |-> wants_rom, save |-> wants_save, person |-> NoOne,
                      pads |-> AllOf(wants_pad)]
  <2>1. wants_rom # Nothing => wish \in Choices
    BY <1>0 DEF Choices, Pads, AllOf
  <2>2. AfterRom \in MainPCs
    BY DEF AfterRom
  <2>3. Moves
    BY <1>0, <1>2, <2>1, <2>2, RememberTypes DEF take_rom_request, Goto
  <2> QED
    BY <1>2, <2>3 DEF take_rom_request, TypeOK, ServerOK, SeatsOK, ThreadsOK, HistoryOK
<1> QED
  BY <1>1, <1>2

-----------------------------------------------------------------------------
(* The files of the session directory. *)

\* How far the files agree with the job, write after write; the promise of the
\* previous job ends with the first write of the next.
FilesInv ==
    /\ main \in Writing => job \in Choices /\ job.game \in Games
    /\ main \in Writing \ {"pads"} =>
         promise = Nothing /\ disk.setup = [game |-> job.game, pads |-> job.pads]
    /\ main \in {"pad", "save", "person", "playing"} => disk.choice = job.game
    /\ main \in {"person", "playing"} /\ faults = 0 => disk.save = job.save
    /\ main = "playing" /\ faults = 0 => disk.person = job.person
    /\ KeptGameBoots /\ KeptSaveBoots /\ ClosedUntilRelaunched

\* A step away from the files keeps what is known of them.
LEMMA FilesUntouched ==
    ASSUME FilesInv, UNCHANGED <<disk, main, job, promise, over, faults>>
    PROVE  FilesInv'
BY DEF FilesInv, KeptGameBoots, KeptSaveBoots, ClosedUntilRelaunched, chosen_rom, load_for,
   chosen_pads, Chosen, folder_for

\* So does one that leaves the writing, if the disk is as it was or says idle.
LEMMA FilesLeft ==
    ASSUME TypeOK, FilesInv, main' \in MainPCs \ Writing, faults' \in Nat,
           faults' = 0 => faults = 0,
           \/ UNCHANGED <<disk, promise, over>>
           \/ disk' = [disk EXCEPT !.playback = "idle"] /\ promise' = Nothing
    PROVE  FilesInv'
<1>1. CASE UNCHANGED <<disk, promise, over>>
  BY <1>1 DEF FilesInv, KeptGameBoots, KeptSaveBoots, ClosedUntilRelaunched, chosen_rom,
     load_for, chosen_pads, Chosen, folder_for
<1>2. CASE disk' = [disk EXCEPT !.playback = "idle"] /\ promise' = Nothing
  <2>1. disk'.playback = "idle"
    BY <1>2 DEF TypeOK, Disks
  <2> QED
    BY <1>2, <2>1 DEF FilesInv, KeptGameBoots, KeptSaveBoots, ClosedUntilRelaunched
<1> QED
  BY <1>1, <1>2

LEMMA CountsGrow ==
    ASSUME TypeOK, Works \/ Fails
    PROVE  faults' \in Nat /\ (faults' = 0 => faults = 0) /\ (Fails => faults' # 0)
BY BoundAssumption DEF TypeOK, ThreadsOK, Works, Fails, MayFail

LEMMA LoopFiles ==
    ASSUME TypeOK, FilesInv,
           Boot \/ Crash \/ take_switch \/ GivesUp \/ Stops \/ GoesOn \/ engine_status
             \/ ReadRoomClosing \/ EndProcess
    PROVE  FilesInv'
<1>0. faults \in Nat /\ main \in MainPCs
  BY BoundAssumption DEF TypeOK, ThreadsOK
<1> DEFINE Idles == disk' = [disk EXCEPT !.playback = "idle"] /\ promise' = Nothing
           Same == UNCHANGED <<disk, promise, over>>
           Count == faults' \in Nat /\ (faults' = 0 => faults = 0)
<1>1. StoreIdle => Idles /\ Count
  BY CountsGrow DEF StoreIdle
<1>2. StoreIdleFails => Same /\ Count
  BY CountsGrow DEF StoreIdleFails
<1>3. faults' = faults => Count
  BY <1>0
<1>4. (Same \/ Idles) /\ Count /\ main' \in MainPCs \ Writing => FilesInv'
  BY FilesLeft
<1> HIDE DEF Idles, Same, Count
<1>5. CASE Boot
  BY <1>3, <1>4, <1>5 DEF Boot, Same
<1>6. CASE Crash
  BY <1>3, <1>4, <1>6 DEF Crash, Die, Same
<1>7. CASE take_switch
  BY <1>1, <1>2, <1>3, <1>4, <1>7 DEF take_switch, Goto, Die, Same
<1>8. CASE GivesUp
  BY <1>3, <1>4, <1>8 DEF GivesUp, Goto, Same
<1>9. CASE Stops
  BY <1>1, <1>2, <1>3, <1>4, <1>9 DEF Stops, Goto, Die, Same
<1>10. CASE GoesOn
  BY <1>3, <1>4, <1>10 DEF GoesOn, Goto, Same
<1>11. CASE engine_status
  BY <1>1, <1>2, <1>3, <1>4, <1>11 DEF engine_status, Goto, Die, Same
<1>12. CASE ReadRoomClosing
  BY <1>3, <1>4, <1>12 DEF ReadRoomClosing, Same
<1>13. CASE EndProcess
  BY <1>3, <1>4, <1>13 DEF EndProcess, Die, Same
<1> QED
  BY <1>5, <1>6, <1>7, <1>8, <1>9, <1>10, <1>11, <1>12, <1>13

LEMMA TakeFiles ==
    ASSUME TypeOK, FilesInv, take_prepared_launch \/ take_rom_request
    PROVE  FilesInv'
<1>0. /\ prepared \in Choices \union {Nothing} /\ AfterRom \in MainPCs \ Writing
      /\ wants_rom \in Games \union {NoGame, Nothing} /\ wants_save \in Saves
      /\ wants_pad \in Kinds /\ faults \in Nat
  BY BoundAssumption DEF TypeOK, ServerOK, ThreadsOK, AfterRom
<1>1. UNCHANGED <<disk, promise, over, faults>>
  BY DEF take_prepared_launch, take_rom_request, historyVars, boundVars
<1>2. \/ main' \in MainPCs \ Writing
      \/ main' = "pads" /\ job' \in Choices /\ job'.game \in Games
  <2>1. CASE take_prepared_launch
    BY <1>0, <2>1 DEF take_prepared_launch, Goto, Remember
  <2>2. CASE take_rom_request
    <3> DEFINE wish == [game |-> wants_rom, save |-> wants_save, person |-> NoOne,
                        pads |-> AllOf(wants_pad)]
    <3>1. wants_rom # Nothing => wish \in Choices /\ wish.game = wants_rom
      BY <1>0 DEF Choices, Pads, AllOf
    <3> QED
      BY <1>0, <2>2, <3>1 DEF take_rom_request, Goto, Remember
  <2> QED
    BY <2>1, <2>2
<1> QED
  BY <1>0, <1>1, <1>2 DEF FilesInv, KeptGameBoots, KeptSaveBoots, ClosedUntilRelaunched,
     chosen_rom, load_for, chosen_pads, Chosen, folder_for

LEMMA WriteFiles ==
    ASSUME TypeOK, FilesInv,
           WritePads \/ WriteChoice \/ WritePad \/ WriteSave \/ WritePerson \/ WritePlaying
    PROVE  FilesInv'
<1>0. /\ disk \in Disks /\ faults \in Nat /\ source \in {"prepared", "rom"}
      /\ AfterRom \in MainPCs \ Writing /\ main \in Writing
  BY BoundAssumption DEF TypeOK, ThreadsOK, AfterRom, WritePads, WriteChoice, WritePad,
     WriteSave, WritePerson, WritePlaying
<1>1. job \in Choices /\ job.game \in Games /\ job # Nothing
  BY <1>0, LibraryAssumption DEF FilesInv
<1>2. faults' \in Nat /\ (faults' = 0 => faults = 0) /\ (Fails => faults' # 0)
  BY CountsGrow DEF WritePads, WriteChoice, WritePad, WriteSave, WritePerson,
     WritePlaying
<1>3. GiveUpJob => main' \in MainPCs \ Writing
  BY <1>0 DEF GiveUpJob
<1>4. CASE WritePads
  <2>1. CASE GiveUpJob /\ UNCHANGED <<disk, promise>>
    BY <1>2, <1>3, <1>4, <2>1, FilesLeft DEF WritePads
  <2>2. CASE /\ Goto("choice") /\ promise' = Nothing
             /\ disk' = [disk EXCEPT !.setup = [game |-> job.game, pads |-> job.pads]]
    <3>1. /\ disk'.setup = [game |-> job.game, pads |-> job.pads]
          /\ disk'.playback = disk.playback
      BY <1>0, <2>2 DEF Disks
    <3> QED
      BY <1>1, <1>4, <2>2, <3>1 DEF WritePads, Goto, FilesInv, KeptGameBoots,
         KeptSaveBoots, ClosedUntilRelaunched
  <2> QED
    BY <1>4, <2>1, <2>2 DEF WritePads
<1>5. CASE WriteChoice
  <2>0. promise = Nothing /\ promise' = Nothing /\ over' = over
    BY <1>5 DEF WriteChoice, FilesInv
  <2>1. disk'.playback = disk.playback /\ disk'.setup = disk.setup
    BY <1>0, <1>5 DEF WriteChoice, Disks
  <2>2. CASE GiveUpJob
    BY <1>3, <2>0, <2>1, <2>2 DEF FilesInv, KeptGameBoots, KeptSaveBoots,
       ClosedUntilRelaunched
  <2>3. CASE Goto("pad") /\ disk' = [disk EXCEPT !.choice = job.game]
    <3>1. disk'.choice = job.game
      BY <1>0, <2>3 DEF Disks
    <3> QED
      BY <1>1, <1>5, <2>0, <2>1, <2>3, <3>1 DEF WriteChoice, Goto, FilesInv,
         KeptGameBoots, KeptSaveBoots, ClosedUntilRelaunched
  <2> QED
    BY <1>5, <2>2, <2>3 DEF WriteChoice
<1>9. CASE WritePad
  <2>0. promise = Nothing /\ promise' = Nothing /\ over' = over /\ job' = job
    BY <1>9 DEF WritePad, FilesInv, Goto
  <2>1. /\ disk'.playback = disk.playback /\ disk'.setup = disk.setup
        /\ disk'.choice = disk.choice
    BY <1>0, <1>9 DEF WritePad, Disks
  <2> QED
    BY <1>1, <1>2, <1>9, <2>0, <2>1 DEF WritePad, Goto, FilesInv, KeptGameBoots,
       KeptSaveBoots, ClosedUntilRelaunched
<1>6. CASE WriteSave
  <2>0. promise = Nothing /\ promise' = Nothing /\ over' = over /\ job' = job
    BY <1>6 DEF WriteSave, FilesInv, Goto
  <2>1. /\ disk'.playback = disk.playback /\ disk'.setup = disk.setup
        /\ disk'.choice = disk.choice /\ (Fails \/ disk'.save = job.save)
    BY <1>0, <1>6 DEF WriteSave, Disks
  <2> QED
    BY <1>1, <1>2, <1>6, <2>0, <2>1 DEF WriteSave, Goto, FilesInv, KeptGameBoots,
       KeptSaveBoots, ClosedUntilRelaunched
<1>7. CASE WritePerson
  <2>0. promise = Nothing /\ promise' = Nothing /\ over' = over /\ job' = job
    BY <1>7 DEF WritePerson, FilesInv, Goto
  <2>1. /\ disk'.playback = disk.playback /\ disk'.setup = disk.setup
        /\ disk'.choice = disk.choice /\ disk'.save = disk.save
        /\ (Fails \/ disk'.person = job.person)
    BY <1>0, <1>7 DEF WritePerson, Disks
  <2> QED
    BY <1>1, <1>2, <1>7, <2>0, <2>1 DEF WritePerson, Goto, FilesInv, KeptGameBoots,
       KeptSaveBoots, ClosedUntilRelaunched
<1>8. CASE WritePlaying
  <2>1. CASE GiveUpJob /\ UNCHANGED <<disk, promise, over>>
    BY <1>2, <1>3, <1>8, <2>1, FilesLeft DEF WritePlaying
  <2>2. CASE /\ main' = "exit" /\ promise' = job /\ over' = FALSE
             /\ disk' = [disk EXCEPT !.playback = "playing"]
    <3>1. /\ disk'.setup = [game |-> job.game, pads |-> job.pads]
          /\ disk'.choice = job.game
          /\ faults' = 0 => disk'.save = job.save /\ disk'.person = job.person
      BY <1>0, <1>2, <1>8, <2>2 DEF WritePlaying, FilesInv, Disks
    <3>2. KeptGameBoots'
      <4>1. disk'.playback = "playing" /\ Chosen'.game = job.game
        BY <1>0, <1>1, <2>2, <3>1 DEF Disks, Chosen, chosen_rom
      <4>2. disk'.setup.game = job.game /\ disk'.setup.pads = job.pads
        BY <3>1
      <4>3. job.pads # Nothing
        BY <1>1, LibraryAssumption DEF Choices
      <4>4. job.game \in WiiGames => job.game \notin SwitchGames
        BY LibraryAssumption
      <4>5. chosen_rom' = job.game
        BY <1>1, <3>1 DEF chosen_rom
      <4>6. job.game \in WiiGames => Chosen'.pads = job.pads
        BY <4>2, <4>3, <4>4, <4>5 DEF Chosen, chosen_pads, load_for
      <4> QED
        BY <2>2, <4>1, <4>6 DEF KeptGameBoots
    <3>3. KeptSaveBoots'
      BY <1>1, <2>2, <3>1 DEF KeptSaveBoots, folder_for, Chosen
    <3> QED
      BY <2>2, <3>2, <3>3 DEF FilesInv, ClosedUntilRelaunched
  <2> QED
    BY <1>8, <2>1, <2>2 DEF WritePlaying
<1> QED
  BY <1>4, <1>5, <1>6, <1>7, <1>8, <1>9

\* TypeOK and FilesInv are inductive together: a write is well typed because
\* the job is, and a promise is kept because the writes come in their order.
THEOREM LaunchInductive == Spec => [](TypeOK /\ FilesInv)
<1>1. Init => TypeOK /\ FilesInv
  <2> SUFFICES ASSUME Init PROVE FilesInv
    BY InitTypes
  <2> QED
    BY DEF Init, FilesInv, KeptGameBoots, KeptSaveBoots, ClosedUntilRelaunched
<1>2. TypeOK /\ FilesInv /\ [Next]_vars => (TypeOK /\ FilesInv)'
  <2> SUFFICES ASSUME TypeOK, FilesInv, [Next]_vars PROVE TypeOK' /\ FilesInv'
    OBVIOUS
  <2>1. CASE Boot
    <3>1. TypeOK'
      <4>1. boots' \in 0..MaxBoots
        BY <2>1, BoundAssumption DEF Boot, TypeOK, SeatsOK
      <4>2. main' \in MainPCs /\ mode' \in Modes /\ code' \in {0, 1, FERMEE}
        BY <2>1 DEF Boot
      <4>3. ServerOK' /\ ThreadsOK'
        BY <2>1, <4>2 DEF Boot, TypeOK, ServerOK, ThreadsOK
      <4>4. SeatsOK' /\ HistoryOK'
        BY <2>1, <4>1 DEF Boot, TypeOK, SeatsOK, HistoryOK
      <4> QED
        BY <2>1, <4>3, <4>4 DEF Boot, TypeOK
    <3> QED
      BY <2>1, <3>1, LoopFiles
  <2>2. CASE Crash
    <3>1. crashes' \in 0..MaxCrashes /\ faults' \in 0..MaxFaults
      BY <2>2, BoundAssumption DEF Crash, TypeOK, ThreadsOK
    <3>2. TypeOK'
      BY <2>2, <3>1, DieTypes DEF Crash
    <3> QED
      BY <2>2, <3>2, LoopFiles
  <2>3. CASE GivesUp \/ take_switch \/ Stops \/ GoesOn \/ engine_status
             \/ ReadRoomClosing \/ EndProcess
    BY <2>3, LoopTypes, LoopFiles
  <2>4. CASE take_prepared_launch \/ take_rom_request
    BY <2>4, TakeTypes, TakeFiles
  <2>5. CASE WritePads \/ WriteChoice \/ WritePad \/ WriteSave \/ WritePerson
              \/ WritePlaying
    BY <2>5, WriteTypes, WriteFiles DEF FilesInv
  <2>6. CASE Players
    <3>1. TypeOK'
      BY <2>6, SeatTypes, OrderTypes DEF Players
    <3>2. UNCHANGED <<disk, main, job, promise, over, faults>>
      BY <2>6 DEF Players, Sit, Leave, Gesture, Lapse, Choose, SwitchRom, loopVars,
         boundVars, historyVars
    <3> QED
      BY <3>1, <3>2, FilesUntouched
  <2>7. CASE Lobby \/ ControlCloses \/ IdleSaysClose \/ close_idle
    <3>1. UNCHANGED <<disk, main, job, promise, over, faults>>
      BY <2>7 DEF Lobby, ReadSeats, request_stop, SetOwner, prepare_launch,
         ControlCloses, IdleSaysClose, close_idle, loopVars, boundVars, historyVars
    <3> QED
      BY <2>7, <3>1, OrderTypes, FilesUntouched
  <2>8. CASE UNCHANGED vars
    <3>1. TypeOK'
      BY <2>8 DEF vars, TypeOK, ServerOK, SeatsOK, ThreadsOK, HistoryOK
    <3> QED
      BY <2>8, <3>1, FilesUntouched DEF vars
  <2> QED
    BY <2>1, <2>2, <2>3, <2>4, <2>5, <2>6, <2>7, <2>8 DEF Next, MainStep
<1> QED
  BY <1>1, <1>2, PTL DEF Spec

\* Every reachable state is well typed.
THEOREM LaunchTypeCorrect == Spec => []TypeOK
BY LaunchInductive, PTL

\* The next process boots the game that remember_choice said it kept, and for a
\* Wii disc presents the devices it was kept with, place by place, whichever writes failed and wherever the worker was killed.
THEOREM KeptGameIsBooted == Spec => []KeptGameBoots
<1>1. TypeOK /\ FilesInv => KeptGameBoots
  BY DEF FilesInv
<1> QED
  BY <1>1, LaunchInductive, PTL

\* Without a failed write it also plays on the folder that was asked for.
THEOREM KeptSaveIsPlayed == Spec => []KeptSaveBoots
<1>1. TypeOK /\ FilesInv => KeptSaveBoots
  BY DEF FilesInv
<1> QED
  BY <1>1, LaunchInductive, PTL

\* A game that ended for good does not come back by itself: the marker of
\* Playback::Idle outlives every exit and crash until remember_choice's last
\* write.
THEOREM EndedGameStaysEnded == Spec => []ClosedUntilRelaunched
<1>1. TypeOK /\ FilesInv => ClosedUntilRelaunched
  BY DEF FilesInv
<1> QED
  BY <1>1, LaunchInductive, PTL

-----------------------------------------------------------------------------
(* Receipts. *)

Dash == <<0, 0>>

\* What the lobby saw is of this process or an earlier one, and of a claim the
\* counter has passed; once one of its receipts has ended, some receipt it
\* holds is worn by nobody any more.
ReceiptInv ==
    /\ \A p \in Ports : held[p] < nextClaim
    /\ ~Up => \A p \in Ports : held[p] = 0
    /\ lobby # Nothing => \A p \in Ports : lobby[p] # Dash =>
         /\ 1 <= lobby[p][2] /\ lobby[p][1] <= boots
         /\ Up /\ lobby[p][1] = boots => lobby[p][2] < nextClaim
    /\ lobby # Nothing /\ ~unbroken /\ (\E p \in Ports : lobby[p] # Dash) =>
         \E p \in Ports : lobby[p] # Dash /\ lobby[p] # <<boots, held[p]>>

\* A step that changes neither the seats nor the lobby's reading, and does not
\* end the process, keeps the receipts.
LEMMA ReceiptsUntouched ==
    ASSUME ReceiptInv, UNCHANGED <<held, nextClaim, lobby, boots, unbroken>>, Up' = Up
    PROVE  ReceiptInv'
BY DEF ReceiptInv

LEMMA ReceiptsDie ==
    ASSUME TypeOK, ReceiptInv, NEW exit, Die(exit)
    PROVE  ReceiptInv'
<1>0. /\ held' = [p \in Ports |-> 0] /\ nextClaim' = 1 /\ main' = "down"
      /\ UNCHANGED <<lobby, boots, unbroken>>
  BY DEF Die, FreshServer
<1>1. \A p \in Ports : held'[p] = 0
  BY <1>0
<1>2. ~Up'
  BY <1>0 DEF Up
<1>3. lobby # Nothing => \A p \in Ports : lobby[p] # Dash =>
        1 <= lobby[p][2] /\ lobby[p][1] <= boots /\ lobby[p] \in (0..MaxBoots) \X (0..MaxClaims)
  BY DEF ReceiptInv, TypeOK, SeatsOK, Receipts
<1>4. lobby # Nothing => \A p \in Ports : lobby[p] # Dash => lobby[p] # <<boots, 0>>
  BY <1>3
<1> QED
  BY <1>0, <1>1, <1>2, <1>3, <1>4 DEF ReceiptInv

LEMMA ReceiptsBoot ==
    ASSUME TypeOK, ReceiptInv, Boot
    PROVE  ReceiptInv'
<1>0. /\ UNCHANGED <<held, nextClaim, lobby>> /\ boots' = boots + 1 /\ boots \in Nat
      /\ ~Up
  BY BoundAssumption DEF Boot, Up, TypeOK, SeatsOK
<1>1. lobby # Nothing => \A p \in Ports : lobby[p] # Dash =>
        /\ 1 <= lobby[p][2] /\ lobby[p][1] <= boots
        /\ lobby[p] \in (0..MaxBoots) \X (0..MaxClaims)
  BY DEF ReceiptInv, TypeOK, SeatsOK, Receipts
<1>2. lobby # Nothing => \A p \in Ports : lobby[p] # Dash =>
        lobby[p][1] <= boots' /\ lobby[p][1] # boots' /\ lobby[p] # <<boots', held[p]>>
  BY <1>0, <1>1
<1>3. \A p \in Ports : held[p] < nextClaim /\ held[p] = 0
  BY <1>0 DEF ReceiptInv
<1> QED
  BY <1>0, <1>1, <1>2, <1>3 DEF ReceiptInv

LEMMA ReceiptsSeats ==
    ASSUME TypeOK, ReceiptInv, NEW p \in Ports, Sit(p) \/ Leave(p)
    PROVE  ReceiptInv'
<1>0. /\ held \in [Ports -> 0..MaxClaims] /\ nextClaim \in Nat /\ boots \in Nat
      /\ lobby \in Receipts \union {Nothing} /\ unbroken \in BOOLEAN
  BY BoundAssumption DEF TypeOK, SeatsOK, HistoryOK
<1>1. /\ UNCHANGED <<lobby, boots>> /\ Up' = Up /\ Up
      /\ unbroken' = (unbroken /\ lobby[p] = Dash)
      /\ \/ held' = [held EXCEPT ![p] = nextClaim] /\ nextClaim' = nextClaim + 1
         \/ held' = [held EXCEPT ![p] = 0] /\ nextClaim' = nextClaim
  BY DEF Sit, Leave, Up, LobbySees, loopVars, boundVars, Dash, ReceiptInv
<1>2. /\ held'[p] \in {0, nextClaim}
      /\ \A q \in Ports \ {p} : held'[q] = held[q]
      /\ nextClaim' \in {nextClaim, nextClaim + 1}
      /\ held'[p] = nextClaim => nextClaim' = nextClaim + 1
  BY <1>0, <1>1 DEF ReceiptInv
<1>3. \A q \in Ports : held'[q] < nextClaim'
  BY <1>0, <1>2 DEF ReceiptInv
<1>4. lobby # Nothing => \A q \in Ports : lobby[q] # Dash =>
        /\ 1 <= lobby[q][2] /\ lobby[q][1] <= boots
        /\ lobby[q][1] = boots => lobby[q][2] < nextClaim
        /\ lobby[q] \in (0..MaxBoots) \X (0..MaxClaims)
  BY <1>0, <1>1 DEF ReceiptInv, Receipts
<1>5. lobby # Nothing /\ lobby[p] # Dash => lobby[p] # <<boots, held'[p]>>
  BY <1>0, <1>2, <1>4
<1>6. lobby # Nothing /\ ~unbroken' /\ (\E q \in Ports : lobby[q] # Dash) =>
        \E q \in Ports : lobby[q] # Dash /\ lobby[q] # <<boots, held'[q]>>
  <2> SUFFICES ASSUME lobby # Nothing, ~unbroken', \E q \in Ports : lobby[q] # Dash,
                      lobby[p] = Dash
               PROVE  \E q \in Ports : lobby[q] # Dash /\ lobby[q] # <<boots, held'[q]>>
    BY <1>5
  <2>1. ~unbroken
    BY <1>1
  <2>2. PICK q \in Ports : lobby[q] # Dash /\ lobby[q] # <<boots, held[q]>>
    BY <2>1 DEF ReceiptInv
  <2> QED
    BY <1>2, <2>2
<1>7. lobby # Nothing => \A q \in Ports : (lobby[q] # Dash =>
        (lobby[q][1] = boots => lobby[q][2] < nextClaim'))
  BY <1>0, <1>2, <1>4
<1> QED
  BY <1>1, <1>3, <1>4, <1>6, <1>7 DEF ReceiptInv

LEMMA ReceiptsRead ==
    ASSUME TypeOK, ReceiptInv, ReadSeats
    PROVE  ReceiptInv'
<1>0. /\ held \in [Ports -> 0..MaxClaims] /\ nextClaim \in Nat /\ boots \in Nat
      /\ UNCHANGED <<held, nextClaim, boots>> /\ Up' = Up /\ unbroken' = TRUE
  BY BoundAssumption DEF TypeOK, SeatsOK, ReadSeats, seatVars, boundVars, loopVars, Up
<1>1. \A p \in Ports : lobby'[p] # Dash =>
        lobby'[p] = <<boots, held[p]>> /\ held[p] # 0 /\ held[p] < nextClaim
  BY DEF ReadSeats, seat_receipts, receipt, Dash, ReceiptInv
<1>2. \A p \in Ports : lobby'[p] # Dash =>
        /\ 1 <= lobby'[p][2] /\ lobby'[p][1] <= boots /\ lobby'[p][2] < nextClaim
  BY <1>0, <1>1
<1> QED
  BY <1>0, <1>2 DEF ReceiptInv

THEOREM ReceiptInvariant == Spec => []ReceiptInv
<1>1. Init => ReceiptInv
  BY DEF Init, ReceiptInv
<1>2. TypeOK /\ ReceiptInv /\ [Next]_vars => ReceiptInv'
  <2> SUFFICES ASSUME TypeOK, ReceiptInv, [Next]_vars PROVE ReceiptInv'
    OBVIOUS
  <2> DEFINE Same == UNCHANGED <<held, nextClaim, lobby, boots, unbroken>> /\ Up' = Up
  <2>0. Same => ReceiptInv'
    BY ReceiptsUntouched
  <2>1. CASE Boot
    BY <2>1, ReceiptsBoot
  <2>2. ASSUME \E exit \in {0, 1, FERMEE} : Die(exit) PROVE ReceiptInv'
    BY <2>2, ReceiptsDie
  <2>3. CASE Crash
    BY <2>2, <2>3 DEF Crash
  <2>4. CASE take_switch \/ Stops \/ engine_status
    BY <2>0, <2>2, <2>4 DEF take_switch, Stops, engine_status, AllButMain, Goto, Up
  <2>5. CASE GivesUp \/ GoesOn \/ WritePads \/ WriteChoice \/ WritePad \/ WriteSave
             \/ WritePerson \/ WritePlaying \/ ReadRoomClosing
    BY <2>0, <2>5 DEF GivesUp, GoesOn, WritePads, WriteChoice, WritePad, WriteSave,
       WritePerson, WritePlaying, ReadRoomClosing, AllButMain, Goto, GiveUpJob, AfterRom, Up
  <2>6. CASE EndProcess
    <3>1. code \in {0, 1, FERMEE}
      BY DEF TypeOK, ThreadsOK
    <3> QED
      BY <2>2, <2>6, <3>1 DEF EndProcess
  <2>7. CASE take_prepared_launch \/ take_rom_request
    BY <2>0, <2>7 DEF take_prepared_launch, take_rom_request, Remember, Goto, AfterRom, Up,
       seatVars, boundVars, historyVars
  <2>8. CASE Players
    <3> PICK p \in Ports : \/ Sit(p) \/ Leave(p) \/ Gesture(p) \/ Lapse(p) \/ Choose(p)
                           \/ \E g \in Wishes : SwitchRom(p, g)
      BY <2>8 DEF Players
    <3>1. CASE Sit(p) \/ Leave(p)
      BY <3>1, ReceiptsSeats
    <3>2. CASE Gesture(p) \/ Lapse(p) \/ Choose(p) \/ \E g \in Wishes : SwitchRom(p, g)
      BY <2>0, <3>2 DEF Gesture, Lapse, Choose, SwitchRom, seatVars, boundVars,
         historyVars, loopVars, Up
    <3> QED
      BY <3>1, <3>2
  <2>9. CASE ReadSeats
    BY <2>9, ReceiptsRead
  <2>10. CASE request_stop \/ (\E o \in Owners : SetOwner(o))
              \/ (\E p \in Ports, c \in Launches : prepare_launch(p, c))
              \/ ControlCloses \/ IdleSaysClose \/ close_idle
    BY <2>0, <2>10 DEF request_stop, SetOwner, prepare_launch, ControlCloses,
       IdleSaysClose, close_idle, seatVars, boundVars, historyVars, loopVars, Up
  <2>11. CASE UNCHANGED vars
    BY <2>0, <2>11 DEF vars, Up
  <2> QED
    BY <2>1, <2>3, <2>4, <2>5, <2>6, <2>7, <2>8, <2>9, <2>10, <2>11
       DEF Next, MainStep, Lobby
<1> QED
  BY <1>1, <1>2, LaunchTypeCorrect, PTL DEF Spec

\* Only prepare_launch fills `prepared`, and when it does everyone the lobby saw
\* is still in the very seat it saw, in the same process, and nobody else is.
THEOREM NoLaunchIsStale == Spec => NoStaleLaunch
<1> DEFINE Accepts == prepared = Nothing /\ prepared' # Nothing
           Current == unbroken /\ \A p \in Ports : held[p] # 0 <=> lobby[p] # <<0, 0>>
<1>1. TypeOK /\ ReceiptInv /\ [Next]_vars => [Accepts => Current]_vars
  <2> SUFFICES ASSUME TypeOK, ReceiptInv, Next, prepared = Nothing, prepared' # Nothing
               PROVE  Current
    OBVIOUS
  <2>1. \E p \in Ports, c \in Launches : prepare_launch(p, c)
    <3>1. Boot \/ Crash \/ GivesUp \/ MainStep => FALSE
      BY DEF Boot, Crash, Die, FreshServer, GivesUp, MainStep, take_switch, Stops, GoesOn,
         take_prepared_launch, take_rom_request, engine_status, WritePads, WriteChoice,
         WritePad, WriteSave, WritePerson, WritePlaying, ReadRoomClosing, EndProcess, AllButMain
    <3>2. Players => FALSE
      BY DEF Players, Sit, Leave, Gesture, Lapse, Choose, SwitchRom, requestVars
    <3>3. ControlCloses \/ IdleSaysClose \/ close_idle => FALSE
      BY DEF ControlCloses, IdleSaysClose, close_idle, requestVars
    <3>4. ReadSeats \/ request_stop \/ (\E o \in Owners : SetOwner(o)) => FALSE
      BY DEF ReadSeats, request_stop, SetOwner, requestVars
    <3> QED
      BY <3>1, <3>2, <3>3, <3>4 DEF Next, Lobby
  <2>2. PICK p \in Ports : /\ held[p] # 0 /\ lobby # Nothing
                           /\ seat_receipts = lobby
    BY <2>1 DEF prepare_launch
  <2>3. \A q \in Ports : lobby[q] = IF held[q] = 0 THEN <<0, 0>> ELSE <<boots, held[q]>>
    BY <2>2 DEF seat_receipts, receipt
  <2>4. \A q \in Ports : held[q] # 0 <=> lobby[q] # <<0, 0>>
    <3> SUFFICES ASSUME NEW q \in Ports PROVE held[q] # 0 <=> lobby[q] # <<0, 0>>
      OBVIOUS
    <3>1. boots \in Nat /\ held[q] \in Nat
      BY BoundAssumption DEF TypeOK, SeatsOK
    <3>2. <<boots, held[q]>> = <<0, 0>> => held[q] = 0
      BY <3>1
    <3> QED
      BY <2>3, <3>2
  <2>5. unbroken
    <3>1. \A q \in Ports : lobby[q] # Dash => lobby[q] = <<boots, held[q]>>
      BY <2>3, <2>4 DEF Dash
    <3> QED
      BY <2>2, <2>4, <3>1 DEF ReceiptInv, Dash, TypeOK, HistoryOK
  <2> QED
    BY <2>4, <2>5
<1> QED
  BY <1>1, LaunchTypeCorrect, ReceiptInvariant, PTL DEF Spec, NoStaleLaunch
=============================================================================
