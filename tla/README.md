# Nel3ab Retro in TLA+

Nel3ab Retro lets a handful of people play GameCube, Wii and Switch games
together from their browsers. One machine runs a few *rooms*; a room is one
worker process (Rust, `core/`) that owns one emulator, encodes its picture and
its sound, sends them to the browsers and gives the controllers of the browsers
to the emulator. One lobby process (Python, `control/`) knows the people, their
names and who decides, and gives orders to the workers over a private port. The
page (TypeScript, `front/`) watches, plays and recovers from everything that
goes wrong on the way.

This directory holds TLA+ models of its core, TLC configurations that check them
on small instances, and TLAPS proofs of their safety properties for every value
of the constants. `PROJECT.json` lists the runs, the theorems, the lines each
definition models, and the hazards the properties are aimed at.

## Inventory

| component | where | state | operations | what is hard |
|---|---|---|---|---|
| controllers of a room | `transport/src/browser/pad.rs`, `mod.rs` | claims of the ports, pad slots | claim, replace, check, apply, time out, release, let go, drain | one thread per socket, two locks, ghosts behind a proxy |
| launch, close, restart | `worker/src/main.rs`, `transport/src/control.rs`, `browser/mod.rs` | pending launch, wishes, closing flags, six files of the session directory | launch, stop, switch, idle close, write down, exit 42 or 0 | four threads, a process that forgets everything but its files, failed writes |
| picture stream | `browser/stream.rs`, `worker/src/main.rs`, `front/src/media/video.ts` | viewers, bounded queues, key frame orders; the page's socket and decoder | deliver, join, write, ask, give up, reconnect, decode | lossy queues over pictures that refer to each other, a lossy limiter, silent links |
| idle rule and nap | `emulator/src/nap.rs`, `lifecycle.rs`, `worker/src/main.rs` | clocks, what docker was told and what it did | look, warn, close, pause, unpause, restart on silence | the facts are read one lock after the other; docker may refuse, or obey later |
| pad pipe | `emulator/src/pipe.rs`, `wire.rs` | last state the emulator is believed to hold | send a difference, resync | a full pipe refuses what was believed sent |
| page protocol | `protocol/src/lib.rs`, `switch.rs`, `browser/controller.rs` | none | encode, decode, refuse | no header: a length says what a message is |
| devices | `emulator/src/config.rs`, `setup.rs`, `pipe.rs` | device files, control pipes, kept set-ups, what pages show | boot, swap an extension, change game | one truth in four places, one of them in another process |
| frame ring and frame socket | `encoder/src/frame_source.rs`, `protocol.rs`, `docker/dolphin-patches/0001` | slots, descriptors, who holds each | accept, ready, release, new ring | a release by number races a new ring; descriptors arrive with messages that are refused |
| chain on the graphics card | `worker/src/main.rs`, `encoder/src/vulkan/`, `encoder/src/av/`, `csrc/` | a dozen driver objects per image and per pass | build, convert, encode, rebuild, drop | any call may fail; the card works beside the thread |
| H.264 headers | `encoder/src/h264/` | none | write bits, escape | codes without length, escapes |
| sound, rumble | `emulator/src/sound.rs`, `rumble.rs`, `browser/stream.rs` | what of the pipe was read, levels, listeners | tap, fan out, forget | byte streams cut anywhere |
| clip recorder | `transport/src/clip.rs` | the last pictures and their sound | keep, cut | two clocks and three bounds |
| doors of a room | `browser/mod.rs`, `route.rs`, `page.rs` | connections, the half-size offer, packed answers | accept, classify, answer | a thread per connection reads what the loop changes |
| Switch ingress and adapter | `transport/src/ingress.rs`, `emulator/src/external.rs`, `lock.rs`, `docker/switch-room.py` | the one place, slots, containers, the seats file | take, start, back up, plug | any of them may die first, a container outlives them all |
| emulator process, session | `emulator/src/process.rs`, `lock.rs`, `pipe.rs`, `lifecycle.rs` | lock, emulator, container, pipes | reclaim, listen, start, attach, terminate | killing the client does not kill the container |
| saves | `emulator/src/saves.rs` | links, slots, rescued files | point, rescue, set aside, sweep | a crash or a failure between any two file operations |
| library, discs, banners | `emulator/src/library.rs`, `disc.rs`, `banner.rs` | two caches on disk, a file name kept | scan, read, cache, choose | a cached trouble, a position that moves |
| lobby: people, rooms, sockets | `control/nel3ab_control/api/` | presence, names, owner, copy of the seats, asks, preparation | connect, seat, ask, answer, rename, prepare, launch, close, broadcast | every handler awaits the worker between reading and writing |
| lobby: recovery | `api/ws/recovery.py` | one request at a time, refusals | begin, answer, cancel, finish, expire | deadlines, receipts that change meanwhile |
| journal, black box, bindings, identity | `control/nel3ab_control/` | files | write, read | storage |
| page: session, input, menus | `front/src/` | sockets, controllers | reconnect, send | browser timers |

How they meet: the lobby reads the worker's seat *receipts* (an attribution's
claim number and the process it belongs to) and sends orders that carry them
back; the worker compares and refuses what is stale. The main thread of the
worker never loads another game: it writes the wanted one down and exits, and
the service manager starts it again. The controllers' threads, the control
thread, the idle thread, the viewers' threads and the frame loop share the
fields of one `BrowserServer`, each behind its own lock.

What makes each part correct:

* *controllers*: a held port has exactly one living thread; a direction never
  stays down once its player is gone; a replaced page stops moving the pad and is
  told; a quiet player keeps the port and a ghost loses it.
* *launch*: an accepted launch is for the room as it is and is never lost to a
  close; what was promised is what the next process boots, whatever writes
  failed; a closed game stays closed until the next complete launch.
* *stream*: a viewer is never sent a picture whose reference was kept from it,
  and always comes back to a picture.
* *frame ring and socket*: a picture is read from the ring it was drawn in, no
  slot is lost, the emulator does not write the image the worker reads, and every
  descriptor has one owner.
* *nap, idle rule, session*: a room somebody stays in is awake, a deserted one
  closes and only that one, a room has one emulator and is never left locked.
* *pad pipe, protocol, devices*: the keys the emulator holds are those of the last
  state that was not dropped, from the seat that sent it, on the device shown.
* *saves*: nothing a game wrote is lost, and a game plays on the chosen slot.
* *Switch games*: one at a time, alone on its saves, with the controllers of those
  who are there.
* *chain on the card*: nothing leaks and nothing in use is destroyed, whichever
  call fails; what is encoded is the picture that was taken.
* *sound, rumble, clip, doors, library*: whole samples and shakes, a clip that
  starts readable, own pages only, and the cover of the disc that is there.
* *lobby*: the name under a port is the one of its holder; who is here keeps the
  role; the owner the worker obeys is the owner the lobby shows; a launch takes
  along nobody who did not confirm it.

## Modules

A step of every module is what one thread does under one lock, or what one
outside party does once, so whatever may happen between two locks is a state of
the model.

### Seats

`Seats.tla` models `input_thread` of `pad.rs` for every controller socket, the
array of claims (`seats`), the array of pad slots (`incoming`) and the pad
thread that empties them (`Drain`, `wait_controller_input`). `pc[c]` is where
the thread of socket `c` is:

| `pc` | code |
|---|---|
| `new` | before `claim_a_port` takes the lock of the seats (`Claim`) |
| `granted` | the port is taken and the first messages are not sent (`Announce`, `AnnounceFails`) |
| `check` | head of the loop, `still_ours` (`CheckSeat`) |
| `tell` | `send_room` (`SendRoom`) |
| `read` | `socket.read()` with its deadline (`ApplyPad`, `ReadOther`, `Pong`, `ReadEnds`, `Timeout`; `Tick` is the time that passes in it) |
| `release`, `neutral` | the two halves after the loop, under two different locks (`Release`, `LetGo`) |

`told`, `why` and `stray` record what the page was last told, why the thread
ended and how many frames a replaced page still applied; `peer` says whether
anybody is behind the socket (`Vanish`: a proxy holds it open). Time passes in
the blocking reads (`Tick`), each connection's at its own pace; sends and locks
take none. `silent` is what `heard_from.elapsed()` would say, `waited` the age of
the current read and `owed` how long the browser may still take over the oldest
ping it has not answered. `Timeout` looks at `waited` and `silent` only, as the
code does: it does not know whether anybody is there. The one assumption on
browsers is `ClockAssumption`: a page that is there has its pong read within
`ANSWER` of the ping, and `PING_EVERY + ANSWER < GONE_AFTER` (5 s, 15 s: a browser
has less than 10 s). That a quiet player stays follows from the order of ping, pong and
deadlines, and fails when a pong does not refresh `heard_from`.

Left out: the device and extension messages, echoes and counters (they change
neither seats nor pads); the request commands are in `Launch`.

### Launch

`Launch.tla` models the fields of `BrowserServer` that carry orders, the four
threads that touch them, the session directory (`disk`) and the process
lifecycle. `prepare_launch`, `request_stop`, `SetOwner`, `ReadSeats` are the
control port, one order at a time; `Sit`, `Leave`, `Gesture`, `Lapse`, `Choose`,
`SwitchRom` the players; `IdleSaysClose` and `close_idle` the idle thread. The
main thread follows `run`: `Boot` picks the loop (`mode`), the loop looks at
`closing`, then at the prepared launch, then at a wish, and `remember_choice`
writes six files in order, each of which may fail (`WritePads` .. `WritePlaying`);
`ReadRoomClosing` decides the exit code and `EndProcess` forgets all but the
files. `close_now` takes the mutex of `prepared` over two steps (`lock`), because
that is what keeps launch and close apart.

A file that is rewritten in place may be left as it was or emptied by a failed
write; a file that is renamed in is left as it was. A receipt is the process
number and the claim (`receipt`), which is what the code's epoch stands for.

`chosen_pads` is what a boot presents: the kept set-up counts for a disc that is
recognised as a Wii's (`WiiGames`) and only if it was kept for that game, else
the older file of one device for all (`disk.pad`); a GameCube disc has GameCube
pads whatever was asked for, and the pages of a Switch room are told of its own
(`Pro`). So `KeptGameBoots` speaks of the game for every game, and of the devices
for a Wii disc.

Left out: the countdown shown to the players, and the clocks of the idle rule (its verdict may fall at
any moment the rule allows).

### Stream

`Stream.tla` models one picture stream from the encoder to the pages.
`watchers`, `TakeRequests` and `send` are one turn of the frame loop: who
watches is read first, requests next, the picture is encoded and delivered last.
`deliver` hands it to every viewer's bounded queue under the lock of the list;
`Push`, `Announce`, `Write`, `KeepAlive`, `Read` are the thread of one viewer;
`connect`, `onclose`, `onMessage`, `watchDecoder`, `watchSilence` and
`Replace` the page. A picture is abstracted to what it is worth to the reader of
one queue: a key frame, the successor of the previous picture of that queue, or
one whose reference is missing.

Left out: the half-size format (same code, its own flags), timing of the
paint, encoder errors and empty outputs (they skip a picture on both sides), a
codec the page does not know.

### FrameRing

`FrameRing.tla` models the loan of images between the emulator and the worker
over one stream socket. The emulator is `OnFrame` of the patch to Dolphin, one
action per thing it does for a picture: `CreateRing` and `CreateSlot` when the
size changed, `CollectReleases` and the choice of a slot, `Draw` (the time the
GPU writes), `SendReady`; `Disable` ends it. The worker is `collect_ring`,
`next_frame` and `release` of `frame_source.rs`, and the ways out of the frame
loop (`LoopEnds`, `ProducerGone`). A message carries the number of its ring as
history: the code's messages name a slot only, and no guard reads it, except
that the descriptors of a ring are that ring's. `crossed` records that a release
of an earlier ring has freed a slot of the present one that was lent.

Left out: the listener and its deadlines, message parsing, and the refusals
that only another peer than the shipped patch could provoke. The socket counts
messages (`Wire`), where the kernel counts bytes.

### Nap and IdleRule

`Nap.tla` models the nap thread, the frame loop and the way out. The thread reads
who watches, who holds a pad and what is wanted, one lock after the other
(`NapThread` goes through them), lets `Nap::saw` decide and tells docker, which
may obey, refuse, or obey after it was reported to have failed (`DockerLate`).
The frame loop (`MainThread`) takes a picture or counts a silence, whose rule
warns and then leaves; leaving joins the thread, wakes the container whatever it
thinks and asks the emulator to stop. One tick is ten seconds.

`IdleRule.tla` models `Idle::saw` and `watch_idle`: the countdown shown, the
deadline of an empty room and that of a forgotten one, an order refused because
something else was asked first (`Refused`). One tick is half a minute. `Launch`
keeps only the verdict of this rule.

### PadLevel and PadPipe

`PadLevel.tla` is the abstract specification: a controller is a level, and the
game reads whole states that were sent, in order, some left out. `PadPipe.tla`
is the code: `send` writes the difference with `last`, or everything after a
`Resync`, into a pipe of `Room` batches that refuses what does not fit; `Poll`
is the emulator applying one batch to the keys it holds. The refinement mapping
(`Level`) takes for the states on their way what the emulator will hold after
each batch of the pipe; `PipeCarriesLevels` is the abstract specification.
A batch is at most 320 bytes and a pipe writes 4096 at once or not at all, hence
no torn batch. `Slots.tla` says which ports a room serves.

### Wire

`Wire.tla` models what a page may say: an echo, a command, a Dolphin pad, a Switch
pad, each told from the others by its length alone. `Say` encodes one, `Alter`,
`Shorten` and `Lengthen` make of it what another version or a fault would,
`Hear` is `decode` in the format of the room. Bytes have 8 values and a word is
two of them, with its sign and the masks of known buttons in place.

### Devices

`Devices.tla` follows what each place presents, in the order `run` settles it: the
pads are chosen and the server opens (`Boot`), the pages are told (`TellPages`), the
emulator starts on the files written for it (`StartEmulator`), and once its ring is
there, up to two minutes later, each served place in turn is ordered its extension
through the three buttons of its control pipe (`FirstOrder`). Such an order may
fail, which is only said: the place is then in `missed` and has the Nunchuk the
emulator computes when nobody holds a button, whatever the pages show. The main loop
(`InLoop`) takes the wishes of the pages (`TakeExtension`; `PollControl` is the
emulator's read) and keeps what it plugged with the game; `RememberChoice` writes
the set-up of the next start and `WorkerDies` keeps the files only.
`ShownIsAttached` speaks of a place once its first order was tried and nothing is
left in its pipe.

### Session

`Session.tla` models up to three workers of one directory from the lock to the
end: take the lock, reclaim the container a predecessor left, point the saves,
listen for a stray emulator, create the pipes, start, wait for a reader
(`WorkerStep` goes through the places of `run`), play, `Finish` or be killed
(`Kill`). An emulator is native or in a container (`wrapped`), and outlives its
worker in both cases until somebody stops it.

### Saves

`Saves.tla` models `prepare_saves` call by call: `Unlink`, `RescueInto` with
`Move`, `Write` of the game, `SetAside` when the place in the slot is taken,
`RemoveEmptied`, `LinkPlace`, and `Restore`; a failure (`Refuse`) or a death
may fall between any two. `Sweep` is the removal of dead titles at a boot. A
save is a token, followed by where it lies.

### SwitchRoom and SwitchSeats

`SwitchRoom.tla` models the rooms of a machine that play a Switch game: the
worker's place (`TakeSwitch`), the adapter from its start to its backup
(`AdapterMoves`), the container (`EngineExits`, `CaptureHangs`), the worker that
waits for its adapter (`AdapterWaited`) or dies (`SwitchWorkerDies`), and the
unit that kills what is left (`UnitCleared`). `SwitchSeats.tla` is the thread of
`Ingress::bind`: seats read ten times a second, a grace before a pad is
unplugged, a file written when the list changes and whose write may fail.

### FrameSocket

`FrameSocket.tla` is what `FrameRing` leaves out of `frame_source.rs`: the wait for the first
connection, rings read header by header, notifications, every refusal, and the
descriptors of the process with their owners. The emulator's side is external
and may say anything a build of it could, with up to two descriptors in a message,
which is what the control buffer has room for. Left out: more than two, which the
kernel cuts off, so that the reading of the message fails (`cmsgs`) with those
already installed still open until the worker ends; the producer sends one.

### Pipeline

`Pipeline.tla` models the chain of one ring: `Make` is a constructor of it,
`MakeFails` the same with its n-th call refused, whose result keeps what the
error path does not take down. A refusal in the half-size stream leaves the
chain without it. `Built` makes it the chain in use, after the one before was
dropped field after field (`DropField`, in the order of `Pipeline`'s fields).
A picture goes through `Take`, `Look` (who watches, in each format), `Submit`
and `Waited` for each conversion, `Release` to the emulator, `Encode`; the card
ends what was submitted at any moment (`CardDone`). `WaitFails` gives the
picture back while work on it runs, which is why the converter is the first
field. The shader is a set of invocations, each writing a square of luma and
one sample of chroma. Left out: the choice of the device and of a memory type
(part of the calls that may fail), colours (floating point), the Local side of
`Ownership` (tests only).

### H264

`H264.tla` models the bit writer and the headers as lists of fields: `put_bits`,
`put_ue`, `put_se`, `put_rbsp_trailing_bits`, `finish`, `to_nal_unit`,
`build_sps`, `build_pps`, `build_slice_header`. The reference is a reader of the
standard, which takes the escapes out and reads the codes one after the other.
The crate exports this and the worker does not call it: libavcodec writes the
headers it sends.

### Clip, Sound, Rumble

`Clip.tla` is the film (pictures kept by number, age and weight), the tape beside
it and the cut; the two are fed by two threads in either order. `Sound.tla` is the tap of the pipe, its clock, the fan-out
and the listeners' threads. `Rumble.tla` is the pipe of two-byte messages, read
in pieces, the level of each port and what each page was told.

### Doors

`Doors.tla` is the one port of a room: the accept loop and its limit, the request
classified, the page's origin, the answers with their packing and tags, and the
offer of the half size, read by threads in their handshake while the frame loop
withdraws it (`half_offered`, then `ClearHalf`). `classify` looks once, at the
first 1024 bytes of what has arrived by then, and a request is what that look
shows: a handshake whose `Upgrade` lies beyond is a plain request and gets the
page. Its origin is kept twice, as it was sent and as it is seen (`Peeked`): one
that lies beyond the look counts as absent, and is let in like a native client;
one cut short counts as another, and an own page is turned away.
`OnlyOwnPagesComeIn` is said of the origins that are wholly seen, which is all the
code can hold; the comment of `classify` (route.rs:123) counts on the head of any
browser fitting.

### Library and Banner

`Library.tla` is the start of a room with its two caches (`DiscKnown`, `DiscRead`,
`CoverFromDisc`), tools that fail, writes that fail before or in the middle (`Cut`),
a process that dies, discs changed between two starts or while a game is played,
the menu and a choice by position (`Ask`) kept by name. The cover of a Wii game is
the banner the game left in its saves (`SaveBanner` writes it, `CoverFromSave` reads
the first slot that has one), and those lie under the name of the file alone. Three
histories say what may be wrong: `doubtful`, the keys (name and size) that stood for
two discs, `mixed`, the folders of saves that did, and `spoilt`, the keys whose
banner is refused or cut for a trouble. `Banner.tla`
is the layout of `opening.bnr` and `banner.bin`: the words, the tiles and the
colours, over the lengths around every bound.

### Lobby

`Lobby.tla` is room 1 of the lobby against its worker. One thread runs every
handler, and a handler is left only where it awaits, so a step is what one
handler does from one await to the next: `task` holds those on their way (`Follow`
is the loop `follow_seats`), `line` the orders on the worker's control port, which
serves them one by one (`serves`) and which the lobby gives up on after two
seconds (`times_out`). The three locks of `RoomController` are derived from the
places the tasks are at. The worker is reduced to what its control port shows:
the receipts of its seats (`worker_gives`, `pad_ends`), the seat it obeys, what it
accepted, its end. `people` is `PeopleController` (`owner` writes what it answers),
`salon` is `RoomController` with the preparation and the recovery, `painted` what
the pages were told. Receipts are numbers that never come back, as the worker's
are across its processes.

`NamesAgree` is about every reading of the seats, in a lock or out of it
(`close_reads`, `recover_reads`), being applied in any handler's turn. It takes the
answers to be taken in the order the worker gave them: they come on connections
of their own, and the code relies on it where it reads without the lock.
`OwnerObeyed` and `ShownIsSeen` speak of a lobby with nothing in flight: the worker
then obeys the seat told last, unless an order was given up on, and the pages
show the room, unless a change was read by a handler that tells nobody
(`unsaid`; those are listed below). `LaunchedAsConfirmed` and `RoleIsKept` are about
steps: what a launch needs of everybody seated, and what alone moves the role.

`MCLobby.tla` asks six questions of it, each with the part of the people and of
the worker it is about: names, two handlers at once with a page loaded again,
restarts and late answers, launches, the owner's role over two rooms, recoveries
of a seat.

### Composition

`MCParts.tla` and `MCRoom.tla` hold these parts side by side, see below.
`MCDoors.tla` gives the requests. The lobby meets the worker in `Lobby` itself,
with a worker of receipts only; what the worker does with a launch it accepted
is `Launch`.

## Runs

| run | instance | what it shows |
|---|---|---|
| `seats` | 3 ports of which 2 are served, 2 sockets, one press; a ping per tick, 1 tick to answer, 3 ticks of silence | all the properties of `Seats`, safety and liveness. Two sockets are enough for every race between a replaced and a replacing page; the third port is one the room does not serve |
| `launch_files` | 1 port, a GameCube disc by default, a Wii disc launched with two kinds of devices and a Switch game, 2 processes, 1 failed write, 1 crash | what is written down, promised and booted, and the exclusion of launch and close, under any failure at any place |
| `launch_orders` | 2 ports, 2 processes, 2 claims each, owners nobody and 1 | a launch is accepted only for the seats as they are, with the owner's rule and two players who come and go |
| `launch_liveness` | 1 port, 1 process, 1 failed write | every accepted order is picked up, or its process ends |
| `stream` | 1 page, 2 sockets, queues of 1, a scheduled key frame every 2 pictures, 1 fault | chain of references, own decoder, healing and the return of the picture |
| `frame_ring` | 3 slots, 4 messages on the wire, 3 rings | right ring, no lost slot, what alone can tear a picture, pictures keep coming, neither end outlives the other. Three rings are enough for a release to cross one ring while the next is announced; four messages make a full ring and its first picture fill the socket |
| `frame_ring_torn` | the same | expected violation, see below |
| `parts` | one part at a time: 1 served port of 2, pads of two controls and two values; 2 files that may be saved; 2 connections for 1 place; bytes of 8 values; 3 shelf places, the usual game on one of them; 1 wish of a device waiting; rings of 3 sizes, 2 rings, 2 refusals of the driver; a lobby with 2 pages of room 1 and one of another, 2 seats (a question lets go of one of them only: they are alike), 2 attributions (3 where a game is launched), 2 handlers beside the loop, 2 processes, 1 late answer | the conjunctions below, and that the pad pipe implements `PadLevel` |
| `room` | one part at a time: 2 visitors (one with a pad only), delays of 1 to 5 ticks, 1 fault; 3 workers of one directory; pipes of 3 bytes; 2 Switch rooms on 2 slots with 1 death; 2 Switch ports | the conjunctions below, with their liveness |
| `saves_swept` | the saves of `parts` | expected violation, see below |
| `launch_fermee` | smallest | expected violation, see below |
| `stream_asked` | smallest | expected violation, see below |

`parts` and `room` run one part of a room per behaviour: the parts they hold
share nothing but the process, so composing them would only multiply states. A
variable says whose behaviour it is, and a part that does not move stays in one
of its initial states. Their properties are conjunctions of those each module
states, one after the other, with the code they are about:

| property | conjuncts |
|---|---|
| `ControlsOK` | `Wire`: `HeardAsMeant`, `AcceptedIsSound`, `NothingDropped`; `PadPipe`: `HeldUnlessDropped` |
| `PipeCarriesLevels` | `PadPipe` implements `PadLevel` |
| `FilesOK` | `Devices`: `OneDevicePerPlace`, `ShownIsAttached`, `RestartPresentsTheSame`; `Saves`: `NothingIsLost`, `PlaysOnTheChosenSlot`; `Library`: `ShownIsTheDisc`, `TroubleIsForgotten`, `AskedIsPlayed`; `Banner`: `ReadsStayInside`, `PictureIsWhole`, `ColoursAreFaithful` |
| `MediaOK` | `Clip`: `KeptIsBounded`, `PlayedRoomHasAClip`, `ClipHasItsSound`; `FrameSocket`: `DescriptorsAreOwned`, `LentFromAWholeRing`; `Pipeline`: `NothingLeaks`, `UsedIsAlive`, `GivenBackReadable`, `EncodesThisPicture`, `FitsItsChain`, `WholePicture` |
| `DoorsOK` | `OnlyOwnPagesComeIn`, `NoEarlyNo`, `PageIsReadable`, `DarkOnlyByCrossing` |
| `BytesOK` | `H264`: `HeadersReadBack`, `NoStartCodeInside`, `ToldWhereItEnds` |
| `StepsOK` | `Doors`: `RefusedOnlyWhenFull`; `FrameSocket`: `RingReadingProgresses` |
| `LobbyOK` | `Lobby`: `NamesAgree`, `OwnerObeyed`, `ShownIsSeen` |
| `LobbyStepsOK` | `Lobby`: `LaunchedAsConfirmed`, `RoleIsKept` |
| `ThreadsOK` | `Nap`: `AwakeWhenSomebodyStays`, `LeavesNothingBehind`; `Session`: `OneEmulatorPerRoom`, `SavesMoveAlone`, `OwnEmulatorReads`; `SwitchRoom`: `OneSwitchGame`, `SlotPlayedAlone`, `CopiedWhenStill`, `SlotIsWhole`; `Rumble`: `ShakesLandHome`; `Sound`: `EmulatorIsPaced`, `ChunksAreWholeSamples` |
| `RoomsComeBack` | `Nap`: `SilenceIsBounded`; `IdleRule`: `DesertedRoomCloses`, `ClosesOnlyForgotten`; `Session`: `LockComesBack`; `SwitchRoom`: `PlaceComesBack` |
| `WhatIsOwedComes` | `Rumble`: `PageFeelsTheLevel`; `Sound`: `GoneListenersAreForgotten`; `SwitchSeats`: `SeatedArePlugged`, `OthersAreUnplugged`, `ReloadKeepsItsPad` |

`PROJECT.json` names one mutant for each of them. The modules hold one more for
nearly every conjunct, marked `Mutant:` where it is defined: a plausible bug of
the code beside the definition it would spoil, which the conjunct finds.

The bounds: `MaxBoots`, `MaxClaims`, `MaxFaults`, `MaxCrashes`, `MaxRings` cap what grows
without end. They are chosen so that the interesting order happens at least
once (a restart between two orders, a failed write and then a crash, a queue
that refuses the key frame that was to repair it). The safety properties do not
depend on them: they are proved for every value. The deadlock check is off in
`seats` and in the Launch runs, where everybody may be gone and a bound may be
reached, and in `frame_ring`, where both ends may be gone; in `stream` it is on, since the frame loop never ends. It is off in `parts` and `room`, whose
behaviours end with a room closed, a message heard or a bound reached.

In the parts: two workers can meet in a session directory, the third is the one
that finds what both left; a film of 8 with a cover of 2 and groups of 2 lets the
bounds of time and weight fall on either side of a key frame; a pipe of 3 bytes
and samples of 2 cut a sample everywhere; a base of 8 for a byte keeps a
two-byte word, a sign and a mask that is not all of it; 16-bit words instead of
32 for the headers keep a largest and a smallest value that a code has no room
for, and any number of zeros in a row; sizes of 12 by 8 (with a half), 6 by 4
(without) and 4 by 3 (refused), with groups of 4, leave a group partly out of
the picture; two surfaces and two refusals let the second fall on the way out
from the first. The pixels of `Banner` are every level of both encodings, and
its layout is the real one.

In the lobby: two pages of the room are a holder and who takes their place, in
either order since the third attribution may go back to the first; the third
page belongs to another room, whose broadcasts ask for an owner of theirs. One
handler beside the loop is enough to apply two readings in turn; the theme of
two handlers adds the waits on `_syncing` and a page that was loaded again. One
preparation and one recovery are begun (`MaxBegun`): their identifiers are
random in the code, and one that comes late speaks of the one that is gone.

### Fairness

* `Seats`: the thread of a connection steps, or the clock of its read does, and
  the page's own browser answers a ping (`WF` of `Runs \/ Tick` for each
  connection: a blocked read ends by its deadline in the code), and the pad
  thread drains. Players owe nothing. A send takes no time in the model.
* `Launch`: the main thread, the closing order and the idle thread run. The main
  thread and the idle thread may wait for the mutex of `prepared` while orders
  keep coming, so they get strong fairness: a waiting thread gets a mutex in the
  end. The lobby, the players, the clock of the idle rule, failures and the
  service manager owe nothing.
* `Stream`: the frame loop and the viewers' threads run, a write on a dead link
  times out (`WRITE_TIMEOUT`), the page's timers fire and a hidden page is shown
  again in the end. Links, decoders and closing pages owe nothing; what they do
  wrong is bounded by `MaxFaults`, without which a page could be cut again each
  time before it shows a picture.
* `Nap`, `IdleRule`: the thread of the rule and the main loop run, on timers of
  their own. The clock passes between two looks of the thread however many there
  are: it gets strong fairness, because a look that has begun disables it.
  Visitors, docker and the emulator owe nothing.
* `Session`: a worker goes on by itself until it plays and from the end of its
  game on; nothing says that a game ends or that an emulator reads its pipes.
* `Rumble`: pictures keep coming, since each drains the pipe, and the thread of
  every page comes around. `Sound`: the chunk clock, the thread of the tap and
  those of the listeners run; writes have deadlines.
* `SwitchRoom`: the adapter and the worker that waits for it go on, since their
  waits are bounded. `SwitchSeats`: a write of the seats file that is tried again
  and again passes in the end.
* `FrameRing`: the game presents pictures, the emulator's thread and the worker's
  loop run. No ring need ever be made anew and neither end need ever fail.

## Proofs

| theorem | says |
|---|---|
| `SeatsProofs!SeatsTypeCorrect`, `NoSeatIsLeaked`, `NoPadIsStuck`, `AtMostOneStrayFrame`, `QuietPlayersStay`, `SeatsMoveLegally` | every safety property of `Seats` |
| `LaunchProofs!NoLaunchIntoAClosingRoom`, `LaunchTypeCorrect`, `KeptGameIsBooted`, `KeptSaveIsPlayed`, `EndedGameStaysEnded`, `NoLaunchIsStale` | every safety property of `Launch` |
| `StreamProofs!StreamTypeCorrect`, `NoViewerIsSentAGap`, `OwnStreamIsReadable` | every safety property of `Stream` |
| `FrameRingProofs!TypeCorrect`, `RightPictureHolds`, `NoSlotIsLostHolds`, `TornOnlyByCrossingHolds` | every safety property of `FrameRing`, for any size of ring and socket and any number of rings |
| `RoomProofs!AwakeForWhoStays`, `OnlyForgottenRoomsClose`, `EmulatorIsAlone`, `SwitchGameIsAlone`, `ReloadsKeepTheirPad` | every safety property of `Nap`, `IdleRule`, `Session`, `SwitchRoom` and `SwitchSeats`, action properties included |
| `RoomProofs!ShakesAlwaysLandHome`, `EmulatorStaysPaced`; `ThreadsAlwaysOK`, `NobodyLosesTheirPlace` | the safety properties of `Rumble` and `Sound`; then `ThreadsOK`, and the two action properties, of the room that `MCRoom` composes |
| `DataProofs!WireAlwaysHolds`, `PipeTypeCorrect`, `NoKeyStaysDown`, `DevicesAlwaysAgree`, `LibraryAlwaysTrue`, `ClipAlwaysShows`, `PipelineAlwaysSound` | every safety property of `Wire`, `PadPipe`, `Devices`, `Library`, `Clip` and `Pipeline` |
| `DataProofs!PipeImplementsLevel` | `PadPipe` implements `PadLevel` |
| `PartsProofs!BannerAlwaysRead` | every property of `Banner`, for any image made of whole tiles, any length of the file and any pixel |
| `PartsProofs!ControlsAlwaysOK`, `FilesAlwaysOK`, `MediaAlwaysOK`, `DoorsAlwaysOK`, `StepsAlwaysOK`, `PartsCarryLevels` | the properties of `parts` of the same names, of the whole that `MCParts` composes: the safety properties of `Saves`, `Doors` and `FrameSocket`, and those above again |
| `LobbyProofs!LobbyInvariant`, `LobbySafe`, `LaunchesAsConfirmed`, `RoleAlwaysKept` | every safety property of `Lobby`, the two action properties included, for any pages, logins, seats, handlers in flight, visits, receipts, ends of the worker and late answers |
| `PartsProofs!LobbyAlwaysOK`, `LobbyStepsAlwaysOK` | the same of the whole that `MCParts` composes: `LobbyOK` and `LobbyStepsOK` |

They assume only what the modules' `ASSUME`s say of the constants, which TLC
evaluates on the constants of the runs. What they say comes from the code: a byte
has an even number of values of which the codes of the protocol are some (`Wire`);
an unsent state is not a state, a missing file is not a file, a model value that
stands for "none" is none of the things it stands beside; `FrameSocket` has
numbers for two rings and three more, since a process may open far more
descriptors than a ring has slots; in `Clip` what is kept is longer than what a
clip covers by a group of pictures (40 s, 30 s and a key frame each second) and
there is room for the sound of as many ticks as are kept (`SOUND_HOLDS` is
computed from `KEEPS`); `WARN` is below `AFTER` (`IdleRule`); and the pages, the
seats and the session that the themes of `MCLobby` name are there.

*Seats.* The properties are not inductive: that a port has a living thread needs
the claims to be distinct and below the counter, that the thread which holds a
claim still has its port, and that a thread past the loop no longer holds one.
That a pad is not stuck needs every thread that ever wrote a slot to still owe
its neutral state. That a page which answers keeps its port needs the clocks of
the read (`ClocksAreRight`): an unanswered ping is younger than `ANSWER`, the last
one was sent less than `PING_EVERY` ago, and the silence is at most their sum,
which `ClockAssumption` keeps below the deadline. `Inv` collects these parts and `SeatsInductive` proves it one
action at a time.

*Launch.* Three independent arguments. `MutexInvariant` says who is inside
`close_now` while the lock is taken, and gives the exclusion of launch and close.
`FilesInv` says, for each place of `remember_choice`, which files already hold
the job; it gives what the next process boots. `ReceiptInvariant` says that a
receipt the lobby holds either names a process that is gone, or a claim below
this process's counter that is still held exactly if nobody moved; it gives that
no launch is stale.

*Stream.* `ChainInv` ties the two history marks of a queue to what `deliver` did
last (a viewer that is not waiting for a key frame was given the last picture);
`PlaceInv` and `PipeInv` say that a place that is used again starts empty;
`PageInv` carries the chain across the wire to the decoder.

*FrameRing.* `StreamInv` says that the messages on the wire are a word a reader at
the worker's place may receive, and that the emulator is where the last of them
leaves such a reader; it gives the right picture. `LoanInv` accounts for the
loans of the present ring: a lent slot is somewhere, and as long as no late
release interfered it is in one place only and a free slot is nowhere. The
proof has one case per action and under it one per part of the invariant.

*Nap, idle rule.* The nap thread reads who is there one lock after the other.
`SeenInv` says how far a round has gone past somebody who has been there since the
last tick, so that a whole round cannot miss them; `DockerInv` ties the container
to the belief of the rule and to the gesture that is under way. `IdleRule` counts
in two clocks of its own: `VacancyInv` bounds the first by the real vacancy,
`CountdownInv` says that a countdown that is due has been on show ever since, for
which a division rounded up has to be bounded (`DivCeilBounds`).

*Session, Switch games.* `LockInv` says that who is past its start and not gone
holds the directory; `AloneInv` that from its probe on, unless an emulator slipped
past the probe of a worker without docker, it is alone with the emulator it
started; `ReadersInv` that its pipes are its own. For a Switch room, each step of
an adapter comes with its slot (`SlotInv`), the place of the machine (`PlaceInv`)
and a slot that is whole (`DataInv`); what escapes needs a death (`DeathInv`).

*Shakes and sound.* A string of pairs may be applied in two times, wherever it is
cut, provided the byte left aside opens the second part. The level of a port is
the second half of its last pair; a set of numbers has a largest one, so no
induction on the string is needed. What the tap of the sound keeps is short of two
chunks, because it stops reading at the first one.

*The rooms as sums.* `RoomNext` and `PartsNext` move one part and leave the
others. The proofs of a part are about `[Next]_vars` of its own variables, and each
is a consequence of the step of the whole (`EachSteps`), so the invariants add up.

*Wire.* That a message is read back as it was meant is a fact of division by the
number of values of a byte; the three forms are told apart by their lengths, and a
stick that says the one value no axis has is repaired in one direction only, which
is why the two ways round are two lemmas.

*Pad pipe.* What is on its way is given by a recursion over the batches. That it
has one solution, that this is made of whole states and ends at `last` is part of
the invariant (`PipeInv`), kept because a batch is added at one end and taken at
the other. `PadLevel`'s level is then the end of that course, and a step either
adds a state to it, takes its first one, or stutters.

*Devices.* Three facts make the four places agree: the last order in a control pipe,
or what the emulator holds when the pipe is empty, is what the extension on show
asks for, and the Nunchuk's where the first order failed (`AttachedInv`); a place no
order was tried at holds nothing (`SilentInv`); and a choice that is saved and read
again is the same choice (`SavedIsChosen`).

*Saves.* `NothingIsLost` is nearly inductive: it needs that a preparation is about
a slot that is there and places of its game (`WorkInv`), for a move is of what was
found before it. `LinkedInv` gives the slot the game plays on when nothing failed.

*Doors.* The threads that live are among those that are counted (`CountInv`), so a
refusal means a full room. After the list of half-size viewers was cleared, who is
still on the way there read the offer before it was withdrawn (`OfferInv`).

*Frame socket.* The kernel gives the lowest free number; as there are more numbers
than a ring can hold twice, one is free. Every descriptor that is open is in one
place of the ring being read or of the ring in use, and in one of them only.

*Library.* A key (name and size) that stood for one disc only is that of one file, and
what is kept under it is true of that file or was spoilt (`CacheInv`); the same of
the folders of saves (`SavedInv`), which needs that the game being played, whose
file may have been replaced under it, is the only disc of its folder or the folder
is mixed (`PlayInv`). What is listed during a start, and what is shown of what was
never in doubt, follow (`ListInv`, `ListedInv`).

*Banner.* What was read is known from the file, which does not change
(`BannerSaid`), so the proof is of the reader: each pixel of the file lands on one
place of the raster and each place has its pixel (`LandsInside`,
`EveryPlaceLands`), for any image made of whole tiles; the spans are inside a file
that is long enough for its languages (`DiscSpans`, `SaveSpans`), whatever that
length is; and a channel is near its share of 255 for every value of a pixel.

*Clip.* The weight is a count of pictures plus a count of key frames, so that it
follows the cuts without a recursion. `KeyInv` says that any group of `GOP`
pictures in a row holds a key frame, `RollInv` that the last pictures of a room that was
not interrupted are one per tick; between them there is a key frame old enough and
not too old. `SoundInv` does the same of the sound, whose thread may be a tick ahead.

*Pipeline.* `AliveInv` gives the objects on the card from how far the thread is in
building or dropping a chain; that a constructor that fails leaves nothing is a
finite check of each constructor (`NothingIsLeft`), and that fields partition the
chain is `ChainFacts`. `CardInv` says what runs, what was drawn and what was
encoded at each place of a picture. `SizeInv` says which sizes were let in, from
which the dispatch covers both planes: the groups cover a side for any size of
group (`GroupsCover`), and a rectangle is made of the 2 by 2 blocks of its half
(`SquareIsTiled`).

*Lobby.* Every handler leaves the thread between what it read and what it does
with it, so the invariant says what each is holding meanwhile (`LobbyInv`, which the
`parts` run was first made to check). `LineInv` ties the line to the handlers: an
order that is awaited is at its handler's place, the served ones come first, an
answer is there until it is taken. `LobbyTypes` adds that whatever a handler read of
the worker is made of receipts that were given, and that a seat it says a page has
was given to that page. From there:

* a name is put under a seat only with the receipt the lobby knows the seat by, so
  `NamesInv` holds whatever the order of the readings: a reading keeps the names
  whose receipts are those of its own table (`SoundObserve`), a claim is checked
  against the table known when it is made (`SoundClaimed`). That the answers come
  in order is not needed for it;
* `TellInv` is what makes `OwnerObeyed` inductive. Either what the worker obeys is
  what the last order it served says (`ObeysLast`; until its answer is taken that
  order is on the line, afterwards it is `told`), or the worker started again since
  and no table read from it shows a seat it gave (`StartedAgain`). In the second
  case the first reading that shows one differs from the table known, whose
  receipts are of the process that is gone, and has the seat told again: that is
  the sentence of `observe_seats` on restarted workers. It needs the order of
  the answers: a table asked for before the order was served is taken before it;
* `ToldInv`: what is not shown is about to be told, or is owned to (`unsaid`);
* `LaunchInv`: one handler at a time is in the lock of the preparation
  (`OneLock`), who is ready said so under the receipt they have (`Confirmed`), and
  an order of launch on the line is for a table of people who all said so
  (`Launches`). The worker accepts it only for the table it has.

A step is one of a handler, of which `Handles` keeps what the invariant needs to
know, or of the worker (`WorkerActs`); each part of the invariant is then proved
once for all handlers. `RoleIsKept` needs no more than the types: whoever is asked
about, who was chosen and is there is the owner (`OwnerStays`), and a recovery
that is finished was of the owner who was there (`still_current`).

Only model-checked:

* the liveness properties (`GhostGivesPortBack`, `ReplacedIsTold`,
  `PadGoesNeutral`, `OrdersAreHeard`, `BrokenChainHeals`, `PictureReturns`,
  `PicturesKeepComing`, `EndTogether` and those in `RoomsComeBack` and
  `WhatIsOwedComes`), because liveness under fairness is out of the prover's
  reach. The two action properties that these conjunctions hold,
  `ClosesOnlyForgotten` and `ReloadKeepsItsPad`, are proved
  (`NobodyLosesTheirPlace`);
* `BytesOK`: a header of `H264` is folded over its bits, and that a code of any
  length is read back is an induction over data.

## Where comments and code differ

Four differences are runs that are expected to fail:

* `launch_fermee`. `browser/mod.rs` says of `room_closing` that it is false for a
  change of game. The idle thread may set it after the main thread has already
  written a new game down: the process then exits with 42, the service manager
  leaves the room closed, and the launch that was promised waits for somebody to
  open the room again.
* `stream_asked`. `deliver` says that a viewer that lost a key frame waits for
  the next one and that it is asked for at once. The limiter may drop that
  request; what ends the wait is the scheduled key frame (`BrokenChainHeals`).
* `frame_ring_torn`. `frame_source.rs` and the patch both say that a slot is not
  reused until it is released. A release names a slot and not a ring: one that
  is sent for a picture of the old ring after the emulator made a new one frees
  the slot of the same number there, whose picture is then drawn over while the
  worker reads it. `TornOnlyByCrossing` says that this is the only way.
* `saves_swept`. `saves.rs` explains why the sweep of dead titles erases no save:
  it only touches dead links. It removes the whole folder of the title, and with
  it a real save that a rescue had set aside there.

Others were met while modelling; the models do what the code does:

* taking a stop back after a failed marker (`cancel_stop`) leaves `room_closing`
  set, so a later change of game may exit with 42;
* a stop that arrives while the process is already leaving is answered `ok` and
  changes nothing (`playback.rs`: the choice that was kept boots);
* a save slot that cannot be written keeps the previous one, where the comment
  of `remember_choice` speaks of the fresh one (hence `faults = 0` in
  `KeptSaveBoots`);
* the main thread may read `room_closing` before the idle thread has stored it:
  the room restarts on its menus instead of closing;
* `giveUp` of `video.ts` reconnects after its time limit without closing the
  decoder, where `onclose` explains why a new connection needs a new decoder:
  this is why `OwnStreamReadable` speaks of a decoder that was given a key frame
  of the present connection;
* the short-circuit in the frame loop leaves the second request standing when
  somebody has just joined: two key frames in a row.
* the nap rule has changed its own state when docker refuses a pause or an
  unpause (`main.rs:1182`): the gesture is not tried again until the room empties
  or fills once more. `AwakeWhenSomebodyStays` is about a docker that obeys;
* a page that read the half-size offer before it was withdrawn joins a stream
  that never comes (`browser/mod.rs:772`, whose comment at 763 speaks of a page
  that is told). `DarkOnlyByCrossing` says that this is the only way;
* the all-GameCube set-up writes an empty Wiimote file, which leaves the
  emulator's own default for Wiimote 1; two names may share a `person_key`;
  `saves::empty` is never called;
* the patch remembers a level of rumble before it writes it: a shake a full pipe
  refuses is not tried again until the level changes (`ShakesLandHome` excepts
  that pad);
* a refused `docker run` leaves the same mark as a disc without a banner, where
  the comment keeps the failure of the tool apart; a `.bnr` that a death or a
  failed write (banner.rs:468) cut short is read for ever. Caches go by name and
  size, so another disc of the same name and size keeps the old cover; the saves a
  Wii cover is read from go by name alone (banner.rs:435), so a file that replaces
  another under its name shows the old game's cover until it is played; equal
  titles have no order of their own;
* an `Origin` beyond the first 1024 bytes, or not yet arrived, is one that was not
  sent, and is allowed (route.rs:122);
* after a death of the worker nobody stops an orphan container of a Switch game:
  `prepare` only reclaims those of Dolphin (hence the condition of
  `OneSwitchGame`);
* a comment of `image.rs` says nothing is bound to the image when the rest of its
  import fails: when it is the view, the memory is bound and already freed. What
  `device_wait_idle` answers in a drop is not read; after a failed wait the
  picture goes back to the emulator before the drop waits for the card;
* `build_slice_header` says where the header ends without counting escapes: for
  each, the number is a byte short (`ToldWhereItEnds`). The largest unsigned
  value has the code of the one below it, and the smallest signed one is written
  as zero.
* the owner is one field for all the rooms, and asking who it is writes it
  (`people.py:126`): a role that was handed over in one room goes back when
  another room, where the new owner is not, describes itself, whereas the
  docstring says the former owner does not come back in front. `RoleIsKept`
  excepts that step. `close_game` asks for the owner over all the rooms, and
  `recover` and `GET /room` always speak of room 1 (`recovery.py:51`);
* a change of seats that is read by a close, by a preparation that then refuses,
  or by the reading a recovery begins with, is told to nobody, and the loop, which
  compares with the last reading, does not see it any more. A preparation whose
  starter left may also be dropped by `GET /room` or by a preparation that
  refuses, without a word to the pages (`unsaid`);
* of two broadcasts of which one waits for the worker, the one that waited is
  sent last and shows the room as it was before the other;
* an order given up on after two seconds is still in the worker's line: an owner
  that `told_owner` does not know of may be obeyed, and a launch the lobby called
  refused may be accepted;
* a handler of `seat` that resumes after its session has gone writes a name for
  a session that is no longer there (`forget_absent` comes before `claim`); it
  stays until the seat is let go or the next page sits down.

## Plan

1. Done: `Seats`, `Launch`, `Stream`, `FrameRing` and their proofs; then the rest
   of the worker, model-checked in `parts` and `room`.
2. Done: the proofs of every safety property of the worker that needs no
   induction over data, of its parts and of their compositions.
3. Done: the lobby's room and the proofs of its safety properties, alone and
   among the other parts.
4. Of the lobby: what `Lobby` leaves out, pages without identity, an admission that
   fails, the store of names.

## Not modelled

* Of the lobby: the names kept on disk (the store is renamed away before the new
  one is in place, `people.py:213`), pages without an identity, a connection that
  is refused after it was counted (`handlers.py:346`), `booting`, the limits of
  rate, the starting and stopping of the other rooms' workers (`salles.py`). The
  answers of the worker are taken in the order it gave them.
* The choice of the graphics device and the direct VA-API path of the encoder
  crate, the muxer of clips: calls into drivers and tools.
* Telemetry, journal, black box, bindings, identity, page layout and menus:
  measurement, storage and presentation. The page's jitter buffer and lip-sync,
  which only time can wrong.
* The listing of save slots for the menu and the
  keys made of names.
