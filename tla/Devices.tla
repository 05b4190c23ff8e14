------------------------------ MODULE Devices -------------------------------
(***************************************************************************)
(* What each place presents to the game (emulator/src/config.rs, setup.rs, *)
(* the control pipes of pipe.rs, and their use in worker/src/main.rs).     *)
(*                                                                         *)
(* A place is a GameCube pad or a Wiimote, fixed in files the emulator     *)
(* reads once.  What hangs from a Wiimote changes in the middle of a game: *)
(* the emulator computes it at every poll from three buttons held on a     *)
(* control pipe, and the worker keeps what it asked for, shows it to the   *)
(* pages and saves it with the name of the game.                           *)
(***************************************************************************)
EXTENDS Slots, FiniteSets, Sequences

CONSTANTS
    WiiGames, CubeGames,   \* the library, by console
    Setups,                \* the setups players ask a launch with
    NoSetup,               \* no file `chosen-setup`, or one that does not parse
    NoWish,                \* an empty Option<u8>
    CtlRoom                \* bound: orders a control pipe holds before EAGAIN

VARIABLES
    running,    \* the game of the process, or "" between two processes
    startup,    \* how far its start is: "off", "open", "told", "started"
    firstDue,   \* served places whose first extension is still to be ordered
    chosen,     \* the file naming the game to boot
    dev,        \* `pads` of the main loop
    shownDev,   \* BrowserServer.devices
    files,      \* what the emulator read: Dolphin.ini, WiimoteNew.ini
    wish,       \* wants_extension, per port
    setup,      \* the file chosen-setup: a game and a kind per port
    padChoice,  \* the file PAD_CHOICE
    ctl,        \* orders in the control pipes
    held,       \* buttons the emulator holds pressed, per served port
    missed,     \* history: ports whose first order failed, none accepted since
    spoiled     \* history: a setup was not saved, or the file names another game

devVars == <<running, startup, firstDue, chosen, dev, shownDev, files, wish, setup, padChoice, ctl, held,
             missed, spoiled>>

DevGames == WiiGames \union CubeGames
PadKinds == {"GameCube", "Wiimote", "Guitar", "WiimoteOnly"}
Extensions == {"Nunchuk", "Guitare", "None"}
ControlTokens == {"A", "B", "X"}
AllOf(kind) == [p \in Ports |-> kind]

ASSUME DevicesAssumption ==
    /\ "" \notin DevGames /\ CtlRoom \in Nat \ {0} /\ NoWish \notin 0..3
    /\ Setups \subseteq [Ports -> PadKinds]
    /\ NoSetup \notin [game : DevGames, codes : [Ports -> 0..3]] \union [Ports -> PadKinds]

-----------------------------------------------------------------------------
(* config.rs *)

PadKindOf(code) ==
    CASE code = 1 -> "Wiimote" [] code = 2 -> "Guitar" [] code = 3 -> "WiimoteOnly"
      [] OTHER -> "GameCube"

CodeOf(kind) ==
    CASE kind = "GameCube" -> 0 [] kind = "Wiimote" -> 1 [] kind = "Guitar" -> 2
      [] kind = "WiimoteOnly" -> 3

ExtensionOf(code) == CASE code = 1 -> "Guitare" [] code = 2 -> "None" [] OTHER -> "Nunchuk"

attachment(ext) == CASE ext = "None" -> 0 [] ext = "Nunchuk" -> 1 [] ext = "Guitare" -> 3

\* Mutant: the guitar is asked for with the button of the Classic.
HeldForClassic(ext) ==
    CASE ext = "Nunchuk" -> {} [] ext = "Guitare" -> {"A"} [] ext = "None" -> {"X"}

HeldFor(ext) ==
    CASE ext = "Nunchuk" -> {} [] ext = "Guitare" -> {"B"} [] ext = "None" -> {"X"}

\* The expression of WiimoteNew.ini, evaluated over the buttons held.
Extension(buttons) ==
    LET on(b) == IF b \in buttons THEN 1 ELSE 0
    IN (1 - on("X")) * (1 + on("A") + 2 * on("B"))

\* SIDevice lines: 6 is a GameCube pad, 0 an empty port.
dolphin_ini(pads) ==
    [p \in Ports |-> IF p \in Served /\ pads[p] = "GameCube" THEN 6 ELSE 0]

\* The [WiimoteN] sections written and their Source, 1 for an emulated one.
wiimote_ini(pads) ==
    IF pads = AllOf("GameCube") THEN [p \in {} |-> 0]
    ELSE [p \in Served |-> IF pads[p] = "GameCube" THEN 0 ELSE 1]

\* The [GCPadN] sections: each served port reads the pipe of its own number.
gcpad_ini == [p \in Served |-> p]

-----------------------------------------------------------------------------
(* setup.rs *)

\* Mutant: a GameCube pad turns into a Wiimote of the file.
with_any_extension(pads, p, ext) ==
    [pads EXCEPT ![p] = CASE ext = "Nunchuk" -> "Wiimote" [] ext = "Guitare" -> "Guitar"
                          [] ext = "None" -> "WiimoteOnly"]

with_extension(pads, p, ext) ==
    IF pads[p] = "GameCube" THEN pads
    ELSE [pads EXCEPT ![p] = CASE ext = "Nunchuk" -> "Wiimote" [] ext = "Guitare" -> "Guitar"
                               [] ext = "None" -> "WiimoteOnly"]

\* The four codes and the game, written aside and renamed over the old file.
save_for(pads, g) == [game |-> g, codes |-> [p \in Ports |-> CodeOf(pads[p])]]

load_for(g) ==
    IF setup = NoSetup \/ setup.game # g THEN NoSetup
    ELSE [p \in Ports |-> PadKindOf(setup.codes[p])]

\* main.rs, the choice of `pads` at start: a GameCube game has only its pad.
chosen_pads(g) ==
    IF g \in CubeGames THEN AllOf("GameCube")
    ELSE IF load_for(g) = NoSetup THEN AllOf(PadKindOf(padChoice)) ELSE load_for(g)

-----------------------------------------------------------------------------
(* The worker *)

NoFiles == [si |-> [p \in Ports |-> 0], wii |-> [p \in {} |-> 0], gc |-> gcpad_ini]

DevInit ==
    /\ running = "" /\ startup = "off" /\ firstDue = {}
    /\ chosen \in DevGames /\ dev = AllOf("GameCube")
    /\ shownDev = [p \in Ports |-> 0]
    /\ files = NoFiles /\ wish = [p \in Ports |-> NoWish] /\ setup = NoSetup /\ padChoice = 0
    /\ ctl = [p \in Served |-> <<>>] /\ held = [p \in Served |-> {}]
    /\ missed = {} /\ spoiled = FALSE

\* The extension a place starts with.
FirstExtension(kind) ==
    CASE kind = "Guitar" -> "Guitare" [] kind = "WiimoteOnly" -> "None" [] OTHER -> "Nunchuk"

\* A process chooses its pads and opens its server: pages may come, and are
\* told what a server says before anybody has told it (set_devices).
Boot ==
    /\ startup = "off" /\ startup' = "open" /\ running' = chosen
    /\ dev' = chosen_pads(chosen)
    /\ UNCHANGED <<firstDue, chosen, shownDev, files, wish, setup, padChoice, ctl, held, missed,
                   spoiled>>

\* The pages are told the set-up, long before there is an emulator.
TellPages ==
    /\ startup = "open" /\ startup' = "told"
    /\ shownDev' = [p \in Ports |-> CodeOf(dev[p])]
    /\ UNCHANGED <<running, firstDue, chosen, dev, files, wish, setup, padChoice, ctl, held, missed,
                   spoiled>>

\* Session::start_controlled writes the files, the emulator reads them and opens
\* its pipes, new and empty.  Nobody holds a button.
StartEmulator ==
    /\ startup = "told" /\ startup' = "started" /\ firstDue' = Served
    /\ files' = [si |-> dolphin_ini(dev), wii |-> wiimote_ini(dev), gc |-> gcpad_ini]
    /\ UNCHANGED <<running, chosen, dev, shownDev, wish, setup, padChoice, ctl, held, missed,
                   spoiled>>

\* pad.rs, ChooseExtension: the port is that of the socket; the last wish wins.
\* A page may be there as soon as the server is open.
ChooseExtension(p, code) ==
    /\ running # "" /\ wish' = [wish EXCEPT ![p] = code]
    /\ UNCHANGED <<running, startup, firstDue, chosen, dev, shownDev, files, setup, padChoice, ctl,
                   held, missed, spoiled>>

\* Pipes::set_extension, whole state in one write: refused by a full pipe, and
\* nothing to do at a port without a control pipe.
set_extension(p, ext) ==
    \/ /\ p \notin Served /\ UNCHANGED <<ctl, missed>>
    \/ /\ p \in Served /\ Len(ctl[p]) < CtlRoom
       /\ ctl' = [ctl EXCEPT ![p] = Append(@, HeldFor(ext))] /\ missed' = missed \ {p}

\* Mutant: every Wiimote of a new process is given a Nunchuk.
NunchukForAll(p) ==
    /\ startup = "started" /\ p \in firstDue /\ \A q \in firstDue : p <= q
    /\ firstDue' = firstDue \ {p}
    /\ \/ set_extension(p, "Nunchuk")
       \/ missed' = missed \union {p} /\ UNCHANGED ctl
    /\ UNCHANGED <<running, startup, chosen, dev, shownDev, files, wish, setup, padChoice, held,
                   spoiled>>

\* Once the ring of the emulator is there, up to two minutes later, each served
\* place in turn is told its extension.  A failure is only said: the emulator
\* then leaves the Nunchuk it computes when nobody holds anything.
FirstOrder(p) ==
    /\ startup = "started" /\ p \in firstDue /\ \A q \in firstDue : p <= q
    /\ firstDue' = firstDue \ {p}
    /\ \/ set_extension(p, FirstExtension(dev[p]))
       \/ missed' = missed \union {p} /\ UNCHANGED ctl
    /\ UNCHANGED <<running, startup, chosen, dev, shownDev, files, wish, setup, padChoice, held,
                   spoiled>>

\* The main loop comes after all these orders.
InLoop == startup = "started" /\ firstDue = {}

\* A write that fails, on a full pipe or one nobody reads, gives nothing of it to
\* the emulator, and what was kept and shown stays.
RefusedExtension(p) == p \in Served /\ UNCHANGED <<ctl, missed, dev, shownDev, setup, spoiled>>

\* Mutant: the file is left to the next launch.
KeepNothing(g, pads) == UNCHANGED <<setup, spoiled>>

\* save_for of the main loop: a failure is only said.
Keep(g, pads) ==
    \/ setup' = save_for(pads, g) /\ UNCHANGED spoiled
    \/ UNCHANGED setup /\ spoiled' = TRUE

PluggedExtension(p, ext) ==
    /\ set_extension(p, ext)
    /\ dev' = with_extension(dev, p, ext)
    /\ \/ dev' = dev /\ UNCHANGED <<shownDev, setup, spoiled>>
       \/ /\ dev' # dev /\ shownDev' = [q \in Ports |-> CodeOf(dev'[q])]
          /\ Keep(running, dev')

\* Mutant: what was asked is kept and shown whether or not the pipe took it.
TakeExtensionAnyway(p) ==
    /\ InLoop /\ wish[p] # NoWish /\ wish' = [wish EXCEPT ![p] = NoWish]
    /\ LET ext == ExtensionOf(wish[p])
       IN \/ PluggedExtension(p, ext)
          \/ /\ p \in Served /\ dev' = with_extension(dev, p, ext)
             /\ shownDev' = [q \in Ports |-> CodeOf(dev'[q])] /\ setup' = save_for(dev', running)
             /\ UNCHANGED <<ctl, missed, spoiled>>
    /\ UNCHANGED <<running, startup, firstDue, chosen, files, padChoice, held>>

\* One turn of the main loop takes the wish of a place.
TakeExtension(p) ==
    /\ InLoop /\ wish[p] # NoWish /\ wish' = [wish EXCEPT ![p] = NoWish]
    /\ RefusedExtension(p) \/ PluggedExtension(p, ExtensionOf(wish[p]))
    /\ UNCHANGED <<running, startup, firstDue, chosen, files, padChoice, held>>

\* The emulator polls a control pipe.
PollControl(p) ==
    /\ running # "" /\ ctl[p] # <<>>
    /\ held' = [held EXCEPT ![p] = Head(ctl[p])] /\ ctl' = [ctl EXCEPT ![p] = Tail(@)]
    /\ UNCHANGED <<running, startup, firstDue, chosen, dev, shownDev, files, wish, setup, padChoice,
                   missed, spoiled>>

\* What the process and its emulator held goes with them.
Forget ==
    /\ running' = "" /\ startup' = "off" /\ firstDue' = {} /\ dev' = AllOf("GameCube") /\ shownDev' = [p \in Ports |-> 0]
    /\ files' = NoFiles /\ wish' = [p \in Ports |-> NoWish]
    /\ ctl' = [p \in Served |-> <<>>] /\ held' = [p \in Served |-> {}]
    /\ missed' = {} /\ spoiled' = FALSE

\* remember_choice: the setup first, then the game, its pad, and at last the
\* note that the room plays.  A refusal at any of them leaves what was written, and an
\* emptied choice is that of the usual game, whichever it is.
RememberChoice(g, pads) ==
    LET kept == chosen' = g /\ padChoice' \in {padChoice, 0, CodeOf(pads[1])}
    IN
    /\ InLoop /\ setup' = save_for(pads, g)
    /\ \/ kept /\ Forget
       \/ /\ kept \/ (chosen' \in DevGames /\ UNCHANGED padChoice)
          /\ spoiled' = TRUE
          /\ UNCHANGED <<running, startup, firstDue, dev, shownDev, files, wish, ctl, held, missed>>

\* The process dies, or stops for a restart on the same game.
WorkerDies ==
    /\ running # "" /\ Forget /\ UNCHANGED <<chosen, setup, padChoice>>

DevNext ==
    \/ Boot \/ TellPages \/ StartEmulator
    \/ \E p \in Served : FirstOrder(p)
    \/ \E p \in Ports, c \in 0..3 : ChooseExtension(p, c)
    \/ \E p \in Ports : TakeExtension(p)
    \/ \E p \in Served : PollControl(p)
    \/ \E g \in DevGames, s \in Setups : RememberChoice(g, s)
    \/ WorkerDies

DevSpec == DevInit /\ [][DevNext]_devVars

-----------------------------------------------------------------------------
(* Properties *)

DevTypeOK ==
    /\ running \in DevGames \union {""} /\ startup \in {"off", "open", "told", "started"}
    /\ firstDue \subseteq Served /\ chosen \in DevGames
    /\ dev \in [Ports -> PadKinds] /\ shownDev \in [Ports -> 0..3]
    /\ wish \in [Ports -> (0..3) \union {NoWish}] /\ padChoice \in 0..3
    /\ setup = NoSetup \/ (setup.game \in DevGames /\ setup.codes \in [Ports -> 0..3])
    /\ held \in [Served -> SUBSET ControlTokens] /\ missed \subseteq Served
    /\ DOMAIN ctl = Served /\ \A p \in Served : Len(ctl[p]) <= CtlRoom

\* The game counts one controller per served place: whatever is swapped in the
\* middle of a game, the files the emulator read at its start plug in a
\* GameCube pad exactly where the pages show one and an emulated Wiimote
\* exactly where they show one of its three forms.  config.rs, setup.rs.
OneDevicePerPlace ==
    startup = "started" =>
        \A p \in Served :
            LET cube == shownDev[p] = CodeOf("GameCube")
            IN /\ (files.si[p] = 6) = cube
               /\ (p \in DOMAIN files.wii /\ files.wii[p] = 1) = ~cube

\* What a page shows in a player's hands is what the emulator attaches once it
\* has read its control pipe, whichever orders were refused since.  Between the
\* start of the emulator and the first order of a place it need not be: the
\* pages were told before.  Nor need it be where that order failed and no other
\* was accepted: there the emulator keeps its Nunchuk.  main.rs, set_extension.
ShownIsAttached ==
    startup = "started" =>
        \A p \in Served \ firstDue :
            ctl[p] = <<>> /\ dev[p] # "GameCube" =>
                Extension(held[p]) =
                    IF p \in missed THEN attachment("Nunchuk")
                    ELSE attachment(FirstExtension(PadKindOf(shownDev[p])))

\* A worker that dies and comes back on the same game presents the same
\* devices, swaps made during the game included, unless a file failed.
RestartPresentsTheSame ==
    (running # "" /\ ~spoiled) => chosen_pads(running) = dev
=============================================================================
