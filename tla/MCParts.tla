------------------------------ MODULE MCParts ------------------------------
(***************************************************************************)
(* The parts of a room that handle data: what pages and pads say, the      *)
(* files of the devices and of the saves, the clip, the pictures of the    *)
(* encoder, the library; and the lobby's room, which the worker reaches    *)
(* only through its control port, so with a worker of its own.  They share *)
(* nothing else, so a behaviour here is one of a single part: `part` says  *)
(* whose, is chosen once, and a part that does not move stays in one       *)
(* initial state.                                                          *)
(***************************************************************************)
EXTENDS PadPipe, Devices, Saves, Clip, MCDoors, Wire, FrameSocket, Library, Banner, H264, Pipeline,
        MCLobby

VARIABLE part

\* One setup that is not the same everywhere.
MCSetups == {[p \in Ports |-> IF p = 1 THEN "Wiimote" ELSE "GameCube"]}
MCShelves == {<<1, "kart">>, <<1, "golf">>, <<2, "kart">>}
\* The shelves at first: nothing, or the usual game with another one.
NothingThere == [p \in Shelves |-> NoDisc]
Beside(spot, disc) == [NothingThere EXCEPT ![UsualGame] = "k1", ![spot] = disc]
MCShelved ==
    {NothingThere, Beside(<<1, "kart">>, "k2"), Beside(<<1, "kart">>, "n"), Beside(<<2, "kart">>, "k1")}
MCConsoleOf == ("k1" :> "gc" @@ "k2" :> "wii" @@ "n" :> "switch" @@ "w" :> "wii")
MCSizeOf == ("k1" :> 1 @@ "k2" :> 1 @@ "n" :> 2 @@ "w" :> 2)
MCRankOf == ("kart" :> 1 @@ "golf" :> 1)
MCSaveFolder == ("kart" :> "kart" @@ "golf" :> "golf")
MCUsual == <<1, "golf">>
\* Sizes with and without a half; one no encoder takes.
MCRingSizes == {<<12, 8>>, <<6, 4>>, <<4, 3>>}
\* Headers with all that can be left out and without it, and a value at every
\* end of what a code can say.
Option(S) == {<<>>} \union {<<x>> : x \in S}
MCHeaders ==
    [kind : {"sps"}, profile : {66, 100}, constraints : {0}, level : {31}, id : {0},
     frame_num_bits : {4}, order_bits : {12}, refs : {1}, width : {0, 40, 256}, height : {30},
     aspect : Option({1}), format : {<<>>}, colour : Option({BT709_LIMITED}),
     timing : Option({<<1, 120>>}), restriction : Option({NO_REORDERING})]
    \union [kind : {"pps"}, id : {0, 65534, 65535}, sps : {0}, cabac : {FALSE},
            qp : {-32768, -26, 0, 1, 32767}, deblocking : {TRUE}, transform_8x8 : Option(BOOLEAN)]
    \union [kind : {"slice"}, first_mb : {0, 200}, pps : {0}, frame_num_bits : {4, 16},
            frame_num : {0, 3}, idr : BOOLEAN, idr_id : {1}, order_bits : {4, 16},
            order : {0, 1, 6}, qp_delta : {-1, 0}, cabac : BOOLEAN]
\* Every level of five bits, and of four bits at every transparency.
MCPixels == {32768 + c * 1057 : c \in 0..31} \union {(c % 8) * 4096 + c * 273 : c \in 0..15}

One(S) == CHOOSE x \in S : TRUE
AHeader == One(AskedHeaders)
ARingSize == One(RingSizes)

LobbyParts == {"lobby names", "lobby handlers", "lobby restarts", "lobby launch", "lobby owner",
               "lobby recovery"}
Parts == {"pipe", "devices", "saves", "clip", "doors", "wire", "frame socket", "library", "banner",
          "headers", "pipeline"} \union LobbyParts

\* Bound: wishes of the devices that wait for the main loop.
OneWish == Cardinality({p \in Ports : wish'[p] # NoWish}) <= 1

\* A part that another one keeps waiting starts in one state, given where its
\* own Init leaves a choice.
PartsInit ==
    /\ part \in Parts
    /\ ClipInit /\ DoorsInit /\ SavesInit /\ FrameSocketInit
    /\ PipeInit /\ (part # "pipe" => pad = [p \in Served |-> One(PadStates)])
    /\ DevInit /\ (part # "devices" => chosen = "kart")
    /\ WireInit /\ (part # "wire" => format = "Dolphin")
    /\ LibraryInit /\ shelf \in MCShelved /\ (part # "library" => shelf = NothingThere)
    /\ BannerInit /\ (part # "banner" =>
                        blob = [magic |-> "JUNK", length |-> 0, french |-> FALSE, value |-> 0])
    /\ H264Init /\ (part # "headers" => header = AHeader)
    /\ PipelineInit /\ (part # "pipeline" => sizes = <<ARingSize>>)
    /\ LobbyInit

Keeps(p, vars) == IF part = p THEN TRUE ELSE UNCHANGED vars

PartsNext ==
    /\ \/ part = "pipe" /\ PipeNext
       \/ part = "devices" /\ DevNext /\ OneWish
       \/ part = "saves" /\ SavesNext
       \/ part = "clip" /\ ClipNext
       \/ part = "doors" /\ DoorsNext
       \/ part = "wire" /\ WireNext
       \/ part = "frame socket" /\ FrameSocketNext
       \/ part = "library" /\ LibraryNext
       \/ part = "banner" /\ BannerNext
       \/ part = "headers" /\ H264Next
       \/ part = "pipeline" /\ PipelineNext
       \/ part = "lobby names" /\ NamesTheme
       \/ part = "lobby handlers" /\ HandlersTheme
       \/ part = "lobby restarts" /\ RestartsTheme
       \/ part = "lobby launch" /\ LaunchTheme
       \/ part = "lobby owner" /\ OwnerTheme
       \/ part = "lobby recovery" /\ RecoveryTheme
    /\ UNCHANGED part
    /\ Keeps("pipe", pipeVars) /\ Keeps("devices", devVars) /\ Keeps("saves", saveVars)
    /\ Keeps("clip", clipVars) /\ Keeps("doors", doorVars) /\ Keeps("wire", wireVars)
    /\ Keeps("frame socket", socketVars) /\ Keeps("library", libraryVars)
    /\ Keeps("banner", bannerVars)
    /\ Keeps("headers", h264Vars) /\ Keeps("pipeline", pipelineVars)
    /\ IF part \in LobbyParts THEN TRUE ELSE UNCHANGED lobbyVars

PartsSpec ==
    PartsInit /\ [][PartsNext]_<<part, pipeVars, devVars, saveVars, clipVars, doorVars, wireVars,
                                 socketVars, libraryVars, bannerVars, h264Vars, pipelineVars, lobbyVars>>

-----------------------------------------------------------------------------
(* What the run checks.  Each is the conjunction of properties its modules   *)
(* state one by one, with the code they are about.  Those that take long to  *)
(* evaluate are not evaluated for a part that does not move.                 *)

\* What a player does reaches the game as it was meant: the message of a page
\* is understood for the seat it came from or refused whole (protocol), and the
\* keys the emulator holds are those of the last state not dropped (pipe.rs).
ControlsOK == part \in {"wire", "pipe"} => WireTypeOK /\ HeardAsMeant /\ AcceptedIsSound /\ NothingDropped /\ HeldUnlessDropped

\* The files the emulator read and what the pages show agree on every place, what
\* is attached is what they show once it was ordered, but for an order that failed
\* at the start, and a restart presents the same devices (config.rs, setup.rs).
DevicesOK == part = "devices" => DevTypeOK /\ OneDevicePerPlace /\ ShownIsAttached /\ RestartPresentsTheSame

\* A save is never lost, whichever step a crash falls on, and the game plays on
\* the slot that was chosen (saves.rs).
SavesOK == part = "saves" => SavesTypeOK /\ NothingIsLost /\ PlaysOnTheChosenSlot

\* The pictures are kept, cut and lent within their bounds: a clip starts on a
\* key frame and has its sound (clip.rs), a descriptor of the emulator is owned
\* once and a frame is lent from a whole ring only (frame_source.rs), the chain
\* on the card outlives what runs on it and nothing of it stays (vulkan, Pipeline).
MediaOK ==
    /\ part = "clip" => ClipTypeOK /\ KeptIsBounded /\ PlayedRoomHasAClip /\ ClipHasItsSound
    /\ part = "frame socket" => FrameSocketTypeOK /\ DescriptorsAreOwned /\ LentFromAWholeRing
    /\ part = "pipeline" => /\ PipelineTypeOK /\ NothingLeaks /\ UsedIsAlive
                            /\ GivenBackReadable /\ EncodesThisPicture
                            /\ FitsItsChain /\ WholePicture

\* Who is let in, what a page is answered, and who may be left on a picture that
\* will not come (browser/mod.rs, route.rs, page.rs).
DoorsOK == part = "doors" => DoorsTypeOK /\ OnlyOwnPagesComeIn /\ NoEarlyNo /\ PageIsReadable /\ DarkOnlyByCrossing

\* What the menu shows of a disc is that disc's, unless its file took the place of
\* another of the same name; a trouble is not remembered for ever, but for a banner
\* that was cut or that docker refused; the game asked is the game played
\* (library.rs, disc.rs); and the banner of a disc or of a save is read whole and
\* from inside its file (banner.rs).
DiscsOK ==
    /\ part = "library" => LibraryTypeOK /\ ShownIsTheDisc /\ TroubleIsForgotten /\ AskedIsPlayed
    /\ part = "banner" => BannerTypeOK /\ ReadsStayInside /\ PictureIsWhole /\ ColoursAreFaithful

\* All that a room keeps on its disk and reads from it.
FilesOK == DevicesOK /\ SavesOK /\ DiscsOK

\* What is written in bytes is read back as it was meant: the headers of the
\* picture for the decoder, up to the last value of a code (h264).
BytesOK == part = "headers" => H264TypeOK /\ HeadersReadBack /\ NoStartCodeInside /\ ToldWhereItEnds

\* The lobby's copy of the room and the worker's: the names are under the seats they
\* are given to, the worker obeys the seat of the owner the lobby knows, and the
\* pages show the room as it is (rooms.py, server.py).
LobbyOK == part \in LobbyParts => LobbyTypeOK /\ NamesAgree /\ OwnerObeyed /\ ShownIsSeen

\* What no step of the lobby may do: launch what was not confirmed by those it is
\* launched for (preparation.py), take the owner's role from who is here (people.py).
LobbyStepsOK == LaunchedAsConfirmed /\ RoleIsKept

\* What a step may not do: refuse a connection while there is room (accept_loop),
\* accept a ring's header that brings nothing (collect_ring).
StepsOK == RefusedOnlyWhenFull /\ RingReadingProgresses
=============================================================================
