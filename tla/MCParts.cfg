SPECIFICATION PartsSpec
CONSTANTS
    MAX_PLAYERS = 2
    Players = 1
    Controls = {"A", "MAIN"}
    Values = {0, 1}
    Unsent = Unsent
    Room = 2
    WiiGames = {"kart"}
    CubeGames = {"smash"}
    Setups <- MCSetups
    NoSetup = NoSetup
    NoWish = NoWish
    CtlRoom = 1
    Saved = {s1, s2}
    Regions = {"USA"}
    Titles = {"kart"}
    Cards = {"smash"}
    SlotKinds = {"Fresh", "Person"}
    People = {"ana"}
    Unreadable = {}
    NoPerson = NoPerson
    MaxAside = 2
    COVERS = 1
    KEEPS = 3
    HOLDS = 6
    SOUND_HOLDS = 3
    APART = 2
    GOP = 2
    Conns = {k1, k2}
    MAX_CONNECTIONS = 1
    Requests <- MCRequests
    BYTES = 8
    MAX_SLOT = 4
    KNOWN = 15
    Words = {0, 9, 32, 63}
    SEAT = 2
    Formats = {"Dolphin", "Switch"}
    MAX_SLOTS = 2
    Pictures = {"small", "large"}
    Fds = {0, 1, 2, 3, 4, 5, 6}
    Shelves <- MCShelves
    Discs = {"k1", "k2", "n", "w"}
    ConsoleOf <- MCConsoleOf
    SizeOf <- MCSizeOf
    Bannered = {"k1"}
    RankOf <- MCRankOf
    SaveFolder <- MCSaveFolder
    UsualGame <- MCUsual
    NoDisc = "no disc"
    NoFile = "no file"
    MaxChanges = 1
    MaxTroubles = 1
    Wide = 8
    High = 8
    PixelValues <- MCPixels
    Lengths = {0, 4, 6176, 6495, 6496, 8095, 8096, 24735, 24736}
    WORD = 16
    AskedHeaders <- MCHeaders
    RingSizes <- MCRingSizes
    SLOTS = 2
    TARGETS = 2
    GROUP = 4
    MaxRings = 2
    MaxRefusals = 2
    ann = ann
    bob = bob
    cal = cal
    Guests = {ann, bob, cal}
    Away <- MCAway
    LoginOf <- MCLogin
    NoLogin = NoLogin
    Mute = Mute
    PADS = 2
    MaxTasks = 2
    MaxVisits = 2
    MaxGiven = 3
    MaxProcesses = 2
    MaxLate = 1
    MaxBegun = 1
INVARIANTS
    ControlsOK
    FilesOK
    MediaOK
    DoorsOK
    BytesOK
    LobbyOK
PROPERTIES
    PipeCarriesLevels
    StepsOK
    LobbyStepsOK
CHECK_DEADLOCK FALSE
