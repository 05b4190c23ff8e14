CONSTANTS
    PORTS = 1
    cubedisc = cubedisc
    dolphin = dolphin
    switch = switch
    alice = alice
    Games = {cubedisc, dolphin, switch}
    SwitchGames = {switch}
    WiiGames = {dolphin}
    DefaultGame = cubedisc
    NoGame = NoGame
    Saves = {"fresh", "person"}
    Persons = {alice}
    NoOne = NoOne
    Kinds = {"cube", "mote"}
    GameCube = "cube"
    Pro = "pro"
    Launches <- MixedLaunches
    Wishes = {switch}
    Owners = {0}
    Nothing = Nothing
    MaxBoots = 2
    MaxClaims = 1
    MaxFaults = 1
    MaxCrashes = 1
SPECIFICATION Spec
CHECK_DEADLOCK FALSE
INVARIANTS
    TypeOK
    LaunchExcludesClose
    KeptGameBoots
    KeptSaveBoots
    ClosedUntilRelaunched
PROPERTY
    NoStaleLaunch
