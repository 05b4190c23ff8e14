CONSTANTS
    PORTS = 1
    cubedisc = cubedisc
    dolphin = dolphin
    switch = switch
    alice = alice
    Games = {dolphin}
    SwitchGames = {}
    WiiGames = {dolphin}
    DefaultGame = dolphin
    NoGame = NoGame
    Saves = {"fresh", "person"}
    Persons = {alice}
    NoOne = NoOne
    Kinds = {"cube"}
    GameCube = "cube"
    Pro = "pro"
    Launches <- PlainLaunches
    Wishes = {dolphin}
    Owners = {0}
    Nothing = Nothing
    MaxBoots = 1
    MaxClaims = 1
    MaxFaults = 0
    MaxCrashes = 0
SPECIFICATION Spec
CHECK_DEADLOCK FALSE
INVARIANT
    ClosesOnlyWithoutGame
