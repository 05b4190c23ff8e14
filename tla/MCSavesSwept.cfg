SPECIFICATION SavesSpec
CONSTANTS
    Saved = {s1, s2}
    Regions = {"USA"}
    Titles = {"kart", "party"}
    Cards = {"smash"}
    SlotKinds = {"Fresh"}
    People = {"ana"}
    Unreadable = {}
    NoPerson = NoPerson
    MaxAside = 2
INVARIANT SweepErasesNoSave
CHECK_DEADLOCK FALSE
