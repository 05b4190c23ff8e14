CONSTANTS
    c1 = c1
    c2 = c2
    neutral = neutral
    press = press
    PORTS = 3
    Players = 2
    Conns = {c1, c2}
    Frames = {neutral, press}
    Neutral = neutral
    NoFrame = NoFrame
    PING_EVERY = 1
    GONE_AFTER = 3
    ANSWER = 1
SPECIFICATION FairSpec
CHECK_DEADLOCK FALSE
INVARIANTS
    TypeOK
    HeldPortHasItsThread
    NoStuckPad
    OneStrayFrame
    QuietPlayerKeepsPort
PROPERTIES
    SeatMovesAreLegal
    GhostGivesPortBack
    ReplacedIsTold
    PadGoesNeutral
