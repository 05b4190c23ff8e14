CONSTANTS
    RING_SIZE = 3
    Wire = 4
    MaxRings = 3
    None = None
SPECIFICATION FairSpec
CHECK_DEADLOCK FALSE
INVARIANTS
    TypeOK
    RightPicture
    NoSlotIsLost
    TornOnlyByCrossing
PROPERTY
    PicturesKeepComing
    EndTogether
