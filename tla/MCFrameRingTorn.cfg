CONSTANTS
    RING_SIZE = 3
    Wire = 4
    MaxRings = 3
    None = None
SPECIFICATION Spec
CHECK_DEADLOCK FALSE
INVARIANT
    NoTornPicture
