SPECIFICATION RoomSpec
CONSTANTS
    GRACE = 2
    QUIET_LIMIT = 1
    MaxFaults = 1
    Visitors = {"full", "pad"}
    AFTER = 5
    WARN = 2
    EMPTY = 2
    MINUTE = 1
    MAX_PLAYERS = 2
    Players = 1
    Workers = {w1, w2, w3}
    Nobody = Nobody
    Levels = {0, 1}
    FifoRoom = 4
    READS = 3
    PIPE_BYTES = 3
    CHUNK_BYTES = 2
    SAMPLE = 2
    OUTGOING = 1
    Pages = {g1, g2}
    SocketRoom = 1
    Rooms = {r1, r2}
    SaveSlots = {a1, a2}
    NoRoom = NoRoom
    MaxDeaths = 1
    SwitchPorts = {1, 2}
    SEAT_GRACE = 3
INVARIANTS
    ThreadsOK
PROPERTIES
    RoomsComeBack
    WhatIsOwedComes
CHECK_DEADLOCK FALSE
