CONSTANTS
    p1 = p1
    s1 = s1
    s2 = s2
    Pages = {p1}
    Conns = {s1, s2}
    NoConn = NoConn
    DEPTH = 1
    WIRE = 1
    GOP = 2
    MaxFaults = 1
SPECIFICATION FairSpec
INVARIANTS
    TypeOK
    ChainUnbroken
    OwnStreamReadable
PROPERTIES
    BrokenChainHeals
    PictureReturns
