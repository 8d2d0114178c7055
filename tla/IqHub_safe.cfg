CONSTANTS
    c1 = c1
    c2 = c2
    k1 = k1
    k2 = k2
    r1 = r1
    r2 = r2
    Source = Source
    None = None
    Client <- TwoClients
    Tuners <- TwoClients
    Rate <- OneRate
    Centre <- OneCentre
    MaxTunes = 2
    MaxMoves = 1
    MaxDrops = 1
    MaxFaults = 1
SPECIFICATION Spec
SYMMETRY Symmetry
CONSTRAINT TunesOrOutage
INVARIANT TypeOK
INVARIANT NoLostAnnounce
INVARIANT StaleOnlyIfOverlapped
PROPERTY BoardSpec
