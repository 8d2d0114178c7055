CONSTANTS
    c1 = c1
    c2 = c2
    k1 = k1
    k2 = k2
    r1 = r1
    r2 = r2
    Source = Source
    None = None
    Client <- OneClient
    Tuners <- OneClient
    Rate <- OneRate
    Centre <- TwoCentres
    MaxTunes = 1
    MaxMoves = 0
    MaxDrops = 0
    MaxFaults = 0
SPECIFICATION Spec
INVARIANT HonestCentre
