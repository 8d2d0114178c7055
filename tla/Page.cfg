CONSTANTS
    s1 = s1
    s2 = s2
    s3 = s3
    a = a
    b = b
    pi1 = pi1
    pi2 = pi2
    None = None
    Socket <- ThreeSockets
    Freq <- Frequencies
    Span = 2
    MaxTunes = 2
    MaxMoves = 1
    MaxDrops = 1
    MaxSwitches = 2
SPECIFICATION MCSpec
SYMMETRY Symmetry
CHECK_DEADLOCK FALSE
INVARIANT PageTypeOK
INVARIANT DialHeard
INVARIANT ClosedIsOff
INVARIANT FilesUnbroken
INVARIANT ClipsNamed
