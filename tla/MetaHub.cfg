CONSTANTS
    c1 = c1
    c2 = c2
    cat = cat
    rig = rig
    None = None
    Client <- TwoClients
    Freq <- Frequencies
    StationHz = 5
    Sources <- CatOnly
    Setters <- CatOnly
    MaxMoves = 1
    MaxSwaps = 0
    MaxErrors = 0
    MaxFaults = 1
SPECIFICATION MCSpec
INVARIANT MCTypeOK
INVARIANT RestShowsNewest
PROPERTY FollowsDial
