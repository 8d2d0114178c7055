CONSTANTS
    w1 = w1
    w2 = w2
    w3 = w3
    p1 = p1
    p2 = p2
    k1 = k1
    boot = boot
    poll = poll
    com = com
    a1 = a1
    source = source
    s1 = s1
    s2 = s2
    None = None
    Nothing = Nothing
    Writer <- ThreeWriters
    Pieces = 2
    Locked = TRUE
    MaxFrames = 5
    MaxTimeouts = 1
SPECIFICATION MCSpec
PROPERTY PostsAnswered
PROPERTY Recovers
PROPERTY OverlayFollows
INVARIANT LiveTypeOK
INVARIANT OverlayOwned
INVARIANT FramesWhole
