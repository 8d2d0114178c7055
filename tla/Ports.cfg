CONSTANTS
    p1 = p1
    p2 = p2
    k1 = k1
    boot = boot
    poll = poll
    com = com
    a1 = a1
    None = None
    Nothing = Nothing
    Boot = boot
    Poll = poll
    Port <- OnePort
    Post <- TwoPosts
    Steer <- OneSteer
    Addr <- OneAddr
    Body <- Bodies
    Default <- Defaults
    MaxSteers = 1
    MaxFailures = 1
    MaxStops = 1
SPECIFICATION MCSpec
SYMMETRY Symmetry
INVARIANT PortsTypeOK
INVARIANT Reassembled
INVARIANT ReadAsWritten
INVARIANT StaleOnlyInTransit
INVARIANT OneTalker
INVARIANT ReplacedIsClosed
INVARIANT StatusCoherent
